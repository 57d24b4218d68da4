# TLA+ models of c-commons

This directory holds TLA+ models of the parts of c-commons in which several
threads or processes share state, the TLC runs that check them on small
instances and the TLAPS proofs that generalise the most important results.
`PROJECT.json` lists every run, the source lines every definition stands for,
the hazards and the findings. Paths below are relative to `src/`.

## Inventory

c-commons is a collection of C components that share little but headers. The
parts with logic of their own:

| component | state | operations | what is hard | what makes it correct |
|---|---|---|---|---|
| thread pool, `thread/utils_thread_pool.c` | task list and its counter, thread table, three thread counters, semaphore, shutdown flag | init, add, destroy; worker and administrator threads | three locks' worth of shared fields, condition variables, descriptors reused after detach, destroy without the lock | tasks run once, in order, within the bounds; counters and table exact; destroy returns and nobody uses the pool afterwards |
| battleship, `project/BattleShip/main.c` | one record in shared memory, a boat and a bomb history per process | generate boat, generate bomb, check, announce, exit | two processes synchronised by spinning on flags, no lock | one process acts at a time; players alternate; the winner has won; the game ends |
| event loop, `event/` | file event table, fired array, timer list, clients | create/delete events, poll, dispatch, timers, accept, echo, free | handlers and callbacks that change the tables and lists the loop walks, descriptors reused within a round, a clock that is set | a handler only runs for a live registration of its own connection; timers run once and are freed once; nothing leaks |
| boundary-tag allocator, `data_struct/dynamic_mem_manage.c` | arena of tagged blocks, circular free list | alloc, reclaim | splitting, merging left and right, stale tags, the roving list head | blocks tile the arena, tags agree, no block is handed out twice (false of the code: run `alloc_twice`) |
| memory pool, `mempool/` | block list | init, alloc, free | a mutex taken twice | nothing to state: it never gets past its first call |
| UDP transactions, `project/udptrans/` | sorted list of transactions | create, send, receive, resend, give up | loss, duplication, late answers, refused datagrams, resends that depend on an idle channel | a request is settled only when the server has echoed it or every try has been made; every request is settled |
| process coordination, `project/process_coordination/` | assignment list, mutexes | professor, assistant and student threads | mutexes unlocked by other threads, nodes read after they are freed | not modelled, see the end |
| `thread/utils_thread.c`, `utils_sem.c`, `utils_signal.c` | none that lasts | fork, wait, signals | a SIGCHLD handler racing waitpid | each child is reaped once |
| files, network, log, strings, algorithms, demos | none shared | | | |
| libcurl, OpenSSL, libxml2, cJSON, proxylab | third party | | | |

The components do not call each other, except that all of them log. Nothing is
persistent, so there is no crash recovery to model.

## Plan

1. `TaskService`, `ThreadPool`, `MCPool`, `ThreadPool_proofs` (done).
2. `BattleShip`, `MCBattle`, `BattleShip_proofs` (done).
3. `TimerEvents`, `MCTimers`: the timers of the event loop (done).
4. `EventServer`, `MCServer`: file events, and the clients of `mc_server.c` whose
   handlers free themselves (done).
5. `TimerEvents_proofs`, `EventServer_proofs`, with the lemmas of `Extrema` (done).
6. `BoundaryTag`, `MCBoundaryTag`: the allocator at word granularity (done).
7. `RequestService`, `UdpTransaction`, `MCUdpTransaction`: the resend protocol over a
   network that loses and duplicates, and the abstract service it implements (done).
8. `BoundaryTag_proofs`, `UdpTransaction_proofs` (done).
9. `BombGame`, `Allocator`, `EchoService`, `TimerService`: what the other four components
   promise, each shown to be implemented by the detailed module, by TLC and by proof (done).
10. The safety cores of two liveness properties: `NoWakeupLost` of the thread pool and
    `GameIsShort` of the game (done).

The order follows the number of callers that depend on a component and the
difficulty of testing it.

## Thread pool

`ThreadPool.tla` is `utils_thread_pool.c`. `TaskService.tla` is what the header
promises a caller; `ServiceSpec` instantiates it on the pool's variables and is
both model-checked and proved.

**State.** The variables of the first group are the fields of `ST_THREAD_POOL`
with their names. The task list is the sequence of task numbers (numbered as
they are accepted). `worker`, `admin`, `client` and `main` say what each thread
does next; `hand` is the task between unlinking and the handler's return.
`added` and `finished` are history.

**Steps.** A step is one critical section of `queueLock`, or one access made
without it. The lock stays owned between two steps only where that matters: a
worker between the test of its inner loop and `pthread_cond_wait`
(`towait`), because destroy sets `shutdown` and broadcasts without the lock; the
failed `malloc` that returns without unlocking; and the "worker is null" branch
that would lock the mutex twice, which `QueueCountExact` shows to be dead.

**Environment.** `pthread_cond_signal` wakes any one sleeper or nobody;
`pthread_cond_wait` may wake without reason; a worker's descriptor becomes
reusable when it has detached itself; `malloc`, `calloc` and `pthread_create`
may fail. `sem_timedwait` may always return, because it waits for at most thirty
seconds. What a failed `pthread_create` stores in its slot is unspecified: the
model keeps the old value or writes any unused descriptor.
`Faults` says which of these a run allows.

**Use after free.** Steps that touch the pool have the guard `Allocated`: after
`free` their outcome is undefined and the model stops them. That a thread is
still going to take such a step is a property (`NobodyUsesFreedPool`,
`WorkersGoneAtFree`), not an assumption.

### Runs

| run | instance | checks |
|---|---|---|
| `pool_safety` | 3 descriptors, 2 clients, at most 2 workers, at least 1, queue of 2, 4 tasks, non-blocking, all faults, adds may overlap destroy, both flags | types, lock discipline, counters, thread table, queue bound, task order and conservation, refinement of `TaskService` |
| `pool_liveness` | 2 workers, minimum 2, queue of 1, 3 tasks, 2 blocking clients, spurious wakeups, waiting destroy, fair | no wakeup is lost; every accepted task runs; every blocked producer returns; waiting destroy frees the pool after the last task and the last worker |
| `pool_force_destroy` | 1 worker, 1 task, fair | refutes "destroy with FORCE returns" |
| `pool_wait_destroy` | 2 workers, minimum 1, 4 tasks, fair | refutes "destroy with WAIT stops waiting" |
| `pool_free` | 1 worker, 1 task | refutes "nobody uses a freed pool" |

**Bounds.** `MaxTasks` caps the calls of `threadpool_add_worker`; nothing else is
cut off. Two clients are enough for two producers to wait for the same place,
three descriptors enough for one to be reused while two workers live. A queue of
two with four tasks reaches the full queue and wraps it. `MIN_TASK_WAIT_NUM` is 5
in the header; the runs use 0 or 1, so that the backlog above it is reachable.
Descriptors and clients are interchangeable, and the runs without liveness
use symmetry over them.

**Deadlock checking** is off in the pool's runs: the system stops after destroy, or
for the reasons the findings give. What must not stop is stated by the two
liveness properties.

**Fairness.** Threads that can run do run (weak fairness); a thread waiting for
`queueLock` gets it if it becomes free again and again (strong fairness: the mutex
is not owned for ever, and a scheduler that starves one waiter for ever is not
what the code is written for); handlers return; timed waits expire. There is
no fairness on calling add or destroy, and none on faults.

**What the violations show.** The three findings are about wakeups and lifetime:
shutdown without the lock loses a wakeup; a retirement request that found no
sleeper stays pending and later makes the worker that was woken for a task
leave; the administrator is not joined. `pool_liveness` therefore sets the minimum
to the maximum number of workers: with retirement its properties do not
hold, for the second reason.

### Proofs

`ThreadPool_proofs.tla` proves every safety property that the passing runs check,
for every number of threads, clients, slots, tasks and every queue size, from
the assumptions in `ThreadPool.tla` on the constants (finite, disjoint sets of
threads and clients, natural numbers). The argument is layered, each layer being
inductive relative to those below:

1. `TypeOK`, inductive by itself.
2. `QueueCountExact` and `LockDiscipline` together: the worker that takes a task
   needs the counter to know that the list is not empty, and the counter is
   exact because no other thread is between the two.
3. `ThreadsRegistered`: a slot is overwritten only when its descriptor is dead.
4. `CountersExact`: cardinalities of sets of workers change by one with each
   step that moves a worker.
5. `QueueBounded` and `TasksConserved`.
6. `ServiceSpec`: initial states map to initial states, every step maps to a step
   of `TaskService` or to a stutter. `Start`'s bound on parallel tasks uses
   `ThreadsRegistered`: busy threads are at most as many as slots.
7. `DrainInv`: when waiting destroy has passed its first loop and no add is in
   progress (`~Overlap`), the queue is and stays empty, so no worker is created,
   dead slots stay dead, and the joining loop's index bounds the living ones.
   `WorkersGoneAtFree` and `DrainedAtFree` follow.
8. `WakeInv`: `NoWakeupLost` says that while a worker sleeps and the pool is not shut
   down there are at least as many workers awake and looking for a task, or clients about to
   signal, as tasks in the queue, and that a client waits for room only while the queue is
   full. It is inductive together with two facts: a worker that is about to sleep
   has seen an empty queue, to which nobody can append because it still owns
   `queueLock`; and there are at most `minThrdNum` workers, so that none retires. The
   second is why the theorem has the hypothesis `maxThrdNum <= minThrdNum`, which run
   `pool_liveness` satisfies: with retirement a signal can wake a worker that leaves
   (`DrainEnds`), and the property is false.

Liveness, under fairness, is only model-checked: `NoWakeupLost` is the part of
`AcceptedTasksFinish` and `BlockedAddReturns` that is a safety property. The theorems with
a hypothesis are `WorkersGoneCorrect`, `DrainedCorrect` and `NoWakeupLostCorrect`; all
others hold for all values of the constants that satisfy the assumptions.

## Battleship

`BattleShip.tla` is `project/BattleShip/main.c`, `BombGame.tla` the game as its players
see it, without processes, flags or shared memory: two boats, then bombs in turn, each
judged before the next is thrown, until the first player has sunk the second's boat or the
second is declared the winner. `GameSpec` maps the first to the second: the phase from
`step`, the boats and the bombs from `position` and `record`, the winner from `victory`. A
victory of the second player is only required to follow its own bomb, because that is all
the code ensures (see below). The processes are `"parent"` and `"child"`;
their loops are the same up to the differences that the operators state: who publishes the
bomb, who is woken, who announces the result.

**State.** The first five variables are `ST_BATTLE_DATA` (with `parent_ready` and
`child_ready`, `parent_bomb_num` and `child_bomb_num` as functions of the
process). `position`, `record` and `bomb_flag` are the local variables of each
process. `pc` and `wake` say where it is and which flags it still has to raise.
A coordinate pair is its index in `position_detail`; `position_detail` is
injective, so equality of coordinates is equality of indices.

**Steps.** Reading a raised flag, clearing it, executing the operation up to the
write of `step`, and raising each flag are separate steps, in the code's order;
so is the write of `step` by each process before its loop. The operation itself
is one step, because no other process writes what it reads: that is
`OneBaton`, which the run checks with operations of both processes enabled
whenever their flags allow it.

**Run `battle`.** Five cells and three boats that overlap at their ends, with one cell
that belongs to no boat; the code has sixteen of each. Every mixture of hits and misses,
of shared and disjoint boats, and the last free cell occur. The run checks that one
process plays at a time, that the two play `BombGame`, that the game is short and that it
ends. `GameIsShort` needs no fairness: until both processes have exited one of them can go
on (`CanMove`, which spells out when a process has a step, so that it can be proved about
without ENABLED; on the run's instance it agrees with `ENABLED Next`), and every step
lowers the natural number `StepsLeft`. `GameEnds` adds the fairness that both processes
continue to be scheduled. A process whose rejection loop has no free cell has no step, so
both would fail; that every loop finds one is `BombLeft`, a theorem. The games stop, so
deadlock is not an error. The loop's random draws are assumed to find a free cell
eventually.

**What is not claimed.** `project/BattleShip/main.c:74` says of `victory` that 2 means
the child has won. The child's bombs never reach the shared record (lines 315-324), so the
parent compares its own last bomb with its own boat (223-235) and may set `victory` to 2
although the child has not hit both ends of it. `CheckBomb` does what the code does, and
`BombGame` leaves open why the second player wins.

### Proofs

`BattleShip_proofs.tla` proves the safety properties for every finite board and every
non-empty set of two-cell boats (`position_map` holds sixteen). The inductive invariant
`Inv` has five parts:

- `Typed`: types and the shape of the flags still to raise;
- `Baton`: until the end at most one process is active (flag up, or inside its
  loop), and it executes with its own flag down;
- `Placed`: each boat is placed once, the parent's first;
- `Game`: every bombed end of the child's boat is marked, or is the bomb that the
  child is about to check; while bombs fly the child's boat has an unmarked end;
- `Score`: `bomb_num` counts the bombed cells, and the difference of the scores
  is determined by who holds the token.

`BombLeft` needs the last two: the parent has the unmarked end left to bomb, the child has
thrown fewer bombs than the parent. `OneBaton` alone is not inductive: that a flag is down
while its process executes has to be known too. `InTurn`, `BombLeft` and `ParentWinIsReal`
are theorems that no run repeats: the first and the last are parts of what `BombGame`
demands, the second is part of `NeverStuck`.

`GameCorrect` proves `GameSpec`. A step of a process's loop is a stutter unless it
executes an operation; a boat needs `Placed`, a bomb `Score` (whose turn it is), a verdict
`Game` (the marks are exactly the ends that were bombed).

`GameShortCorrect` proves `GameIsShort`. `Onward` says that the baton is never lost: until
the end some process is active, and only the parent announces the end. `Ending` does the
same for the exit, when both processes may run: whoever spins has its flag up, or the
other process is still going to raise it. `StepsLeft` counts five steps for each operation
to come and those left of each process's round, because an operation, the flag it raises
and the round of the process it wakes take five. A game takes at most 20 steps for a cell
and 32 more, 352 on the code's sixteen cells. That a fair scheduler therefore ends every
game (`GameEnds`) is left to TLC.

## Event loop

The loop of `event/cevent.c` is modelled twice, once for each of the two things
it drives. They share only the poll: `TimerEvents` treats the file handlers as
code that may create timers, `EventServer` treats a poll that times out as
another round.

### Timers

`TimerEvents.tla` is `aeCreateTimeEvent`, `aeSearchNearestTimer`, `processTimeEvents` and
the order in which `aeProcessEvent` uses them. `TimerService.tla` is what a user of timers
is promised, with sets in place of the list and without the order of the walk: a round
calls each timer that was there when it began at most once, none before its deadline,
misses none that was due from beginning to end, and calls no more a timer whose callback
returned `AE_NOMORE`, which the next round frees. `ServiceSpec` maps the list to the sets
of timers alive and stopped, a walk to a round, and the timers that the walk has not
called to those it may still call.

**State.** Timers are named by their ids, counted from 1 with 0 as NULL. `next`,
`prev` and `when` are the fields of `ST_EVENT_TIME`, `deleted` the timers whose id
is `AE_DELETED_EVENT_ID`, `linked` the timers that have been allocated and not freed. Time
is counted in ticks, `TicksPerSec` to a second: `lastTime` has the resolution of a
second, the deadlines that of a tick, as in the code. `te`, `maxId` and `sleep`
are locals. `owed`, `doomed` and `ran` are history for `WalkComplete` and
`ServiceSpec`, `moved` says that the clock was set during the poll.

**Steps.** Each visit of the walk is a step, a callback is a step of its own in
which timers may be created, and the clock may advance or be set anywhere, in
particular between the two readings of it in a round.

**Run `timers`.** Three timers, a clock of five ticks at two ticks a second that
is set at most once, the delays 0 and 3. Three timers let a timer be removed at
the head, in the middle and at the end while others are created; the delay 0
tempts the walk to call a timer again; a delay above a second makes a backward
step visible to `lastTime`. `MaxTimers`, `MaxClock` and `MaxJumps` are the only bounds; the
system may stop when they are reached, so deadlock is not an error.
`WakesInTime` excludes polls during which the clock is set, and nothing else.

**Run `timers_skew`** refutes what the comment at `event/cevent.c:173` announces: when the
clock is set back before the timeout is computed, the loop sleeps first.

### Proofs about the timers

`TimerEvents_proofs.tla` proves the invariants of run `timers`, the refinement and
`OncePerWalk` (the walk calls no timer twice, which the refinement implies) for any number
of timers, any delays and resolution, and any behaviour of the clock. Two parts of the
inductive invariant `Inv` are not properties of the run:

- `Bounds`: the ids in the list are those given out, so a new timer is the latest;
- `Walk`: the walk goes from later to earlier timers. What it has called is behind
  it; what it owes a call or has to free is not, and is still in the list.

`ListInOrder` says that `next` and `prev` run through the allocated timers in the order of
their ids. It carries the argument: the successor of a timer is the next lower one
allocated (`Successor`), so no step of the walk passes over an owed timer; a timer created
by a callback goes to the head, which is behind the walk; unlinking one joins its two
neighbours (`Unlinked`). `CursorLive` and `OncePerWalk` follow with `Walk`. At the end of
the list nothing is owed, because every id is above NULL: `WalkComplete`. `WakesInTime`
uses that `aeSearchNearestTimer` finds a minimum (`Nearest`, by `Least` of `Extrema.tla`).

`ServiceCorrect` proves `ServiceSpec`. It needs `Inv` and `Between`: outside a walk
nothing is owed a call, and the timer whose callback runs has been called in this walk. A
timer is called only if it is in the abstract set `todo`, which is `Walk` (what was called
is behind the walk); the round may end because nothing is owed or condemned any more,
which is `WalkComplete`.

### File events and the server

`EventServer.tla` is the registration and dispatch of file events together with the
handlers of `anet.c`, which are the only code that uses them. `EchoService.tla` is the
server as its peers see it, without descriptors, epoll or an event table: connections are
looked at in the order of their arrival, turned away only when there is no room, each
input is answered to the client it came from and before the next is read, and a client is
dropped only when its peer has gone and its input has been read. `ServiceSpec` takes the
queue, the clients and the unread answers as they are; the peer being answered is the one
to which the current descriptor refers, so that a reused descriptor would show as an
answer to the wrong peer.

**State.** The kernel's side is `open` (what each descriptor refers to), `epoll`
(the interest set) and `backlog` (connections not yet accepted; longer than the
listening queue of the code may be, which only delays `connect`). The program's
side is the event table (`registered`, `clientData`, `maxfd`), the events
still to be handled (`fired`) and the client objects (`clients`, `clientFd`). A
client object is named by its connection. Descriptors are numbers and `accept`
returns the lowest free one, so they are reused as soon as they are closed.
`pending` says that a peer has sent data which the server has not read, `unread`
counts the replies the peer has not read.

**Steps.** A step is a system call together with the code up to the next one that a
peer can affect: each accept, each read, each write. `createClient` and
`freeClient` are single steps, because nothing they touch is visible to a peer
before they end. The write is separate from the read: in between the peer may close, and
the write then ends the process (`ReplyKills`; nothing under `event/` handles
SIGPIPE), or the peer's socket may be full, and the server waits.

**Run `server`.** Three connections, a table with room for two clients (descriptor 0 is
the listening socket, 1 is epoll), two accepts per call, one reply of room. A
third connection is refused or reuses the descriptor of a client that has gone;
three waiting connections need two calls of the handler. There is no bound on
how often peers send. The system stops when the server is killed or all peers are done, so
deadlock is not an error.

**Fairness.** The loop's thread runs; peers read what they are sent, as the
reader thread of `client.c` does. Nothing obliges a peer to connect, send or
close. Without the second assumption one peer that does not read stops the
server for all, since its sockets are blocking.

### Proofs about the server

`EventServer_proofs.tla` proves the safety properties of run `server` for any
table size and any finite set of connections. `Inv` is the four invariants of
the run and `Queue`: a connection waits in one place of the backlog, and has no client
before it is accepted. Without `Queue` the accept of a connection that already
has a client would break the correspondence of clients and descriptors in
`TablesAgree`. `NoBlockingRead` needs that each descriptor fires once in a
poll, that a handler closes no descriptor but its own, and that `accept` cannot reuse the
descriptor of an event that is still to be dispatched, since that one is open. `MaxfdExact`
uses that the scan of `aeDeleteFileEvent` always ends at a registered
descriptor, because the listening socket is below all others (`LastBelowProperty`, by
`Greatest` of `Extrema.tla`).

`RefusedOnlyWhenFull` is an action property, a theorem that no run repeats because the
refinement implies it. A refusal means that every descriptor below `setsize` is taken;
`TableFull` then counts the clients by a bijection between them and the descriptors above
the listening socket and epoll.

`ServiceCorrect` proves `ServiceSpec` with the help of `Served`: a peer that has connected
is waiting, a client or refused, and a reply is written to a descriptor that belongs to a
client. The room for a new client is counted by the same bijection, and `TablesAgree`
identifies the client that is read from, answered or dropped with the peer at the other
end.

`QueuedHandled` and `InputHandled` are liveness properties and only model-checked.

## Boundary-tag allocator

`BoundaryTag.tla` is `data_struct/dynamic_mem_manage.c`: `SpaceInit`, `AllocBoundTag` and
`ReclaimBoundTag`. `Allocator.tla` is what callers may expect of them while the arena is
intact: the words granted to a caller belong to nobody else and stay the caller's until it
releases them. `AllocatorSpec` maps what the holder of each word asked for (`asked`) and
whether the arena is sound to it. The code is sequential; its difficulty is that every
call leaves behind words that later calls read, and some calls leave them in disorder.

**State.** A word is a number and a pointer is the number of a word. `link`, `tag`, `size`
and `rlink` are the fields of `WORD` (`link` is the union of `llink` and `uplink`), so a
stale tag in the middle of a block stays there and can be met again. A tag is free,
occupied or `STALE`, neither of the two. `pav` is the caller's list head; `want` and
`cursor` are the parameter and the pointer of a search in progress. `heads` (where blocks
begin), `holders` and `asked` (how many callers hold a block, and what the last of them
asked for), `seen` (what the search has passed), `arena` and `strays` are history. Guards
read them for what callers do: they release what they were given, and write into it.

**Steps.** A search is one step per block, because that it ends is a property. What
follows it is one step: refused, whole block, or split; a call with an empty list is
refused without effect and is no step. A release of a block tagged free is ignored. The
four cases of a release are one action each, with the code's conditions, the last of them
a plain else, and the assignments in the code's order where they may name the same word.
`HolderWrites` is what a caller does: it leaves data between head and foot of its block.
Of that data the model keeps the field in which the code may later look for a tag.

**A broken arena.** No call is cut off because the list head or a tag is stale: both
functions go on as the code does, with the words as they are. `arena` records what has
happened. It becomes `"broken"` when a release merges the block that `*pav` points to, or a
block that is not free, into another one (`Merge`); and `"undefined"` when a call
dereferences NULL or reads or writes outside the arena, after which there is no further
call. Defects of the code that the model shows:

1. *The head goes stale* (lines 108 and 128). When the right neighbour is merged away,
   `*pav` is not moved off it. The next search starts inside the merged block, at a head
   whose size and links are still there, and grants it; a split of the merged block then
   grants the same words again. No holder need have written anything. This is the finding
   of run `alloc_twice`.
2. *A stale tag is believed* (lines 61 and 125). The foot of what a split leaves over keeps
   the tag its word held. If that is a former holder's data and neither 0 nor 1, the
   release of the block behind it takes the else, which unlinks and swallows the right
   neighbour even when that one is held; at the end of the arena, where the fence has no
   links, it dereferences NULL. A stale 1 only prevents a merge, and 0 is right.
3. *Releasing into an empty list leaks* (line 95): the parameter `pav` is assigned, not the
   caller's pointer. The block is linked to itself and `*pav` stays NULL, so that all
   further requests are refused. Nothing is broken by it, and nothing in the repository
   promises otherwise; `FreeListLinked` and `SearchMeetsAll` state how far it goes.

A double release is recognised by the tag of the block's head, as
`dynamic_mem_manage_main` relies on at line 226. A block that was merged into its left
neighbour keeps the occupied tag; its second release would merge it again. That takes a
caller that releases words it does not hold, and is not modelled.

**Run `alloc`.** Nine words, a margin of one, requests of two and four words, data that is
neither tag. Up to four blocks coexist, so every release case occurs with the neighbours
held, free, adjacent in the list and alone in it; a rest falls on both sides of the
margin; requests are refused with free blocks left; stale tags of all three kinds are met.
Types and the three properties of a sound arena are invariants, `AllocatorSpec` a
refinement. `MaxStray` bounds the calls on a broken arena, about which only `TypeOK` says
something, to one; no other counter is cut off. `Tiling`, `FreeListLinked` and
`SearchMeetsAll` say nothing once a release has broken the arena. On this instance no
release does but by defects 1 and 2, and the properties show that splits, merges, double
releases and stale tags do no harm otherwise.

**Run `alloc_twice`** refutes `OneHolder`, that the words of an occupied block are one
holder's alone, in an arena of eight words with requests of two, two calls on the broken
arena and holders that write nothing. The trace: two requests; the first block is
released and becomes `*pav`; the second is released and merged with it into what is left
on its left; two more requests are both granted the first block.

In both runs the model may stop, because the arena is undefined or the calls on a broken
one are used up, so deadlock is not an error.

### Proofs about the allocator

`BoundaryTag_proofs.tla` proves the invariants of run `alloc`, `HoldersKeepWords` and the
refinement for any arena size, margin, set of requests of at least two words, data and
number of calls on a broken arena. The inductive invariant `Inv` is `TypeOK`, which holds
in every state, and `Order`, which holds until the arena is broken:

- `Tiled`, the conclusion of `Tiling`, and `Kept`, the margin of `HoldersKeepWords`;
- `ListInv`, the conclusion of `FreeListLinked`;
- `Cycle`: unless `*pav` is NULL the free blocks form one cycle, said as: no proper,
  non-empty part of the list is closed under successors (`OneCycle`). This form
  survives insertion, removal and replacement by set reasoning alone (lemmas
  `Removed`, `Inserted`, `Replaced`), without induction on the length of the list;
- `Path`: the search has walked a path from `*pav`; at the block whose
  successor is `*pav` the blocks seen are closed under successors, hence all of them;
- `Single`: a block has at most one holder, which is the one `asked` speaks of.

Nothing repairs a broken arena (`ArenaStep`), so a step need only keep `Order` when it
ends in a sound one. `Tiled` is what makes the tags trustworthy: different blocks have
different feet and no foot is a head (`Geometry`). A tag behind a block is a head's or a
fence's and tells the truth (`RightFreeBlock`). A tag before a block that is not occupied
belongs to the foot of a free block, which leads to its head whatever the tag
(`LeftFreeBlock`). So a merge swallows a block that is not free only in the else case, and
`Merge` then breaks the arena. `AllocDefined` shows that on a sound arena no search or
grant dereferences NULL or leaves it.

`AllocatorCorrect` proves `AllocatorSpec`. Words inside a free block are nobody's
(`FreeWords`); with `Kept` (a holder's block has the words it asked for) and `Tiled`
(blocks do not overlap) a grant is disjoint from all others. Splitting and merging move
heads, and must change `asked` at the released block only. A step that breaks the arena
must be a release, since `Allocator` lets nothing else end the promise.

## UDP transactions

`UdpTransaction.tla` is the client of `project/udptrans/` together with the network and the
echo server of `project/udp/main.c`. `RequestService.tla` is what the three provide: a
request is new, pending or settled; it is sent at most `maxResend + 1` times, never
once settled, and settled only if the server has handled it or the tries are used up.

**State.** `transList`, `dirty`, `resend_count` are the context's list and the fields of a
transaction. `due` is `resend_time` less the present time, cut off at -1: only its
sign is read. `inbox` and `refused` are the client's socket (`refused` is the pending
error of a connected socket whose datagram met a closed port), `requests` and `replies` the
datagrams under way. Equal datagrams are interchangeable, so these are
numbers of datagrams per message id. `sent` and `served` are history.

**Steps.** Creating a request, reading one datagram, and the visit of one
transaction by the walk are steps; datagrams arrive, errors become pending and the server
answers between any two of them. Time passes outside the walk: the walk compares with the
time it read at its beginning, so a second that falls into it counts after it.

**Faults.** Datagrams are lost, delayed, reordered and duplicated; `sendto` fails on a
pending error, and the walk counts the try all the same; a transaction or an answer finds
no memory; the server's thread returns on an error and leaves a bound socket that nobody
reads, is killed, and is started again.

**Run `udp`.** Two requests, made in descending order so that insertion at the head
occurs, two resends after the first try, a timeout of zero seconds (a request is overdue
as soon as the next second begins; larger values only add seconds in which nothing
happens), one duplicate and one start of the server. `MaxDups` and `MaxStarts` bound what
the environment does, nothing bounds the client. Deadlock is checked: select always
returns.

**Fairness.** The client's thread runs (weak fairness), and time passes (strong fairness:
it is disabled during walks). Nothing obliges the network to deliver or the server to
answer: `EverySettled` holds because the tries are bounded. It would not hold against a
peer that sends for ever, because transactions are looked at only when select times out
(`main.c:160`); here a peer answers what it has received, and duplicates are finitely
many.

**What is not promised.** The last try gets no `responseTimeout` of its own: the next
idle select ends the transaction. An answer that arrives later finds it settled and
changes nothing, which is why `RequestService` allows a request to be given up and served.

### Proofs about the transactions

`UdpTransaction_proofs.tla` proves `TypeOK`, `ListInOrder` and the refinement of
`RequestService` for any sequence of distinct requests, any numbers of resends, duplicates
and starts, and any timeout. `Inv` adds to the first two

- `Progress`: the list holds only requests already made, so a new one is not in it, and
  the walk stays within the list;
- `Causes`: a datagram exists only for a request that was sent, and an answer, under way
  or in the inbox, only for a request the server has echoed. This is what the
  refinement needs when an answer settles a transaction.

`ListAdd` says what insertion before the first larger id does to a sorted list, by `Least`
of `Extrema.tla`. `EverySettled` is a liveness property and only model-checked.

## Not modelled

The process coordination demo has no behaviour that could be modelled: the
professor unlocks the student's mutex (`main.c:170`), the student thereupon frees its
node (310), and the professor reads `next` of that node to continue the list
(180), in every round; the mutexes are also unlocked by threads that do not own
them. The memory pool blocks at its first call on a mutex that its caller
holds. The other parts left out are sequential code around system calls, cipher
and formatting routines, or third-party libraries, which are by far the most of
the repository's lines.

Formatting, logging, allocation sizes and return codes that no caller can tell
apart. The weak memory behaviour of unlocked reads: each is a read of the latest
value (they are bracketed by library calls in the thread pool; in the game the
unoptimised build reads memory every time). `PROJECT.json` gives the reason for
every component left out.
