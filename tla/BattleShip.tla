------------------------------ MODULE BattleShip ------------------------------
(***************************************************************************)
(* project/BattleShip/main.c: a parent and a child process play battleship *)
(* through one record in shared memory.  Each process spins on its own     *)
(* ready flag, clears it, executes the operation that `step' names, writes *)
(* the next `step' and only then raises a ready flag: the flags pass a     *)
(* baton.                                                                  *)
(*                                                                         *)
(* A position is the index into position_detail; a boat is the pair of     *)
(* indices generate_boat_position reads from position_map.                 *)
(***************************************************************************)
EXTENDS Integers, Sequences, FiniteSets

CONSTANTS
    Cells,            \* the positions generate_bomb_position draws from
    Boats,            \* the pairs generate_boat_position draws from
    NoCell            \* the zeroed bomb_pos, which is no position

ASSUME BoardAssumption ==
    /\ IsFiniteSet(Cells)
    /\ NoCell \notin Cells
    /\ Boats \subseteq {b \in Cells \X Cells : b[1] # b[2]}
    /\ Boats # {}

VARIABLES
    \* ST_BATTLE_DATA, in shared memory
    step, ready, bomb_num, victory, bomb_pos,
    \* local to each process
    pc,               \* where it is in its loop
    wake,             \* the ready flags it still has to raise
    position,         \* its boat
    record,           \* generate_bomb_position's static record
    bomb_flag         \* which ends of its boat it has seen hit

shared == <<step, ready, bomb_num, victory, bomb_pos>>
vars == <<shared, pc, wake, position, record, bomb_flag>>

Procs == {"parent", "child"}
Other(p) == IF p = "parent" THEN "child" ELSE "parent"

Steps == {"NONE", "BOAT", "BOMB", "CHECK", "OVER", "EXIT"}
Places == {"start", "spin", "clear", "act", "post", "bye", "reap", "exited"}

Init ==
    /\ step = "NONE"
    /\ ready = [p \in Procs |-> FALSE]
    /\ bomb_num = [p \in Procs |-> 0]
    /\ victory = 0
    /\ bomb_pos = NoCell
    /\ pc = [p \in Procs |-> "start"]
    /\ wake = [p \in Procs |-> <<>>]
    /\ position = [p \in Procs |-> <<NoCell, NoCell>>]
    /\ record = [p \in Procs |-> {}]
    /\ bomb_flag = [p \in Procs |-> {}]

-------------------------------------------------------------------------------
(* Before its loop each process writes step; the parent raises its own flag. *)
Start(p) ==
    /\ pc[p] = "start"
    /\ step' = "BOAT"
    /\ IF p = "parent"
       THEN /\ pc' = [pc EXCEPT ![p] = "post"]
            /\ wake' = [wake EXCEPT ![p] = <<"parent">>]
       ELSE /\ pc' = [pc EXCEPT ![p] = "spin"]
            /\ UNCHANGED wake
    /\ UNCHANGED <<ready, bomb_num, victory, bomb_pos, position, record, bomb_flag>>

(* The spin loop reads a raised flag. *)
Spin(p) ==
    /\ pc[p] = "spin" /\ ready[p]
    /\ pc' = [pc EXCEPT ![p] = "clear"]
    /\ UNCHANGED <<shared, wake, position, record, bomb_flag>>

BugKeepReady(p) ==
    /\ pc[p] = "clear"
    /\ pc' = [pc EXCEPT ![p] = "act"]
    /\ UNCHANGED <<shared, wake, position, record, bomb_flag>>

Clear(p) ==
    /\ pc[p] = "clear"
    /\ ready' = [ready EXCEPT ![p] = FALSE]
    /\ pc' = [pc EXCEPT ![p] = "act"]
    /\ UNCHANGED <<step, bomb_num, victory, bomb_pos, wake, position, record, bomb_flag>>

(* An operation ends with the next step and the flags to raise, in order.    *)
Hand(p, next, flags) ==
    /\ step' = next
    /\ pc' = [pc EXCEPT ![p] = "post"]
    /\ wake' = [wake EXCEPT ![p] = flags]
    /\ UNCHANGED ready

BugBoatShifted(p) ==
    /\ pc[p] = "act" /\ step = "BOAT"
    /\ \E b \in Boats : position' = [position EXCEPT ![p] = <<b[1] + 1, b[2] + 1>>]
    /\ Hand(p, IF p = "parent" THEN "BOAT" ELSE "BOMB", <<Other(p)>>)
    /\ UNCHANGED <<bomb_num, victory, bomb_pos, record, bomb_flag>>

GenerateBoat(p) ==
    /\ pc[p] = "act" /\ step = "BOAT"
    /\ \E b \in Boats : position' = [position EXCEPT ![p] = b]
    /\ Hand(p, IF p = "parent" THEN "BOAT" ELSE "BOMB", <<Other(p)>>)
    /\ UNCHANGED <<bomb_num, victory, bomb_pos, record, bomb_flag>>

(* Only the parent copies its bomb to the shared record.                     *)
Publish(p, c) == bomb_pos' = IF p = "parent" THEN c ELSE bomb_pos

(* The loop of generate_bomb_position ends when a free cell comes up; with   *)
(* no free cell left it spins for ever (no step).                            *)
GenerateBomb(p) ==
    /\ pc[p] = "act" /\ step = "BOMB"
    /\ \E c \in Cells \ record[p] :
         /\ record' = [record EXCEPT ![p] = @ \cup {c}]
         /\ Publish(p, c)
    /\ bomb_num' = [bomb_num EXCEPT ![p] = @ + 1]
    /\ Hand(p, "CHECK", <<Other(p)>>)
    /\ UNCHANGED <<victory, position, bomb_flag>>

BugFirstEndTwice(p) ==
    bomb_flag[p] \cup {1 : i \in {i \in 1..2 : bomb_pos = position[p][i]}}

(* bomb_flag after the comparison with both ends of the boat. *)
Hits(p) == bomb_flag[p] \cup {i \in 1..2 : bomb_pos = position[p][i]}

AllHit(p) == Hits(p) = {1, 2}

BugMissWakes(p) == Other(p)

(* After a miss the process that checked throws the next bomb itself. *)
MissWakes(p) == p

CheckBomb(p) ==
    /\ pc[p] = "act" /\ step = "CHECK"
    /\ bomb_flag' = [bomb_flag EXCEPT ![p] = Hits(p)]
    /\ IF AllHit(p)
       THEN /\ Hand(p, "OVER", <<"parent">>)
            /\ victory' = IF p = "parent" THEN 2 ELSE 1
       ELSE /\ Hand(p, "BOMB", <<MissWakes(p)>>)
            /\ UNCHANGED victory
    /\ UNCHANGED <<bomb_num, bomb_pos, position, record>>

BugExitWakes == <<"parent">>

(* The flags the parent raises when it announces the winner. *)
ExitWakes == IF victory = 2 THEN <<"parent", "child">> ELSE <<"child">>

GameOver ==
    /\ pc["parent"] = "act" /\ step = "OVER"
    /\ victory \in {1, 2}
    /\ Hand("parent", "EXIT", ExitWakes)
    /\ UNCHANGED <<bomb_num, victory, bomb_pos, position, record, bomb_flag>>

(* Raise the flags one by one, then spin again. *)
Post(p) ==
    /\ pc[p] = "post"
    /\ ready' = [ready EXCEPT ![Head(wake[p])] = TRUE]
    /\ wake' = [wake EXCEPT ![p] = Tail(wake[p])]
    /\ pc' = [pc EXCEPT ![p] = IF Len(wake[p]) = 1 THEN "spin" ELSE "post"]
    /\ UNCHANGED <<step, bomb_num, victory, bomb_pos, position, record, bomb_flag>>

GameExit(p) ==
    /\ pc[p] = "act" /\ step = "EXIT"
    /\ pc' = [pc EXCEPT ![p] = IF p = "parent" THEN "reap" ELSE "bye"]
    /\ UNCHANGED <<shared, wake, position, record, bomb_flag>>

(* The child raises the parent's flag once more, detaches and exits. *)
ChildBye ==
    /\ pc["child"] = "bye"
    /\ ready' = [ready EXCEPT !["parent"] = TRUE]
    /\ pc' = [pc EXCEPT !["child"] = "exited"]
    /\ UNCHANGED <<step, bomb_num, victory, bomb_pos, wake, position, record, bomb_flag>>

(* wait(NULL), then the segment is removed. *)
ParentReap ==
    /\ pc["parent"] = "reap" /\ pc["child"] = "exited"
    /\ pc' = [pc EXCEPT !["parent"] = "exited"]
    /\ UNCHANGED <<shared, wake, position, record, bomb_flag>>

-------------------------------------------------------------------------------
Operate(p) == GenerateBoat(p) \/ GenerateBomb(p) \/ CheckBomb(p)

ProcNext(p) ==
    \/ Start(p) \/ Spin(p) \/ Clear(p) \/ Operate(p) \/ Post(p) \/ GameExit(p)

Next ==
    \/ \E p \in Procs : ProcNext(p)
    \/ GameOver
    \/ ChildBye
    \/ ParentReap

Spec == Init /\ [][Next]_vars

(* Both processes keep running; the operating system schedules each again.   *)
FairSpec ==
    /\ Spec
    /\ \A p \in Procs : WF_vars(ProcNext(p))
    /\ WF_vars(GameOver) /\ WF_vars(ChildBye) /\ WF_vars(ParentReap)

-------------------------------------------------------------------------------
(* Types of the shared record and of the two processes' own state.           *)
TypeOK ==
    /\ step \in Steps
    /\ ready \in [Procs -> BOOLEAN]
    /\ bomb_num \in [Procs -> Nat]
    /\ victory \in 0..2
    /\ bomb_pos \in Cells \cup {NoCell}
    /\ pc \in [Procs -> Places]
    /\ wake \in [Procs -> Seq(Procs)]
    /\ position \in [Procs -> Boats \cup {<<NoCell, NoCell>>}]
    /\ record \in [Procs -> SUBSET Cells]
    /\ bomb_flag \in [Procs -> SUBSET (1..2)]

(* A process holds the baton while its flag is up or it is inside its loop.  *)
Active(p) == ready[p] \/ pc[p] \in {"clear", "act", "post"}

(* Until the game is over the baton is held once: the two processes never    *)
(* execute operations on the shared record at the same time, and the child's *)
(* late write of step before its loop changes nothing.                       *)
OneBaton ==
    /\ step # "EXIT" => ~(Active("parent") /\ Active("child"))
    /\ pc["child"] = "start" => step \in {"NONE", "BOAT"}

(* The players bomb in turn, and the parent first.                           *)
InTurn ==
    bomb_num["parent"] - bomb_num["child"] \in {0, 1}

(* generate_bomb_position is only called while a cell is free, so that its   *)
(* rejection loop can end: the game is over before either player has thrown  *)
(* a bomb on every cell.                                                     *)
BombLeft ==
    \A p \in Procs : pc[p] = "act" /\ step = "BOMB" => Cells \ record[p] # {}

(* victory 1: the parent wins.  Its bombs did hit both ends of the child's   *)
(* boat.                                                                     *)
ParentWinIsReal ==
    victory = 1 => /\ position["child"] \in Boats
                   /\ {position["child"][1], position["child"][2]} \subseteq record["parent"]

Phase ==
    CASE step \in {"NONE", "BOAT"} -> "place"
      [] step = "BOMB" -> "throw"
      [] step = "CHECK" -> "judge"
      [] step \in {"OVER", "EXIT"} -> "over"

(* Two processes, two flags and two scores implement one game: the players  *)
(* place their boats once and bomb in turn, each bomb is judged before the   *)
(* next, and the parent is declared the winner by the bomb that completes    *)
(* its hits, neither before nor later.                                       *)
Play == INSTANCE BombGame WITH
          NoBoat <- <<NoCell, NoCell>>, First <- "parent", Second <- "child",
          phase <- Phase, boat <- position, bombs <- record, winner <- victory

GameSpec == Play!Spec

(* Whether process p can go on, spelled out: a raised flag, a free cell, an  *)
(* operation that is its own, a child to reap.                               *)
CanMove(p) ==
    \/ pc[p] \in {"start", "clear", "post", "bye"}
    \/ pc[p] = "spin" /\ ready[p]
    \/ pc[p] = "act" /\ step \in {"BOAT", "CHECK", "EXIT"}
    \/ pc[p] = "act" /\ step = "BOMB" /\ Cells \ record[p] # {}
    \/ pc[p] = "act" /\ step = "OVER" /\ p = "parent" /\ victory \in {1, 2}
    \/ pc[p] = "reap" /\ pc["child"] = "exited"

NeverStuck == (\A p \in Procs : pc[p] = "exited") \/ \E p \in Procs : CanMove(p)

(* A bound on the steps the game can still take: five for each operation     *)
(* still to come (a boat, a bomb and its check on each free cell, the end)   *)
(* and those that each process has left of its present round.                *)
Unplaced == {p \in Procs : position[p] = <<NoCell, NoCell>>}

BombsLeft == Cardinality(Cells \ record["parent"]) + Cardinality(Cells \ record["child"])

StepLeft ==
    CASE step \in {"NONE", "BOAT", "BOMB"} -> 2
      [] step = "CHECK" -> 3
      [] step = "OVER" -> 1
      [] step = "EXIT" -> 0

OperationsLeft == Cardinality(Unplaced) + 2 * BombsLeft + StepLeft

RoundLeft(p) ==
    CASE pc[p] = "start" -> 6
      [] pc[p] = "post" -> 4 + Len(wake[p])
      [] pc[p] = "spin" -> 4
      [] pc[p] = "clear" -> 3
      [] pc[p] = "act" -> 2
      [] pc[p] \in {"bye", "reap"} -> 1
      [] pc[p] = "exited" -> 0

StepsLeft == 5 * OperationsLeft + RoundLeft("parent") + RoundLeft("child")

(* The game is short: until both processes have exited one of them can go    *)
(* on, and every step leaves fewer steps to take.  A lost flag, a step that  *)
(* the wrong process must execute, or a board without a free cell would stop *)
(* it; a boat or a bomb placed twice would prolong it.                       *)
GameIsShort ==
    /\ [](NeverStuck /\ StepsLeft \in Nat)
    /\ [][StepsLeft' < StepsLeft]_vars

(* Every game ends, and both processes exit.                                 *)
GameEnds == <>(\A p \in Procs : pc[p] = "exited")
===============================================================================
