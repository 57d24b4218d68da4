------------------------------ MODULE BoundaryTag ------------------------------
(***************************************************************************)
(* The boundary-tag allocator of data_struct/dynamic_mem_manage.c: an      *)
(* arena of words cut into blocks.  The first word of a block is its head, *)
(* the last one its foot; both hold a tag, so that a released block finds  *)
(* out whether its neighbours are free and merges with them.  The free     *)
(* blocks form a circular list, which *pav enters anywhere.                *)
(*                                                                         *)
(* A pointer is the number of a word and NULL is 0.  Word 1 and the last   *)
(* word are the fences that SpaceInit tags as occupied.  A holder may      *)
(* write between the head and the foot of its block; of what it writes,    *)
(* the model keeps the field that is later read as a tag.                  *)
(*                                                                         *)
(* Some releases leave the list head or the blocks in disorder (see Merge).*)
(* The calls that follow do what the code then does, with the words as     *)
(* they are, until one of them touches a word outside the arena.           *)
(***************************************************************************)
EXTENDS Integers, FiniteSets

CONSTANTS
    MAX_MEMORY_SIZE,      \* words of the arena; the code's is 10000
    MIN_MEMORY_MARGIN,    \* a rest up to this size is not split off; 5
    Requests,             \* the sizes that callers ask for
    Data,                 \* what holders write where a tag will be read
    MaxStray              \* bound: calls made on a broken arena

TRUNCK_FREE == 0
TRUNCK_OCCUPY == 1
STALE == 2                \* a tag that is neither
Tags == {TRUNCK_FREE, TRUNCK_OCCUPY, STALE}

(* A head and a foot are different words: a block of one word would keep its *)
(* uplink and its llink in one place, the union of WORD.                     *)
ASSUME SizesAssumption ==
    /\ MAX_MEMORY_SIZE \in Nat /\ MAX_MEMORY_SIZE >= 2
    /\ MIN_MEMORY_MARGIN \in Nat \ {0}
    /\ Requests \subseteq Nat \ {0, 1}
    /\ Data \subseteq Tags
    /\ MaxStray \in Nat

VARIABLES
    \* the fields of the words; llink and uplink share one place
    link, tag, size, rlink,
    \* the caller's list head
    pav,
    \* n and p of AllocBoundTag; n is 0 when it is not running
    want, cursor,
    \* history: where blocks begin; how many callers hold the block they were
    \* given at a word, and what the last of them asked for (0 when nobody
    \* holds it); blocks that the search has passed; "sound", "broken" or
    \* "undefined"; calls on a broken arena still to come
    heads, holders, asked, seen, arena, strays

fields == <<link, tag, size, rlink>>
search == <<want, cursor, seen>>
callers == <<holders, asked>>
condition == <<arena, strays>>
vars == <<fields, pav, heads, callers, search, condition>>

NULL == 0
First == 2
Fence == MAX_MEMORY_SIZE + First
Words == 1..Fence

(* The foot of a block that begins at p and has n words. *)
FootLoc(p, n) == p + n - 1

Held == {p \in Words : holders[p] > 0}
Free == heads \ Held

(* calloc clears the arena. *)
Init ==
    LET foot == FootLoc(First, MAX_MEMORY_SIZE)
    IN  /\ tag = [w \in Words |-> IF w \in {1, Fence} THEN TRUNCK_OCCUPY ELSE TRUNCK_FREE]
        /\ link = [w \in Words |-> IF w \in {First, foot} THEN First ELSE NULL]
        /\ rlink = [w \in Words |-> IF w = First THEN First ELSE NULL]
        /\ size = [w \in Words |-> IF w = First THEN MAX_MEMORY_SIZE ELSE 0]
        /\ pav = First
        /\ heads = {First}
        /\ holders = [w \in Words |-> 0] /\ asked = [w \in Words |-> 0]
        /\ want = 0 /\ cursor = NULL /\ seen = {}
        /\ arena = "sound" /\ strays = MaxStray

(* A call begins.  On a broken arena the number of calls is bounded.         *)
Call ==
    /\ want = 0 /\ arena # "undefined"
    /\ arena = "broken" => strays > 0
    /\ strays' = IF arena = "broken" THEN strays - 1 ELSE strays

(* The call dereferences NULL or leaves the arena: no call follows.          *)
Undefined ==
    /\ arena' = "undefined"
    /\ UNCHANGED <<fields, pav, heads>>

-------------------------------------------------------------------------------
(* AllocBoundTag.  Operators whose names start with Bug are variants with a  *)
(* plausible mistake of the operator that follows; the specification does    *)
(* not use them.                                                             *)

BugEmpty == FALSE

(* An empty list is refused at once, without effect. *)
Empty == pav = NULL

AllocCall(n) ==
    /\ Call /\ ~Empty
    /\ want' = n
    /\ cursor' = pav
    /\ seen' = {}
    /\ UNCHANGED <<fields, pav, heads, callers, arena>>

BugFits == size[cursor] + 1 >= want

Fits == size[cursor] >= want

BugLast == rlink[rlink[cursor]] = pav

(* The next block is the one at which the search began. *)
Last == rlink[cursor] = pav

Searching == want # 0 /\ arena # "undefined"

(* At a NULL link the loop ends, and SpacePrintWord dereferences it. *)
AllocSearch ==
    /\ Searching /\ ~Fits /\ ~Last
    /\ IF rlink[cursor] = NULL
       THEN Undefined /\ UNCHANGED search
       ELSE /\ cursor' = rlink[cursor]
            /\ seen' = seen \cup {cursor}
            /\ UNCHANGED <<fields, pav, heads, want, arena>>
    /\ UNCHANGED <<callers, strays>>

Returns == want' = 0 /\ cursor' = NULL /\ seen' = {}

AllocRefused ==
    /\ Searching /\ ~Fits /\ Last
    /\ Returns
    /\ UNCHANGED <<fields, pav, heads, callers, condition>>

(* A caller gets p. *)
Grant(p) ==
    /\ holders' = [holders EXCEPT ![p] = @ + 1]
    /\ asked' = [asked EXCEPT ![p] = want]
    /\ Returns

(* What is left of the block when the words asked for are split off.         *)
Rest == size[cursor] - want

Splits == size[cursor] - want > MIN_MEMORY_MARGIN

(* The rest is too small to be a block: p leaves the list with all its words.*)
AllocWhole ==
    LET p == cursor
        next == rlink[p]
        foot == FootLoc(p, size[p])
    IN  /\ Searching /\ Fits /\ ~Splits
        /\ IF foot \notin Words \/ (next # p /\ NULL \in {next, link[p]})
           THEN Undefined /\ UNCHANGED <<callers, search>>
           ELSE /\ pav' = IF next = p THEN NULL ELSE next
                /\ link' = IF next = p THEN link ELSE [link EXCEPT ![next] = link[p]]
                /\ rlink' = IF next = p THEN rlink ELSE [rlink EXCEPT ![link[p]] = next]
                /\ tag' = [tag EXCEPT ![p] = TRUNCK_OCCUPY, ![foot] = TRUNCK_OCCUPY]
                /\ Grant(p)
                /\ UNCHANGED <<size, heads, arena>>
        /\ UNCHANGED strays

(* The caller gets the last words of the block.  The tag of the new foot of  *)
(* what remains is not assigned: it is what the word held.                   *)
AllocSplit ==
    LET p == cursor
        q == p + Rest
        foot == FootLoc(q, want)
    IN  /\ Searching /\ Fits /\ Splits
        /\ IF foot \notin Words
           THEN Undefined /\ UNCHANGED <<callers, search>>
           ELSE /\ pav' = rlink[p]
                /\ size' = [size EXCEPT ![p] = Rest, ![q] = want]
                /\ tag' = [tag EXCEPT ![foot] = TRUNCK_OCCUPY, ![p] = TRUNCK_FREE,
                                      ![q] = TRUNCK_OCCUPY]
                /\ link' = [link EXCEPT ![FootLoc(p, Rest)] = p]
                /\ heads' = heads \cup {q}
                /\ Grant(q)
                /\ UNCHANGED <<rlink, arena>>
        /\ UNCHANGED strays

-------------------------------------------------------------------------------
(* ReclaimBoundTag: the test for a double release and one action for each of *)
(* the four cases.  Assignments are made in the code's order, because on a   *)
(* broken arena the words they name may be the same.                         *)

(* One of the callers that were given p passes it to ReclaimBoundTag.        *)
Release(p) ==
    /\ Call /\ p \in Held
    /\ holders' = [holders EXCEPT ![p] = @ - 1]
    /\ asked' = IF holders[p] = 1 THEN [asked EXCEPT ![p] = 0] ELSE asked
    /\ UNCHANGED search

(* Nothing happens to a block whose tag says that it is free.  The second    *)
(* release of a block ends here, like the one in dynamic_mem_manage_main,    *)
(* if no merge has made the block part of another one.                       *)
ReclaimIgnored(p) ==
    /\ Call /\ p \in heads \cup Held
    /\ tag[p] = TRUNCK_FREE
    /\ holders' = [holders EXCEPT ![p] = IF @ = 0 THEN 0 ELSE @ - 1]
    /\ asked' = IF holders[p] = 1 THEN [asked EXCEPT ![p] = 0] ELSE asked
    /\ UNCHANGED <<search, fields, pav, heads, arena>>

(* A block that is not free is released.                                     *)
Reclaim(p) == Release(p) /\ tag[p] # TRUNCK_FREE

(* The words before and behind the block.  *)
Neighbours(p) == {p - 1, p + size[p]}

LeftIs(p, t) == p - 1 \in Words /\ tag[p - 1] = t

RightIs(p, t) == p + size[p] \in Words /\ tag[p + size[p]] = t

(* The blocks of gone become part of another one.  The arena is broken when  *)
(* *pav still points to one of them, or when one of them, but for p itself,  *)
(* is not a free block.                                                      *)
Merge(p, gone) ==
    /\ heads' = heads \ gone
    /\ arena' = IF pav \in gone \/ ~(gone \ {p} \subseteq Free) THEN "broken" ELSE arena

(* With an empty list the code assigns its parameter, not the caller's head: *)
(* p is linked to itself and *pav stays NULL.                                *)
ReclaimAlone(p) ==
    LET foot == FootLoc(p, size[p])
        up == [link EXCEPT ![foot] = p]
        before == [up EXCEPT ![p] = up[pav]]
        after == [rlink EXCEPT ![p] = pav]
    IN  /\ Reclaim(p) /\ LeftIs(p, TRUNCK_OCCUPY) /\ RightIs(p, TRUNCK_OCCUPY)
        /\ IF pav # NULL /\ before[pav] = NULL
           THEN Undefined
           ELSE /\ tag' = [tag EXCEPT ![p] = TRUNCK_FREE, ![foot] = TRUNCK_FREE]
                /\ IF pav = NULL
                   THEN /\ link' = [up EXCEPT ![p] = p]
                        /\ rlink' = [rlink EXCEPT ![p] = p]
                        /\ pav' = pav
                   ELSE /\ link' = [before EXCEPT ![pav] = p]
                        /\ rlink' = [after EXCEPT ![before[pav]] = p]
                        /\ pav' = p
                /\ UNCHANGED <<size, heads, arena>>

BugMergedSize(p) == size[p] + size[p + size[p]] - 1

(* The words of p and of its right neighbour. *)
MergedSize(p) == size[p] + size[p + size[p]]

(* p takes the place of its right neighbour q in the list. *)
ReclaimRight(p) ==
    LET q == p + size[p]
        foot == FootLoc(p, MergedSize(p))
        after == [rlink EXCEPT ![link[q]] = p]
        before == [link EXCEPT ![p] = link[q]]
    IN  /\ Reclaim(p) /\ LeftIs(p, TRUNCK_OCCUPY) /\ RightIs(p, TRUNCK_FREE)
        /\ IF link[q] = NULL \/ ~({after[q], foot} \subseteq Words)
           THEN Undefined
           ELSE /\ rlink' = [after EXCEPT ![p] = after[q]]
                /\ link' = [before EXCEPT ![after[q]] = p, ![foot] = p]
                /\ size' = [size EXCEPT ![p] = MergedSize(p)]
                /\ tag' = [tag EXCEPT ![p] = TRUNCK_FREE, ![foot] = TRUNCK_FREE]
                /\ Merge(p, {q})
                /\ UNCHANGED pav

(* The left neighbour grows; p's old head keeps its tag. *)
ReclaimLeft(p) ==
    LET q == link[p - 1]
        foot == FootLoc(q, size[q] + size[p])
    IN  /\ Reclaim(p) /\ LeftIs(p, TRUNCK_FREE) /\ RightIs(p, TRUNCK_OCCUPY)
        /\ IF q = NULL \/ foot \notin Words
           THEN Undefined
           ELSE /\ size' = [size EXCEPT ![q] = @ + size[p]]
                /\ tag' = [tag EXCEPT ![foot] = TRUNCK_FREE]
                /\ link' = [link EXCEPT ![foot] = q]
                /\ Merge(p, {p})
                /\ UNCHANGED <<rlink, pav>>

BugUnlinkRight(q) == rlink

(* rlink when q has left the list. *)
UnlinkRight(q) == [rlink EXCEPT ![link[q]] = rlink[q]]

(* Whatever the tags are, if none of the cases above applies, the right      *)
(* neighbour leaves the list and the left one takes all.  (A tag read        *)
(* outside the arena is counted here: the outcome is undefined.)             *)
ReclaimBoth(p) ==
    LET r == p + size[p]
        before == [link EXCEPT ![rlink[r]] = link[r]]
        q == before[p - 1]
        grown == [size EXCEPT ![q] = @ + size[p]]
        both == [grown EXCEPT ![q] = @ + grown[p + grown[p]]]
        foot == FootLoc(q, both[q])
    IN  /\ Reclaim(p)
        /\ ~(LeftIs(p, TRUNCK_OCCUPY) /\ (RightIs(p, TRUNCK_OCCUPY) \/ RightIs(p, TRUNCK_FREE)))
        /\ ~(LeftIs(p, TRUNCK_FREE) /\ RightIs(p, TRUNCK_OCCUPY))
        /\ IF \/ ~(Neighbours(p) \subseteq Words)
              \/ NULL \in {link[r], rlink[r]} \/ q = NULL
              \/ p + grown[p] \notin Words \/ foot \notin Words
           THEN Undefined
           ELSE /\ rlink' = UnlinkRight(r)
                /\ link' = [before EXCEPT ![foot] = q]
                /\ size' = both
                /\ tag' = [tag EXCEPT ![foot] = TRUNCK_FREE, ![q] = TRUNCK_FREE]
                /\ Merge(p, {p, r})
                /\ UNCHANGED pav

-------------------------------------------------------------------------------
(* What a holder does with its block: it leaves data where a tag will be     *)
(* read when the block is part of another one.                               *)
HolderWrites(p, w, d) ==
    /\ want = 0 /\ arena # "undefined"
    /\ p \in Held
    /\ w \in (p + 1)..(p + asked[p] - 1) /\ w # FootLoc(p, size[p])
    /\ tag' = [tag EXCEPT ![w] = d]
    /\ UNCHANGED <<link, size, rlink, pav, heads, callers, search, condition>>

Next ==
    \/ \E n \in Requests : AllocCall(n)
    \/ AllocSearch \/ AllocRefused \/ AllocWhole \/ AllocSplit
    \/ \E p \in Words :
         \/ ReclaimIgnored(p)
         \/ ReclaimAlone(p) \/ ReclaimRight(p) \/ ReclaimLeft(p) \/ ReclaimBoth(p)
         \/ \E w \in Words, d \in Data : HolderWrites(p, w, d)

Spec == Init /\ [][Next]_vars

-------------------------------------------------------------------------------
(* Correctness.  Except for the types, the properties speak of the arena     *)
(* until it is broken, which OneHolder does not.                             *)

Sound == arena = "sound"

(* Types. *)
TypeOK ==
    /\ link \in [Words -> {NULL} \cup Words]
    /\ rlink \in [Words -> {NULL} \cup Words]
    /\ tag \in [Words -> Tags]
    /\ size \in [Words -> 0..Fence]
    /\ pav \in {NULL} \cup Words
    /\ heads \subseteq Words
    /\ holders \in [Words -> Nat]
    /\ asked \in [Words -> {0} \cup Requests]
    /\ want \in {0} \cup Requests
    /\ cursor \in IF want = 0 THEN {NULL} ELSE Words
    /\ seen \subseteq Words
    /\ arena \in {"sound", "broken", "undefined"}
    /\ strays \in 0..MaxStray

(* The blocks lie one behind the other from fence to fence, the tags of a    *)
(* block's head and of a held block's foot say whether it is held, and the   *)
(* foot of a free block leads to its head.                                   *)
Tiled ==
    /\ First \in heads /\ heads \subseteq First..(Fence - 1) /\ Held \subseteq heads
    /\ \A p \in heads :
         /\ size[p] >= 2
         /\ p + size[p] \in heads \cup {Fence}
         /\ \A q \in heads : q <= p \/ p + size[p] <= q
         /\ tag[p] = IF p \in Held THEN TRUNCK_OCCUPY ELSE TRUNCK_FREE
         /\ IF p \in Held THEN tag[FootLoc(p, size[p])] = TRUNCK_OCCUPY
                          ELSE link[FootLoc(p, size[p])] = p
    /\ tag[1] = TRUNCK_OCCUPY /\ tag[Fence] = TRUNCK_OCCUPY

(* Splits, merges and what holders write keep the arena cut into blocks      *)
(* whose tags can be trusted, as long as no release has merged the block     *)
(* *pav points to, or a held one because of data taken for a tag.            *)
Tiling == Sound => Tiled

(* Until then a holder keeps the words it asked for, as the only one, until  *)
(* it releases them, and gets at most the margin in excess.                  *)
HoldersKeepWords ==
    Sound => \A p \in Held : /\ holders[p] = 1
                            /\ size[p] - asked[p] \in 0..MIN_MEMORY_MARGIN

(* Until then the two links of the free blocks are inverse to each other,    *)
(* through every insertion and removal, also when the removed block is its   *)
(* own neighbour.  *pav points to one of them, or is NULL: then the arena    *)
(* was once handed out completely, and every block released since is leaked, *)
(* linked to nothing but itself (line 95).                                   *)
FreeListLinked ==
    Sound =>
      /\ \A p \in Free : /\ rlink[p] \in Free /\ link[rlink[p]] = p
                         /\ link[p] \in Free /\ rlink[link[p]] = p
      /\ pav \in Free \/ pav = NULL
      /\ pav = NULL => \A p \in Free : rlink[p] = p

(* Until then a search passes no block twice, so it ends, and it is at its   *)
(* last block only when it has met every free one: while *pav is not NULL    *)
(* nothing is leaked, and a search fails only if no free block is big enough.*)
SearchMeetsAll ==
    Sound /\ want # 0 =>
      /\ cursor \in Free \ seen
      /\ \A p \in seen : size[p] < want
      /\ Last => Free = seen \cup {cursor}

(* What holders see of the arena is what an allocator may do until a release *)
(* breaks it: the words that a request is granted belong to nobody, and a    *)
(* release gives back the words of one holder only.                          *)
Blocks == INSTANCE Allocator WITH
            Arena <- First..(Fence - 1), Sizes <- Requests,
            held <- [w \in First..(Fence - 1) |-> asked[w]], intact <- Sound

AllocatorSpec == Blocks!Spec

(* The tag says of a block whether it is free or occupied                    *)
(* (dynamic_mem_manage.h:27), so the words of an occupied block are its      *)
(* holder's alone.                                                           *)
OneHolder ==
    \A p, q \in Held :
        /\ holders[p] = 1
        /\ p # q => Blocks!Extent(p, asked[p]) \cap Blocks!Extent(q, asked[q]) = {}
===============================================================================
