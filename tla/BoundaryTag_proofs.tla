--------------------------- MODULE BoundaryTag_proofs ---------------------------
(* Proofs about BoundaryTag, for every size of the arena, margin and set of   *)
(* requests.                                                                  *)
EXTENDS BoundaryTag, Extrema

-------------------------------------------------------------------------------
(* Circular lists: a set F of nodes, their successors rl, predecessors ll.   *)

Linked(F, rl, ll) ==
    \A p \in F : rl[p] \in F /\ ll[rl[p]] = p /\ ll[p] \in F /\ rl[ll[p]] = p

(* No part of the list is closed under successors: it is one cycle. *)
OneCycle(F, rl) ==
    \A S \in SUBSET F : S # {} /\ (\A p \in S : rl[p] \in S) => S = F

(* A node leaves a list.  In AllocBoundTag and in the last case of           *)
(* ReclaimBoundTag.                                                          *)
LEMMA Removed ==
    ASSUME NEW F, NEW rl, NEW ll, NEW rl2, NEW ll2, NEW p \in F,
           Linked(F, rl, ll),
           \A x \in F \ {p} : rl2[x] = IF x = ll[p] THEN rl[p] ELSE rl[x],
           \A x \in F \ {p} : ll2[x] = IF x = rl[p] THEN ll[p] ELSE ll[x]
    PROVE  /\ Linked(F \ {p}, rl2, ll2)
           /\ OneCycle(F, rl) => OneCycle(F \ {p}, rl2)
<1>1. Linked(F \ {p}, rl2, ll2)
  BY DEF Linked
<1>2. ASSUME OneCycle(F, rl) PROVE OneCycle(F \ {p}, rl2)
  <2>1. SUFFICES ASSUME NEW S \in SUBSET (F \ {p}), S # {}, \A x \in S : rl2[x] \in S
                 PROVE  S = F \ {p}
    BY DEF OneCycle
  <2>2. CASE ll[p] \in S
    <3>1. \A x \in S : rl[x] \in S \cup {p}
      BY <2>1, <2>2 DEF Linked
    <3>3. rl[p] \in S
      BY <2>1, <2>2
    <3>4. S \cup {p} \in SUBSET F /\ S \cup {p} # {}
      BY <2>1
    <3>2. S \cup {p} = F
      BY <3>1, <3>3, <3>4, <1>2 DEF OneCycle
    <3> QED
      BY <3>2, <2>1
  <2>3. CASE ll[p] \notin S
    <3>1. \A x \in S : rl[x] \in S
      BY <2>1, <2>3
    <3>2. S = F
      BY <3>1, <2>1, <1>2 DEF OneCycle
    <3> QED
      BY <3>2, <2>1
  <2> QED
    BY <2>2, <2>3
<1> QED
  BY <1>1, <1>2

(* A node becomes the predecessor of another one.  In the first case of      *)
(* ReclaimBoundTag.                                                          *)
LEMMA Inserted ==
    ASSUME NEW F, NEW rl, NEW ll, NEW rl2, NEW ll2, NEW h \in F, NEW p, p \notin F,
           Linked(F, rl, ll),
           rl2[p] = h, ll2[p] = ll[h],
           \A x \in F : rl2[x] = IF x = ll[h] THEN p ELSE rl[x],
           \A x \in F : ll2[x] = IF x = h THEN p ELSE ll[x]
    PROVE  /\ Linked(F \cup {p}, rl2, ll2)
           /\ OneCycle(F, rl) => OneCycle(F \cup {p}, rl2)
<1>1. Linked(F \cup {p}, rl2, ll2)
  BY DEF Linked
<1>2. ASSUME OneCycle(F, rl) PROVE OneCycle(F \cup {p}, rl2)
  <2>1. SUFFICES ASSUME NEW S \in SUBSET (F \cup {p}), S # {}, \A x \in S : rl2[x] \in S
                 PROVE  S = F \cup {p}
    BY DEF OneCycle
  <2> DEFINE R == S \ {p}
  <2>2. R # {} /\ R \in SUBSET F
    BY <2>1
  <2>3. \A x \in R : rl[x] \in R
    BY <2>1 DEF Linked
  <2>4. R = F
    BY <2>2, <2>3, <1>2 DEF OneCycle
  <2>5. ll[h] \in S
    BY <2>4 DEF Linked
  <2>6. p \in S
    BY <2>5, <2>1, <2>4
  <2> QED
    BY <2>4, <2>6, <2>1
<1> QED
  BY <1>1, <1>2

(* A node takes the place of another one.  In the second case of             *)
(* ReclaimBoundTag.                                                          *)
LEMMA Replaced ==
    ASSUME NEW F, NEW rl, NEW ll, NEW rl2, NEW ll2, NEW q \in F, NEW p, p \notin F,
           Linked(F, rl, ll),
           rl2[p] = IF rl[q] = q THEN p ELSE rl[q],
           ll2[p] = IF ll[q] = q THEN p ELSE ll[q],
           \A x \in F \ {q} : rl2[x] = IF x = ll[q] THEN p ELSE rl[x],
           \A x \in F \ {q} : ll2[x] = IF x = rl[q] THEN p ELSE ll[x]
    PROVE  /\ Linked((F \ {q}) \cup {p}, rl2, ll2)
           /\ OneCycle(F, rl) => OneCycle((F \ {q}) \cup {p}, rl2)
<1>1. Linked((F \ {q}) \cup {p}, rl2, ll2)
  BY DEF Linked
<1>2. ASSUME OneCycle(F, rl) PROVE OneCycle((F \ {q}) \cup {p}, rl2)
  <2>1. SUFFICES ASSUME NEW S \in SUBSET ((F \ {q}) \cup {p}), S # {},
                        \A x \in S : rl2[x] \in S
                 PROVE  S = (F \ {q}) \cup {p}
    BY DEF OneCycle
  <2> DEFINE R == IF p \in S THEN (S \ {p}) \cup {q} ELSE S
  <2>2. R # {} /\ R \in SUBSET F
    BY <2>1
  <2>3. \A x \in R : rl[x] \in R
    BY <2>1 DEF Linked
  <2>4. R = F
    BY <2>2, <2>3, <1>2 DEF OneCycle
  <2> QED
    BY <2>4, <2>1
<1> QED
  BY <1>1, <1>2

-------------------------------------------------------------------------------
(* The inductive invariant: until the arena is broken it is in order.  The   *)
(* free blocks form one cycle as long as *pav is not NULL; a search has      *)
(* walked along a path that began at *pav; what a block was asked for says   *)
(* whether somebody holds it.                                                *)

Kept == \A p \in Held : size[p] - asked[p] \in 0..MIN_MEMORY_MARGIN

ListInv ==
    /\ Linked(Free, rlink, link)
    /\ pav \in Free \/ pav = NULL
    /\ pav = NULL => \A p \in Free : rlink[p] = p

Cycle == pav # NULL => OneCycle(Free, rlink)

Path ==
    want # 0 =>
      /\ pav \in Free /\ pav \in seen \cup {cursor}
      /\ cursor \in Free \ seen /\ seen \subseteq Free
      /\ \A p \in seen : rlink[p] \in seen \cup {cursor} /\ size[p] < want
      /\ \A p \in (seen \cup {cursor}) \ {pav} : link[p] \in seen

Single == \A w \in Words : holders[w] \in {0, 1} /\ (holders[w] = 1 <=> asked[w] # 0)

Order == Tiled /\ Kept /\ ListInv /\ Cycle /\ Path /\ Single

Inv == TypeOK /\ (Sound => Order)

LEMMA Constants ==
    /\ MAX_MEMORY_SIZE \in Nat /\ MAX_MEMORY_SIZE >= 2
    /\ MIN_MEMORY_MARGIN \in Nat /\ MIN_MEMORY_MARGIN >= 1
    /\ First = 2 /\ Fence = MAX_MEMORY_SIZE + 2 /\ Fence \in Nat /\ NULL = 0
    /\ 1 \in Words /\ Fence \in Words /\ NULL \notin Words
    /\ \A w : w \in Words <=> w \in Int /\ 1 <= w /\ w <= Fence
    /\ \A n \in Requests : n \in Int /\ n >= 2
<1>1. /\ MAX_MEMORY_SIZE \in Nat /\ MAX_MEMORY_SIZE >= 2
      /\ MIN_MEMORY_MARGIN \in Nat \ {0} /\ Requests \subseteq Nat \ {0, 1}
  BY SizesAssumption
<1>2. \A n \in Requests : n \in Int /\ n >= 2
  BY <1>1
<1> QED
  BY <1>1, <1>2 DEF First, Fence, Words, NULL

(* A block lies inside the arena, and no block begins between its head and   *)
(* its end; so feet are not heads, and different blocks have different feet. *)
LEMMA Geometry ==
    ASSUME TypeOK, Tiled, NEW p \in heads
    PROVE  /\ p \in Int /\ p \in Words /\ First <= p /\ p < Fence /\ p # 1 /\ p # Fence
           /\ size[p] \in Int /\ size[p] >= 2 /\ p + size[p] <= Fence
           /\ FootLoc(p, size[p]) = p + size[p] - 1
           /\ FootLoc(p, size[p]) \in Words /\ FootLoc(p, size[p]) \notin heads
           /\ FootLoc(p, size[p]) # Fence /\ FootLoc(p, size[p]) # 1
           /\ p + size[p] \in Words
           /\ \A q \in heads : q # p => FootLoc(q, size[q]) # FootLoc(p, size[p])
           /\ \A q \in heads : q # p => q + size[q] <= p \/ p + size[p] <= q
           /\ NULL \notin heads /\ Fence \notin heads /\ 1 \notin heads
<1> USE Constants DEF FootLoc
<1>1. \A q \in heads : /\ q \in Int /\ q \in Words /\ First <= q /\ q < Fence
                       /\ size[q] \in Int /\ size[q] >= 2
                       /\ q + size[q] \in heads \cup {Fence}
  BY DEF Tiled, TypeOK
<1>2. p + size[p] <= Fence
  BY <1>1
<1>3. \A q \in heads : q <= p \/ p + size[p] <= q
  BY DEF Tiled
<1>4. \A q \in heads : p <= q \/ q + size[q] <= p
  BY DEF Tiled
<1>5. FootLoc(p, size[p]) \notin heads
  BY <1>1, <1>3
<1>6. \A q \in heads : q # p => q + size[q] <= p \/ p + size[p] <= q
  BY <1>1, <1>3, <1>4
<1>7. \A q \in heads : q # p => FootLoc(q, size[q]) # FootLoc(p, size[p])
  BY <1>1, <1>6
<1>8. NULL \notin heads /\ Fence \notin heads /\ 1 \notin heads
  BY <1>1
<1> QED
  BY <1>1, <1>2, <1>5, <1>6, <1>7, <1>8

(* A block that is not the first has a block before it.                      *)
LEMMA LeftNeighbour ==
    ASSUME TypeOK, Tiled, NEW p \in heads, p # First
    PROVE  \E q \in heads : q + size[q] = p
<1> DEFINE below == {q \in heads : q < p}
<1>1. First \in below
  BY Geometry DEF Tiled, First
<1>2. below \in SUBSET (0..Fence) /\ Fence \in Nat
  <2>1. \A q \in heads : q \in 0..Fence
    BY Geometry, Constants
  <2> QED
    BY <2>1, Constants
<1>3. PICK q \in below : \A r \in below : r <= q
  BY <1>1, <1>2, Greatest
<1>4. q + size[q] \in heads \cup {Fence} /\ (p <= q \/ q + size[q] <= p)
  BY DEF Tiled
<1>5. q \in Int /\ p \in Int /\ q < p /\ size[q] \in Int /\ size[q] >= 2 /\ p < Fence /\ Fence \in Int
  BY Geometry, Constants
<1>6. q + size[q] <= p
  BY <1>4, <1>5
<1>7. q + size[q] \in heads
  BY <1>4, <1>5, <1>6
<1>8. ~ (q + size[q] < p)
  BY <1>3, <1>5, <1>7
<1> QED
  BY <1>5, <1>6, <1>8

(* What the tags before and behind a block say of its neighbours.  Whatever  *)
(* was left in the word before a block: if it is not the tag of a held one,  *)
(* the neighbour is free and its uplink leads to its head.                   *)
LEMMA LeftFreeBlock ==
    ASSUME TypeOK, Tiled, NEW p \in heads, tag[p - 1] # TRUNCK_OCCUPY
    PROVE  link[p - 1] \in Free /\ link[p - 1] + size[link[p - 1]] = p
<1>1. p # First
  BY DEF Tiled, First
<1>2. PICK q \in heads : q + size[q] = p
  BY <1>1, LeftNeighbour
<1>3. FootLoc(q, size[q]) = p - 1
  BY <1>2, Geometry
<1>4. q \notin Held
  BY <1>3 DEF Tiled
<1>5. link[p - 1] = q
  BY <1>3, <1>4 DEF Tiled
<1> QED
  BY <1>2, <1>4, <1>5 DEF Free

LEMMA RightFreeBlock ==
    ASSUME TypeOK, Tiled, NEW p \in heads, RightIs(p, TRUNCK_FREE)
    PROVE  p + size[p] \in Free
<1>1. p + size[p] \in heads
  BY DEF Tiled, RightIs, TRUNCK_FREE, TRUNCK_OCCUPY
<1>2. tag[p + size[p]] = TRUNCK_FREE
  BY DEF RightIs
<1>3. \A q \in heads : tag[q] = TRUNCK_FREE => q \notin Held
  BY DEF Tiled, TRUNCK_FREE, TRUNCK_OCCUPY
<1> QED
  BY <1>1, <1>2, <1>3 DEF Free

-------------------------------------------------------------------------------
LEMMA InvInit == Init => Inv
<1> SUFFICES ASSUME Init PROVE Inv
  OBVIOUS
<1> USE Constants
<1>1. /\ heads = {2} /\ pav = 2 /\ want = 0 /\ cursor = NULL /\ seen = {}
      /\ arena = "sound" /\ strays = MaxStray
      /\ holders = [w \in Words |-> 0] /\ asked = [w \in Words |-> 0]
      /\ tag = [w \in Words |-> IF w \in {1, Fence} THEN TRUNCK_OCCUPY ELSE TRUNCK_FREE]
      /\ link = [w \in Words |-> IF w \in {2, MAX_MEMORY_SIZE + 1} THEN 2 ELSE NULL]
      /\ rlink = [w \in Words |-> IF w = 2 THEN 2 ELSE NULL]
      /\ size = [w \in Words |-> IF w = 2 THEN MAX_MEMORY_SIZE ELSE 0]
  BY DEF Init, FootLoc
<1>2. 2 \in Words /\ MAX_MEMORY_SIZE + 1 \in Words
  OBVIOUS
<1>3. Held = {} /\ Free = {2}
  <2>1. \A w \in Words : holders[w] = 0
    BY <1>1
  <2> QED
    BY <2>1, <1>1 DEF Held, Free
<1>4. TypeOK
  BY <1>1, <1>2, SizesAssumption DEF TypeOK, Tags, TRUNCK_FREE, TRUNCK_OCCUPY
<1>5. Tiled
  BY <1>1, <1>2, <1>3 DEF Tiled, FootLoc, TRUNCK_FREE, TRUNCK_OCCUPY
<1>6. Kept /\ Path
  BY <1>1, <1>3 DEF Kept, Path
<1>7. Linked(Free, rlink, link) /\ rlink[2] = 2
  BY <1>1, <1>2, <1>3 DEF Linked
<1>8. ListInv
  BY <1>1, <1>3, <1>7 DEF ListInv
<1>9. Cycle
  <2>1. \A S \in SUBSET {2} : S # {} => S = {2}
    OBVIOUS
  <2>2. \A S \in SUBSET Free : S # {} => S = Free
    BY <1>3, <2>1
  <2> QED
    BY <2>2 DEF Cycle, OneCycle
<1>10. Single
  BY <1>1 DEF Single
<1> QED
  BY <1>4, <1>5, <1>6, <1>8, <1>9, <1>10 DEF Inv, Order

-------------------------------------------------------------------------------
(* Every step keeps the types, on a broken arena too: a call that would      *)
(* leave the arena or follow NULL has no other effect.                       *)
LEMMA CallType ==
    ASSUME TypeOK, Call
    PROVE  strays' \in 0..MaxStray
BY SizesAssumption DEF TypeOK, Call

LEMMA ReleaseType ==
    ASSUME TypeOK, NEW p \in Words, Release(p)
    PROVE  /\ strays' \in 0..MaxStray
           /\ holders' \in [Words -> Nat]
           /\ asked' \in [Words -> {0} \cup Requests]
           /\ want' = 0 /\ cursor' = NULL /\ seen' \subseteq Words
<1>1. strays' \in 0..MaxStray
  BY CallType DEF Release
<1>2. holders[p] > 0 /\ holders[p] \in Nat
  BY DEF Release, Held, TypeOK
<1>3. holders' \in [Words -> Nat]
  BY <1>2 DEF Release, TypeOK
<1>4. asked' \in [Words -> {0} \cup Requests]
  BY DEF Release, TypeOK
<1>5. want' = 0 /\ cursor' = NULL /\ seen' \subseteq Words
  BY DEF Release, Call, TypeOK, search
<1> QED
  BY <1>1, <1>3, <1>4, <1>5

LEMMA UndefinedType ==
    ASSUME TypeOK, Undefined,
           holders' \in [Words -> Nat], asked' \in [Words -> {0} \cup Requests],
           strays' \in 0..MaxStray,
           want' \in {0} \cup Requests,
           cursor' \in IF want' = 0 THEN {NULL} ELSE Words,
           seen' \subseteq Words
    PROVE  TypeOK'
BY DEF TypeOK, Undefined, fields

LEMMA SearchType ==
    ASSUME TypeOK,
           \/ \E n \in Requests : AllocCall(n)
           \/ AllocSearch
           \/ AllocRefused
           \/ \E p \in Words : ReclaimIgnored(p)
           \/ \E p \in Words, w \in Words, d \in Data : HolderWrites(p, w, d)
    PROVE  TypeOK'
<1>1. ASSUME NEW n \in Requests, AllocCall(n) PROVE TypeOK'
  <2>1. strays' \in 0..MaxStray
    BY <1>1, CallType DEF AllocCall
  <2>2. cursor' \in Words /\ want' = n /\ n # 0 /\ seen' = {}
    BY <1>1, Constants DEF AllocCall, Empty, TypeOK
  <2> QED
    BY <1>1, <2>1, <2>2 DEF AllocCall, TypeOK, fields, callers
<1>2. CASE AllocSearch
  <2>1. want # 0 /\ cursor \in Words /\ UNCHANGED <<callers, strays>>
    BY <1>2 DEF AllocSearch, Searching, TypeOK
  <2>2. CASE rlink[cursor] = NULL
    BY <1>2, <2>1, <2>2, UndefinedType DEF AllocSearch, TypeOK, search, callers
  <2>3. CASE rlink[cursor] # NULL
    <3>1. /\ cursor' = rlink[cursor] /\ seen' = seen \cup {cursor}
          /\ UNCHANGED <<fields, pav, heads, want, arena>>
      BY <1>2, <2>3 DEF AllocSearch
    <3>2. cursor' \in Words /\ seen' \subseteq Words
      BY <2>1, <2>3, <3>1 DEF TypeOK
    <3> QED
      BY <2>1, <3>1, <3>2 DEF TypeOK, fields, callers
  <2> QED
    BY <2>2, <2>3
<1>3. CASE AllocRefused
  BY <1>3 DEF AllocRefused, Returns, TypeOK, fields, callers, condition
<1>4. ASSUME NEW p \in Words, ReclaimIgnored(p) PROVE TypeOK'
  <2>1. strays' \in 0..MaxStray
    BY <1>4, CallType DEF ReclaimIgnored
  <2>2. holders' \in [Words -> Nat]
    BY <1>4 DEF ReclaimIgnored, TypeOK
  <2>3. asked' \in [Words -> {0} \cup Requests]
    BY <1>4 DEF ReclaimIgnored, TypeOK
  <2> QED
    BY <1>4, <2>1, <2>2, <2>3 DEF ReclaimIgnored, TypeOK, fields, search
<1>5. ASSUME NEW p \in Words, NEW w \in Words, NEW d \in Data, HolderWrites(p, w, d)
      PROVE  TypeOK'
  <2>1. tag' \in [Words -> Tags]
    BY <1>5, SizesAssumption DEF HolderWrites, TypeOK
  <2> QED
    BY <1>5, <2>1 DEF HolderWrites, TypeOK, callers, search, condition
<1> QED
  BY <1>1, <1>2, <1>3, <1>4, <1>5

LEMMA AllocType ==
    ASSUME TypeOK, AllocWhole \/ AllocSplit
    PROVE  TypeOK'
<1> USE Constants
<1>1. want \in Requests /\ cursor \in Words /\ want # 0 /\ strays' \in 0..MaxStray
      /\ size[cursor] \in 0..Fence /\ size[cursor] >= want /\ want \in Int /\ want >= 2
  BY DEF AllocWhole, AllocSplit, Searching, Fits, TypeOK
<1>2. TRUNCK_FREE \in Tags /\ TRUNCK_OCCUPY \in Tags
  BY DEF Tags
<1>3. ASSUME NEW q \in Words, Grant(q)
      PROVE  /\ holders' \in [Words -> Nat] /\ asked' \in [Words -> {0} \cup Requests]
             /\ want' = 0 /\ cursor' = NULL /\ seen' = {}
  <2>1. holders[q] + 1 \in Nat
    BY DEF TypeOK
  <2> QED
    BY <1>1, <1>3, <2>1 DEF Grant, Returns, TypeOK
<1>4. CASE AllocWhole
  <2> DEFINE p == cursor
             next == rlink[p]
             foot == FootLoc(p, size[p])
  <2>1. CASE foot \notin Words \/ (next # p /\ NULL \in {next, link[p]})
    <3>1. Undefined /\ UNCHANGED <<callers, search>>
      BY <1>4, <2>1 DEF AllocWhole
    <3> QED
      BY <1>1, <3>1, UndefinedType DEF TypeOK, callers, search
  <2>2. CASE ~(foot \notin Words \/ (next # p /\ NULL \in {next, link[p]}))
    <3>1. /\ pav' = IF next = p THEN NULL ELSE next
          /\ link' = IF next = p THEN link ELSE [link EXCEPT ![next] = link[p]]
          /\ rlink' = IF next = p THEN rlink ELSE [rlink EXCEPT ![link[p]] = next]
          /\ tag' = [tag EXCEPT ![p] = TRUNCK_OCCUPY, ![foot] = TRUNCK_OCCUPY]
          /\ Grant(p)
          /\ UNCHANGED <<size, heads, arena>>
      BY <1>4, <2>2 DEF AllocWhole
    <3>2. next \in {NULL} \cup Words /\ link[p] \in {NULL} \cup Words
      BY <1>1 DEF TypeOK
    <3> HIDE DEF p, next, foot
    <3>3. /\ link' \in [Words -> {NULL} \cup Words] /\ rlink' \in [Words -> {NULL} \cup Words]
          /\ tag' \in [Words -> Tags] /\ pav' \in {NULL} \cup Words
      BY <3>1, <3>2, <1>2 DEF TypeOK
    <3>4. p \in Words
      BY <1>1 DEF p
    <3> QED
      BY <3>1, <3>3, <3>4, <1>1, <1>3 DEF TypeOK
  <2> QED
    BY <2>1, <2>2
<1>5. CASE AllocSplit
  <2> DEFINE p == cursor
             q == p + Rest
             foot == FootLoc(q, want)
  <2>1. CASE foot \notin Words
    <3>1. Undefined /\ UNCHANGED <<callers, search>>
      BY <1>5, <2>1 DEF AllocSplit
    <3> QED
      BY <1>1, <3>1, UndefinedType DEF TypeOK, callers, search
  <2>2. CASE foot \in Words
    <3>1. /\ pav' = rlink[p]
          /\ size' = [size EXCEPT ![p] = Rest, ![q] = want]
          /\ tag' = [tag EXCEPT ![foot] = TRUNCK_OCCUPY, ![p] = TRUNCK_FREE, ![q] = TRUNCK_OCCUPY]
          /\ link' = [link EXCEPT ![FootLoc(p, Rest)] = p]
          /\ heads' = heads \cup {q}
          /\ Grant(q)
          /\ UNCHANGED <<rlink, arena>>
      BY <1>5, <2>2 DEF AllocSplit
    <3>2. Rest \in 0..Fence /\ want \in 0..Fence
      BY <1>1 DEF Rest
    <3>3. q \in Words /\ p \in Words
      BY <1>1, <2>2, <3>2 DEF FootLoc
    <3>4. rlink[p] \in {NULL} \cup Words
      BY <1>1 DEF TypeOK
    <3> HIDE DEF p, q, foot
    <3>5. /\ size' \in [Words -> 0..Fence] /\ tag' \in [Words -> Tags]
          /\ link' \in [Words -> {NULL} \cup Words] /\ pav' \in {NULL} \cup Words
          /\ heads' \subseteq Words
      BY <3>1, <3>2, <3>3, <3>4, <1>2 DEF TypeOK
    <3> QED
      BY <3>1, <3>3, <3>5, <1>1, <1>3 DEF TypeOK
  <2> QED
    BY <2>1, <2>2
<1> QED
  BY <1>4, <1>5

LEMMA ReclaimType ==
    ASSUME TypeOK, NEW p \in Words,
           ReclaimAlone(p) \/ ReclaimRight(p) \/ ReclaimLeft(p) \/ ReclaimBoth(p)
    PROVE  TypeOK'
<1> USE Constants
<1>1. /\ strays' \in 0..MaxStray
      /\ holders' \in [Words -> Nat]
      /\ asked' \in [Words -> {0} \cup Requests]
      /\ want' = 0 /\ cursor' = NULL /\ seen' \subseteq Words
  BY ReleaseType DEF ReclaimAlone, ReclaimRight, ReclaimLeft, ReclaimBoth, Reclaim
<1>2. CASE Undefined
  BY <1>1, <1>2, UndefinedType
<1>3. TRUNCK_FREE \in Tags /\ p \in Int /\ size \in [Words -> 0..Fence]
  BY DEF Tags, TypeOK
<1>4. ASSUME NEW gone, Merge(p, gone)
      PROVE  heads' \subseteq Words /\ arena' \in {"sound", "broken", "undefined"}
  BY <1>4 DEF Merge, TypeOK
<1>5. CASE ReclaimAlone(p) /\ ~Undefined
  <2> DEFINE foot == FootLoc(p, size[p])
             up == [link EXCEPT ![foot] = p]
             before == [up EXCEPT ![p] = up[pav]]
             after == [rlink EXCEPT ![p] = pav]
  <2>1. /\ tag' = [tag EXCEPT ![p] = TRUNCK_FREE, ![foot] = TRUNCK_FREE]
        /\ IF pav = NULL
           THEN link' = [up EXCEPT ![p] = p] /\ rlink' = [rlink EXCEPT ![p] = p] /\ pav' = pav
           ELSE /\ link' = [before EXCEPT ![pav] = p]
                /\ rlink' = [after EXCEPT ![before[pav]] = p]
                /\ pav' = p
        /\ UNCHANGED <<size, heads, arena>>
    BY <1>5 DEF ReclaimAlone
  <2>2. /\ up \in [Words -> {NULL} \cup Words] /\ after \in [Words -> {NULL} \cup Words]
        /\ tag' \in [Words -> Tags]
    BY <2>1, <1>3 DEF TypeOK
  <2>3. pav # NULL => up[pav] \in {NULL} \cup Words
    BY <2>2 DEF TypeOK
  <2> HIDE DEF foot, up, after
  <2>4. pav # NULL => before \in [Words -> {NULL} \cup Words]
    BY <2>2, <2>3
  <2> HIDE DEF before
  <2>5. /\ link' \in [Words -> {NULL} \cup Words] /\ rlink' \in [Words -> {NULL} \cup Words]
        /\ pav' \in {NULL} \cup Words
    BY <2>1, <2>2, <2>4 DEF TypeOK
  <2> QED
    BY <1>1, <2>1, <2>2, <2>5 DEF TypeOK
<1>6. CASE ReclaimRight(p) /\ ~Undefined
  <2> DEFINE q == p + size[p]
             foot == FootLoc(p, MergedSize(p))
             after == [rlink EXCEPT ![link[q]] = p]
             before == [link EXCEPT ![p] = link[q]]
  <2>1. /\ rlink' = [after EXCEPT ![p] = after[q]]
        /\ link' = [before EXCEPT ![after[q]] = p, ![foot] = p]
        /\ size' = [size EXCEPT ![p] = MergedSize(p)]
        /\ tag' = [tag EXCEPT ![p] = TRUNCK_FREE, ![foot] = TRUNCK_FREE]
        /\ Merge(p, {q})
        /\ pav' = pav /\ foot \in Words /\ q \in Words
    BY <1>6 DEF ReclaimRight, RightIs
  <2>2. MergedSize(p) \in 0..Fence
    BY <1>3, <2>1 DEF MergedSize, FootLoc
  <2>3. link[q] \in {NULL} \cup Words
    BY <2>1 DEF TypeOK
  <2> HIDE DEF q, foot
  <2>4. /\ before \in [Words -> {NULL} \cup Words] /\ after \in [Words -> {NULL} \cup Words]
    BY <2>3 DEF TypeOK
  <2> HIDE DEF after, before
  <2>5. /\ link' \in [Words -> {NULL} \cup Words] /\ rlink' \in [Words -> {NULL} \cup Words]
        /\ tag' \in [Words -> Tags] /\ size' \in [Words -> 0..Fence]
    BY <2>1, <2>2, <2>4, <1>3 DEF TypeOK
  <2> QED
    BY <1>1, <1>4, <2>1, <2>5 DEF TypeOK
<1>7. CASE ReclaimLeft(p) /\ ~Undefined
  <2> DEFINE q == link[p - 1]
             foot == FootLoc(q, size[q] + size[p])
  <2>1. /\ size' = [size EXCEPT ![q] = size[q] + size[p]]
        /\ tag' = [tag EXCEPT ![foot] = TRUNCK_FREE]
        /\ link' = [link EXCEPT ![foot] = q]
        /\ Merge(p, {p})
        /\ UNCHANGED <<rlink, pav>>
        /\ q # NULL /\ foot \in Words /\ p - 1 \in Words
    BY <1>7 DEF ReclaimLeft, LeftIs
  <2>2. q \in Words
    BY <2>1 DEF TypeOK
  <2>3. size[q] + size[p] \in 0..Fence
    BY <1>3, <2>1, <2>2 DEF FootLoc
  <2> HIDE DEF q, foot
  <2>4. /\ link' \in [Words -> {NULL} \cup Words]
        /\ tag' \in [Words -> Tags] /\ size' \in [Words -> 0..Fence]
    BY <2>1, <2>2, <2>3, <1>3 DEF TypeOK
  <2> QED
    BY <1>1, <1>4, <2>1, <2>4 DEF TypeOK
<1>8. CASE ReclaimBoth(p) /\ ~Undefined
  <2> DEFINE r == p + size[p]
             before == [link EXCEPT ![rlink[r]] = link[r]]
             q == before[p - 1]
             grown == [size EXCEPT ![q] = @ + size[p]]
             both == [grown EXCEPT ![q] = @ + grown[p + grown[p]]]
             foot == FootLoc(q, both[q])
  <2>1. /\ rlink' = [rlink EXCEPT ![link[r]] = rlink[r]]
        /\ link' = [before EXCEPT ![foot] = q]
        /\ size' = both
        /\ tag' = [tag EXCEPT ![foot] = TRUNCK_FREE, ![q] = TRUNCK_FREE]
        /\ Merge(p, {p, r})
        /\ pav' = pav
        /\ q # NULL /\ foot \in Words /\ p + grown[p] \in Words
        /\ p - 1 \in Words /\ r \in Words
    BY <1>8 DEF ReclaimBoth, UnlinkRight, Neighbours
  <2>2. link[r] \in {NULL} \cup Words /\ rlink[r] \in {NULL} \cup Words
    BY <2>1 DEF TypeOK
  <2>3. before \in [Words -> {NULL} \cup Words]
    BY <2>2 DEF TypeOK
  <2> HIDE DEF before
  <2>4. q \in Words
    BY <2>1, <2>3
  <2> HIDE DEF q
  <2>5. grown \in [Words -> Nat] /\ \A x \in Words \ {q} : grown[x] = size[x]
    BY <2>4, <1>3
  <2> HIDE DEF grown
  <2>6. both \in [Words -> Nat] /\ \A x \in Words \ {q} : both[x] = size[x]
    BY <2>1, <2>4, <2>5
  <2> HIDE DEF both
  <2>7. both[q] \in 0..Fence
    BY <2>1, <2>4, <2>6 DEF FootLoc
  <2>8. both \in [Words -> 0..Fence]
    BY <2>6, <2>7, <1>3
  <2> HIDE DEF foot
  <2>9. /\ link' \in [Words -> {NULL} \cup Words] /\ rlink' \in [Words -> {NULL} \cup Words]
        /\ tag' \in [Words -> Tags] /\ size' \in [Words -> 0..Fence]
    BY <2>1, <2>2, <2>3, <2>4, <2>8, <1>3 DEF TypeOK
  <2> QED
    BY <1>1, <1>4, <2>1, <2>9 DEF TypeOK
<1> QED
  BY <1>2, <1>5, <1>6, <1>7, <1>8

LEMMA TypeStep == TypeOK /\ [Next]_vars => TypeOK'
<1> SUFFICES ASSUME TypeOK, [Next]_vars PROVE TypeOK'
  OBVIOUS
<1>1. CASE UNCHANGED vars
  BY <1>1 DEF TypeOK, vars, fields, callers, search, condition
<1> QED
  BY <1>1, SearchType, AllocType, ReclaimType DEF Next

(* Nothing repairs the arena. *)
LEMMA ArenaStep == [Next]_vars /\ Sound' => Sound
<1> SUFFICES ASSUME [Next]_vars, arena' = "sound" PROVE arena = "sound"
  BY DEF Sound
<1>1. ASSUME NEW n \in Requests, AllocCall(n) PROVE arena = "sound"
  BY <1>1 DEF AllocCall
<1>2. CASE AllocSearch
  BY <1>2 DEF AllocSearch, Undefined
<1>3. CASE AllocRefused
  BY <1>3 DEF AllocRefused, condition
<1>4. CASE AllocWhole
  BY <1>4 DEF AllocWhole, Undefined
<1>5. CASE AllocSplit
  BY <1>5 DEF AllocSplit, Undefined
<1>6. ASSUME NEW p \in Words, NEW w \in Words, NEW d \in Data, HolderWrites(p, w, d)
      PROVE  arena = "sound"
  BY <1>6 DEF HolderWrites, condition
<1>7. ASSUME NEW p \in Words, ReclaimAlone(p) PROVE arena = "sound"
  BY <1>7 DEF ReclaimAlone, Undefined
<1>8. ASSUME NEW p \in Words, ReclaimRight(p) PROVE arena = "sound"
  BY <1>8 DEF ReclaimRight, Undefined, Merge
<1>9. ASSUME NEW p \in Words, ReclaimLeft(p) PROVE arena = "sound"
  BY <1>9 DEF ReclaimLeft, Undefined, Merge
<1>10. ASSUME NEW p \in Words, ReclaimBoth(p) PROVE arena = "sound"
  BY <1>10 DEF ReclaimBoth, Undefined, Merge
<1>11. ASSUME NEW p \in Words, ReclaimIgnored(p) PROVE arena = "sound"
  BY <1>11 DEF ReclaimIgnored
<1>12. CASE UNCHANGED vars
  BY <1>12 DEF vars, condition
<1> QED
  BY <1>1, <1>2, <1>3, <1>4, <1>5, <1>6, <1>7, <1>8, <1>9, <1>10, <1>11, <1>12 DEF Next

-------------------------------------------------------------------------------
(* Order is kept.  The search reads the blocks and changes none, and what    *)
(* holders write is neither the head nor the foot of a block.                *)
LEMMA SameBlocks ==
    ASSUME UNCHANGED <<link, size, rlink, pav, heads, holders, asked>>,
           Order, \A x \in heads : tag'[x] = tag[x] /\ tag'[FootLoc(x, size[x])] = tag[FootLoc(x, size[x])],
           tag'[1] = tag[1], tag'[Fence] = tag[Fence], Path'
    PROVE  Order'
<1>1. Held' = Held /\ Free' = Free
  BY DEF Held, Free
<1>2. Tiled'
  BY <1>1 DEF Order, Tiled
<1>3. Kept' /\ ListInv' /\ Cycle' /\ Single'
  BY <1>1 DEF Order, Kept, ListInv, Linked, Cycle, OneCycle, Single
<1> QED
  BY <1>2, <1>3 DEF Order

LEMMA SearchStep ==
    ASSUME TypeOK, Order, arena' = "sound",
           \/ \E n \in Requests : AllocCall(n)
           \/ AllocSearch
           \/ AllocRefused
           \/ UNCHANGED vars
    PROVE  Order'
<1>1. UNCHANGED <<fields, pav, heads, callers>>
  BY DEF AllocCall, AllocSearch, AllocRefused, Undefined, vars
<1>2. Path' => Order'
  BY <1>1, SameBlocks DEF fields, callers
<1>3. UNCHANGED <<link, size, rlink, pav, heads, Free>>
  BY <1>1 DEF fields, callers, Free, Held
<1>4. ASSUME NEW n \in Requests, AllocCall(n) PROVE Path'
  <2>1. pav \in Free
    BY <1>4 DEF AllocCall, Empty, Order, ListInv
  <2>2. cursor' = pav /\ seen' = {}
    BY <1>4 DEF AllocCall
  <2> QED
    BY <1>3, <2>1, <2>2 DEF Path
<1>5. ASSUME AllocSearch PROVE Path'
  <2>1. want # 0 /\ ~(size[cursor] >= want) /\ rlink[cursor] # pav
    BY <1>5 DEF AllocSearch, Searching, Fits, Last
  <2>2. /\ pav \in Free /\ pav \in seen \cup {cursor}
        /\ cursor \in Free \ seen /\ seen \subseteq Free
        /\ \A p \in seen : rlink[p] \in seen \cup {cursor} /\ size[p] < want
        /\ \A p \in (seen \cup {cursor}) \ {pav} : link[p] \in seen
    BY <2>1 DEF Order, Path
  <2>3. cursor' = rlink[cursor] /\ seen' = seen \cup {cursor} /\ want' = want
    BY <1>5 DEF AllocSearch, Undefined
  <2>4. size[cursor] < want
    <3>1. size[cursor] \in Int
      BY <2>2, Geometry DEF Order, Free
    <3>2. want \in Int
      BY Constants DEF TypeOK
    <3> QED
      BY <3>1, <3>2, <2>1
  <2>5. rlink[cursor] \in Free /\ link[rlink[cursor]] = cursor
    BY <2>2 DEF Order, ListInv, Linked
  <2>6. rlink[cursor] \notin seen \cup {cursor}
    BY <2>1, <2>2, <2>5
  <2> QED
    BY <1>3, <2>2, <2>3, <2>4, <2>5, <2>6 DEF Path
<1>6. ASSUME AllocRefused PROVE Path'
  BY <1>6 DEF AllocRefused, Returns, Path
<1>7. ASSUME UNCHANGED vars PROVE Path'
  BY <1>3, <1>7 DEF vars, search, Order, Path
<1> QED
  BY <1>2, <1>4, <1>5, <1>6, <1>7

LEMMA HolderStep ==
    ASSUME TypeOK, Order, NEW p \in Words, NEW w \in Words, NEW d \in Data,
           HolderWrites(p, w, d)
    PROVE  Order'
<1>1. /\ p \in Held /\ w \in (p + 1)..(p + asked[p] - 1) /\ w # FootLoc(p, size[p])
      /\ want = 0 /\ tag' = [tag EXCEPT ![w] = d]
      /\ UNCHANGED <<link, size, rlink, pav, heads, callers, search>>
  BY DEF HolderWrites
<1>2. Tiled /\ p \in heads /\ size[p] - asked[p] \in 0..MIN_MEMORY_MARGIN
  BY <1>1 DEF Order, Tiled, Kept
<1>3. /\ p \in Int /\ w \in Int /\ size[p] \in Int /\ asked[p] \in Int /\ Fence \in Int
      /\ p < w /\ w < p + size[p] - 1 /\ p + size[p] <= Fence /\ 1 < p
  <2>1. asked[p] \in {0} \cup Requests
    BY DEF TypeOK
  <2>2. asked[p] \in Int
    BY <2>1, Constants
  <2>3. /\ p \in Int /\ w \in Int /\ size[p] \in Int /\ Fence \in Int /\ 1 < p
        /\ p + size[p] <= Fence /\ FootLoc(p, size[p]) = p + size[p] - 1
    BY <1>2, Geometry, Constants
  <2>4. asked[p] <= size[p]
    BY <1>2, <2>2, <2>3, Constants
  <2> QED
    BY <1>1, <2>2, <2>3, <2>4
<1>4. ASSUME NEW x \in heads PROVE w # x /\ w # FootLoc(x, size[x])
  <2>1. x \in Int /\ size[x] \in Int /\ size[x] >= 2 /\ FootLoc(x, size[x]) = x + size[x] - 1
    BY <1>2, Geometry
  <2>2. x # p => x + size[x] <= p \/ p + size[p] <= x
    BY <1>2, Geometry
  <2> QED
    BY <1>3, <2>1, <2>2
<1>5. w # 1 /\ w # Fence
  BY <1>3
<1>6. \A x \in Words : x # w => tag'[x] = tag[x]
  BY <1>1 DEF TypeOK
<1>7. \A x \in heads : tag'[x] = tag[x] /\ tag'[FootLoc(x, size[x])] = tag[FootLoc(x, size[x])]
  BY <1>2, <1>4, <1>6, Geometry
<1>8. tag'[1] = tag[1] /\ tag'[Fence] = tag[Fence]
  BY <1>5, <1>6, Constants
<1>9. Path'
  BY <1>1 DEF Path, search
<1> QED
  BY <1>1, <1>7, <1>8, <1>9, SameBlocks DEF callers

(* Until the arena is broken, only a block that nobody holds is ignored, and *)
(* nothing changes.                                                          *)
LEMMA IgnoredStep ==
    ASSUME TypeOK, Order, NEW p \in Words, ReclaimIgnored(p)
    PROVE  UNCHANGED <<fields, pav, heads, callers, search, arena>>
<1>1. p \in heads /\ p \notin Held
  BY DEF ReclaimIgnored, Order, Tiled, TRUNCK_FREE, TRUNCK_OCCUPY
<1>2. holders[p] = 0
  BY <1>1 DEF Held, TypeOK
<1>3. holders' = holders /\ asked' = asked
  BY <1>2 DEF ReclaimIgnored, TypeOK
<1> QED
  BY <1>3 DEF ReclaimIgnored, callers

(* Until then an allocation stays inside the arena. *)
LEMMA AllocDefined ==
    ASSUME TypeOK, Order, arena = "sound", AllocSearch \/ AllocWhole \/ AllocSplit
    PROVE  arena' = "sound"
<1>1. /\ want # 0 /\ cursor \in Free /\ cursor \in heads /\ Tiled
      /\ rlink[cursor] \in Free /\ link[cursor] \in Free
  BY DEF AllocSearch, AllocWhole, AllocSplit, Searching, Order, Path, ListInv, Linked, Free
<1>2. \A x \in Free : x # NULL
  BY <1>1, Geometry DEF Free
<1>3. FootLoc(cursor, size[cursor]) \in Words
  BY <1>1, Geometry
<1>4. CASE AllocSearch
  BY <1>1, <1>2, <1>4 DEF AllocSearch
<1>5. CASE AllocWhole
  BY <1>1, <1>2, <1>3, <1>5 DEF AllocWhole
<1>6. CASE AllocSplit
  <2>1. cursor \in Int /\ size[cursor] \in Int /\ want \in Int
    BY <1>1, Geometry, Constants DEF TypeOK
  <2>2. FootLoc(cursor + Rest, want) = FootLoc(cursor, size[cursor])
    BY <2>1 DEF FootLoc, Rest
  <2> QED
    BY <1>3, <1>6, <2>2 DEF AllocSplit
<1> QED
  BY <1>4, <1>5, <1>6

-------------------------------------------------------------------------------
(* A caller gets a block that nobody held.                                   *)
LEMMA Granted ==
    ASSUME TypeOK, Order, want \in Requests, NEW q \in Words, q \notin Held, Grant(q)
    PROVE  /\ Held' = Held \cup {q} /\ Single' /\ Path'
           /\ \A x \in Words : asked'[x] = IF x = q THEN want ELSE asked[x]
<1>1. holders[q] = 0
  BY DEF Held, Order, Single, TypeOK
<1>2. \A x \in Words : /\ holders'[x] = IF x = q THEN 1 ELSE holders[x]
                       /\ asked'[x] = IF x = q THEN want ELSE asked[x]
  BY <1>1 DEF Grant, TypeOK
<1>3. want # 0 /\ want' = 0
  BY Constants DEF Grant, Returns
<1>4. Held' = Held \cup {q}
  BY <1>2 DEF Held
<1>5. Single'
  BY <1>2, <1>3 DEF Single, Order
<1> QED
  BY <1>2, <1>3, <1>4, <1>5 DEF Path

(* A whole block leaves the free list.                                       *)
LEMMA WholeStep ==
    ASSUME TypeOK, Order, AllocWhole, arena' = "sound"
    PROVE  Order'
<1> DEFINE p == cursor
           next == rlink[p]
           foot == FootLoc(p, size[p])
<1>1. /\ Tiled /\ Kept /\ ListInv /\ Cycle /\ Path /\ want # 0
  BY DEF Order, AllocWhole, Searching
<1>2. p \in Free /\ pav \in Free /\ p \in heads /\ p \notin Held /\ want \in Requests
  BY <1>1 DEF Path, Free, TypeOK
<1>3. /\ pav' = IF next = p THEN NULL ELSE next
      /\ link' = IF next = p THEN link ELSE [link EXCEPT ![next] = link[p]]
      /\ rlink' = IF next = p THEN rlink ELSE [rlink EXCEPT ![link[p]] = next]
      /\ tag' = [tag EXCEPT ![p] = TRUNCK_OCCUPY, ![foot] = TRUNCK_OCCUPY]
      /\ Grant(p)
      /\ size' = size /\ heads' = heads
      /\ size[p] >= want /\ ~ (size[p] - want > MIN_MEMORY_MARGIN)
  BY DEF AllocWhole, Undefined, Fits, Splits
<1>4. /\ p \in Words /\ foot \in Words /\ foot \notin heads /\ foot # Fence /\ foot # 1
      /\ size[p] \in Int /\ p # 1 /\ p # Fence
      /\ \A x \in heads : x # p => FootLoc(x, size[x]) # foot
  BY <1>1, <1>2, Geometry
<1>5. \A x \in heads : x \in Words /\ FootLoc(x, size[x]) \in Words /\ FootLoc(x, size[x]) \notin heads /\ x # NULL
  BY <1>1, Geometry
<1>6. /\ next \in Free /\ link[p] \in Free /\ link[next] = p /\ rlink[link[p]] = p
      /\ next \in heads /\ link[p] \in heads
  BY <1>1, <1>2 DEF ListInv, Linked, Free
<1>7. /\ Held' = Held \cup {p} /\ Single' /\ Path'
      /\ \A x \in Words : asked'[x] = IF x = p THEN want ELSE asked[x]
  BY <1>2, <1>3, <1>4, Granted
<1>8. \A x \in Words : /\ tag'[x] = IF x \in {p, foot} THEN TRUNCK_OCCUPY ELSE tag[x]
                       /\ link'[x] = IF x = next /\ next # p THEN link[p] ELSE link[x]
                       /\ rlink'[x] = IF x = link[p] /\ next # p THEN next ELSE rlink[x]
  <2>1. ASSUME NEW x \in Words PROVE tag'[x] = IF x \in {p, foot} THEN TRUNCK_OCCUPY ELSE tag[x]
    BY <1>3 DEF TypeOK
  <2>2. ASSUME NEW x \in Words
        PROVE  /\ link'[x] = IF x = next /\ next # p THEN link[p] ELSE link[x]
               /\ rlink'[x] = IF x = link[p] /\ next # p THEN next ELSE rlink[x]
    BY <1>3 DEF TypeOK
  <2> QED
    BY <2>1, <2>2
<1>9. Free' = Free \ {p}
  BY <1>3, <1>7 DEF Free
<1> HIDE DEF p, next, foot
<1>10. Tiled'
  <2>1. ASSUME NEW x \in heads
        PROVE  /\ tag'[x] = IF x \in Held' THEN TRUNCK_OCCUPY ELSE TRUNCK_FREE
               /\ IF x \in Held' THEN tag'[FootLoc(x, size[x])] = TRUNCK_OCCUPY
                                 ELSE link'[FootLoc(x, size[x])] = x
    <3>1. CASE x = p
      BY <3>1, <1>4, <1>7, <1>8 DEF foot
    <3>2. CASE x # p
      <4>1. x # foot /\ x \in Words
        BY <1>4, <1>5
      <4>2. FootLoc(x, size[x]) # foot /\ FootLoc(x, size[x]) # p /\ FootLoc(x, size[x]) \in Words
            /\ FootLoc(x, size[x]) # next
        BY <3>2, <1>2, <1>4, <1>5, <1>6
      <4>3. /\ tag'[x] = tag[x] /\ tag'[FootLoc(x, size[x])] = tag[FootLoc(x, size[x])]
            /\ link'[FootLoc(x, size[x])] = link[FootLoc(x, size[x])]
        BY <3>2, <4>1, <4>2, <1>8
      <4> QED
        BY <3>2, <4>3, <1>1, <1>7 DEF Tiled
    <3> QED
      BY <3>1, <3>2
  <2>2. tag'[1] = TRUNCK_OCCUPY /\ tag'[Fence] = TRUNCK_OCCUPY
    BY <1>1, <1>4, <1>8, Constants DEF Tiled
  <2>3. Held' \subseteq heads
    BY <1>1, <1>2, <1>7 DEF Tiled
  <2> QED
    BY <1>1, <1>3, <2>1, <2>2, <2>3 DEF Tiled
<1>11. Kept'
  <2>1. size[p] - want \in 0..MIN_MEMORY_MARGIN
    BY <1>2, <1>3, <1>4, Constants
  <2>2. \A x \in Held : x \in Words
    BY DEF Held
  <2>3. ASSUME NEW x \in Held' PROVE size[x] - asked'[x] \in 0..MIN_MEMORY_MARGIN
    <3>1. CASE x = p
      BY <3>1, <2>1, <1>4, <1>7
    <3>2. CASE x # p
      BY <3>2, <2>2, <1>1, <1>7 DEF Kept
    <3> QED
      BY <3>1, <3>2
  <2> QED
    BY <2>3, <1>3 DEF Kept
<1>12. /\ Linked(Free', rlink', link')
       /\ OneCycle(Free, rlink) => OneCycle(Free', rlink')
  <2>1. next = p => link[p] = p
    BY <1>6
  <2>2. \A x \in Free \ {p} : rlink'[x] = IF x = link[p] THEN next ELSE rlink[x]
    BY <2>1, <1>5, <1>8 DEF Free
  <2>3. \A x \in Free \ {p} : link'[x] = IF x = next THEN link[p] ELSE link[x]
    BY <2>1, <1>5, <1>8 DEF Free
  <2>4. Linked(Free, rlink, link)
    BY <1>1 DEF ListInv
  <2> QED
    BY <2>2, <2>3, <2>4, <1>2, <1>9, Removed DEF next
<1>13. ListInv' /\ Cycle'
  <2>1. NULL \notin heads
    BY <1>5
  <2>2. OneCycle(Free, rlink)
    BY <2>1, <1>1, <1>2 DEF Cycle, Free
  <2>3. CASE next = p
    <3>1. {p} \in SUBSET Free /\ {p} # {} /\ \A x \in {p} : rlink[x] \in {p}
      BY <2>3, <1>2 DEF next
    <3>2. Free = {p}
      BY <3>1, <2>2 DEF OneCycle
    <3> QED
      BY <3>2, <2>3, <1>3, <1>9, <1>12 DEF ListInv, Cycle
  <2>4. CASE next # p
    <3>1. pav' \in Free' /\ pav' # NULL
      BY <2>1, <2>4, <1>3, <1>6, <1>9
    <3> QED
      BY <3>1, <2>2, <1>12 DEF ListInv, Cycle
  <2> QED
    BY <2>3, <2>4
<1> QED
  BY <1>7, <1>10, <1>11, <1>13 DEF Order

(* A held block is cut off the end of a free one, whose place in the list    *)
(* does not change.  Its new foot leads to its head whatever tag it has.     *)
LEMMA SplitStep ==
    ASSUME TypeOK, Order, AllocSplit, arena' = "sound"
    PROVE  Order'
<1> DEFINE p == cursor
           rest == size[p] - want
           q == p + rest
           last == q + want - 1
<1>1. /\ Tiled /\ Kept /\ ListInv /\ Cycle /\ Path /\ want # 0
  BY DEF Order, AllocSplit, Searching
<1>2. p \in Free /\ pav \in Free /\ p \in heads /\ want \in Requests /\ p \notin Held
  BY <1>1 DEF Path, Free, TypeOK
<1>3. /\ pav' = rlink[p]
      /\ size' = [size EXCEPT ![p] = rest, ![q] = want]
      /\ tag' = [tag EXCEPT ![last] = TRUNCK_OCCUPY, ![p] = TRUNCK_FREE, ![q] = TRUNCK_OCCUPY]
      /\ link' = [link EXCEPT ![q - 1] = p]
      /\ heads' = heads \cup {q}
      /\ Grant(q)
      /\ rlink' = rlink
      /\ rest > MIN_MEMORY_MARGIN
  <2>1. FootLoc(p, Rest) = q - 1 /\ FootLoc(q, want) = last /\ Rest = rest
    <3>1. p \in Int /\ size[p] \in Int /\ want \in Int
      BY <1>1, <1>2, Geometry, Constants
    <3> QED
      BY <3>1 DEF FootLoc, Rest
  <2> QED
    BY <2>1 DEF AllocSplit, Undefined, Splits
<1>4. /\ p \in Int /\ size[p] \in Int /\ want \in Int /\ Fence \in Int
      /\ p >= 2 /\ want >= 2 /\ rest >= 2 /\ rest \in Int /\ p + size[p] <= Fence
  <2>1. p \in Int /\ p >= 2 /\ size[p] \in Int /\ p + size[p] <= Fence
    BY <1>1, <1>2, Geometry, Constants
  <2>2. want \in Int /\ want >= 2
    BY <1>2, Constants
  <2> QED
    BY <2>1, <2>2, <1>3, Constants
<1>5. /\ q = p + rest /\ q + want = p + size[p] /\ last = p + size[p] - 1
      /\ q \in Int /\ p < q - 1 /\ q < last /\ last < Fence
  BY <1>4
<1>6. /\ q \in First..(Fence - 1)
      /\ p \in Words /\ q \in Words /\ q - 1 \in Words /\ last \in Words
      /\ 1 \in Words /\ Fence \in Words
  BY <1>4, <1>5, Constants
<1>7. \A x \in heads : /\ x \in Int /\ size[x] \in Int /\ size[x] >= 2 /\ x \in Words
                       /\ FootLoc(x, size[x]) = x + size[x] - 1
                       /\ FootLoc(x, size[x]) \in Words
                       /\ x # p => x + size[x] <= p \/ p + size[p] <= x
  BY <1>1, <1>2, Geometry
<1>8. q \notin heads /\ q - 1 \notin heads /\ last \notin heads
  BY <1>4, <1>5, <1>7
<1> HIDE DEF p, rest, q, last
<1>9. \A x \in Words : /\ size'[x] = IF x = p THEN rest ELSE IF x = q THEN want ELSE size[x]
                       /\ tag'[x] = IF x = p THEN TRUNCK_FREE
                                    ELSE IF x \in {q, last} THEN TRUNCK_OCCUPY ELSE tag[x]
                       /\ link'[x] = IF x = q - 1 THEN p ELSE link[x]
  <2> USE <1>1, <1>3, <1>4, <1>5 DEF TypeOK
  <2>1. \A x \in Words : size'[x] = IF x = p THEN rest ELSE IF x = q THEN want ELSE size[x]
    OBVIOUS
  <2>2. \A x \in Words : tag'[x] = IF x = p THEN TRUNCK_FREE
                                   ELSE IF x \in {q, last} THEN TRUNCK_OCCUPY ELSE tag[x]
    OBVIOUS
  <2>3. \A x \in Words : link'[x] = IF x = q - 1 THEN p ELSE link[x]
    OBVIOUS
  <2> QED
    BY <2>1, <2>2, <2>3
<1>10. /\ Held' = Held \cup {q} /\ Free' = Free /\ q \notin Held /\ Single' /\ Path'
       /\ \A x \in Words : asked'[x] = IF x = q THEN want ELSE asked[x]
  <2>1. q \notin Held
    BY <1>1, <1>8 DEF Tiled
  <2>2. /\ Held' = Held \cup {q} /\ Single' /\ Path'
        /\ \A x \in Words : asked'[x] = IF x = q THEN want ELSE asked[x]
    BY <2>1, <1>2, <1>3, <1>6, Granted
  <2>3. Free' = Free
    BY <2>2, <1>3, <1>8 DEF Free
  <2> QED
    BY <2>1, <2>2, <2>3
<1>11. Tiled'
  <2>1. /\ size'[p] = rest /\ size'[q] = want
        /\ \A x \in heads : x # p => size'[x] = size[x]
    BY <1>4, <1>5, <1>6, <1>7, <1>8, <1>9
  <2>2. p + size[p] \in heads \cup {Fence}
    BY <1>1, <1>2 DEF Tiled
  <2>3. ASSUME NEW x \in heads'
        PROVE  /\ size'[x] >= 2
               /\ x + size'[x] \in heads' \cup {Fence}
               /\ \A y \in heads' : y <= x \/ x + size'[x] <= y
    <3>1. CASE x = p
      BY <3>1, <2>1, <1>3, <1>4, <1>5, <1>7
    <3>2. CASE x = q
      BY <3>2, <2>1, <2>2, <1>3, <1>4, <1>5, <1>7
    <3>3. CASE x \notin {p, q}
      <4>1. x \in heads /\ size'[x] = size[x]
        BY <3>3, <2>1, <1>3
      <4>2. size[x] >= 2 /\ x + size[x] \in heads \cup {Fence} /\ \A y \in heads : y <= x \/ x + size[x] <= y
        BY <4>1, <1>1 DEF Tiled
      <4>3. q <= x \/ x + size[x] <= q
        BY <3>3, <4>1, <1>4, <1>5, <1>7
      <4> QED
        BY <4>1, <4>2, <4>3, <1>3
    <3> QED
      BY <3>1, <3>2, <3>3
  <2>4. ASSUME NEW x \in heads'
        PROVE  LET f == FootLoc(x, size'[x]) IN
               /\ tag'[x] = IF x \in Held' THEN TRUNCK_OCCUPY ELSE TRUNCK_FREE
               /\ IF x \in Held' THEN tag'[f] = TRUNCK_OCCUPY ELSE link'[f] = x
    <3>1. CASE x = p
      <4>1. FootLoc(x, size'[x]) = q - 1
        BY <3>1, <2>1, <1>4, <1>5 DEF FootLoc
      <4>2. x \notin Held' /\ tag'[x] = TRUNCK_FREE
        BY <3>1, <1>2, <1>6, <1>8, <1>9, <1>10
      <4> QED
        BY <3>1, <4>1, <4>2, <1>6, <1>9
    <3>2. CASE x = q
      <4>1. FootLoc(x, size'[x]) = last
        BY <3>2, <2>1, <1>4, <1>5 DEF FootLoc
      <4>2. tag'[q] = TRUNCK_OCCUPY /\ tag'[last] = TRUNCK_OCCUPY /\ q \in Held'
        BY <1>4, <1>5, <1>6, <1>9, <1>10
      <4> QED
        BY <3>2, <4>1, <4>2
    <3>3. CASE x \notin {p, q}
      <4>1. x \in heads /\ size'[x] = size[x]
        BY <3>3, <2>1, <1>3
      <4>2. FootLoc(x, size[x]) \notin {p, q, last, q - 1}
        BY <3>3, <4>1, <1>4, <1>5, <1>7
      <4>3. /\ tag'[x] = tag[x] /\ tag'[FootLoc(x, size[x])] = tag[FootLoc(x, size[x])]
            /\ link'[FootLoc(x, size[x])] = link[FootLoc(x, size[x])]
        BY <3>3, <4>1, <4>2, <1>7, <1>8, <1>9
      <4> QED
        BY <3>3, <4>1, <4>3, <1>1, <1>10 DEF Tiled
    <3> QED
      BY <3>1, <3>2, <3>3
  <2>5. tag'[1] = TRUNCK_OCCUPY /\ tag'[Fence] = TRUNCK_OCCUPY
    BY <1>1, <1>4, <1>5, <1>6, <1>9 DEF Tiled
  <2>6. First \in heads' /\ Held' \subseteq heads' /\ heads' \subseteq First..(Fence - 1)
    BY <1>1, <1>3, <1>6, <1>10 DEF Tiled
  <2> QED
    BY <2>3, <2>4, <2>5, <2>6 DEF Tiled
<1>12. Kept'
  <2>1. ASSUME NEW x \in Held' PROVE size'[x] - asked'[x] \in 0..MIN_MEMORY_MARGIN
    <3>1. CASE x = q
      <4>1. size'[x] = want /\ asked'[x] = want
        BY <3>1, <1>4, <1>5, <1>6, <1>9, <1>10
      <4> QED
        BY <4>1, <1>4, Constants
    <3>2. CASE x # q
      <4>1. x \in Held /\ x \in heads /\ x # p
        BY <3>2, <1>1, <1>2, <1>10 DEF Tiled
      <4>2. size'[x] = size[x] /\ asked'[x] = asked[x]
        BY <3>2, <4>1, <1>7, <1>9, <1>10
      <4> QED
        BY <4>1, <4>2, <1>1 DEF Kept
    <3> QED
      BY <3>1, <3>2
  <2> QED
    BY <2>1 DEF Kept
<1>13. ListInv' /\ Cycle'
  <2>1. \A x \in Free : link'[x] = link[x]
    BY <1>7, <1>8, <1>9 DEF Free
  <2>2. pav' \in Free /\ NULL \notin Free
    <3>1. pav' \in Free
      BY <1>1, <1>2, <1>3 DEF ListInv, Linked
    <3> QED
      BY <3>1, <1>7, Constants DEF Free
  <2>3. OneCycle(Free, rlink)
    BY <2>2, <1>1, <1>2 DEF Cycle
  <2>4. Linked(Free', rlink', link')
    BY <2>1, <1>1, <1>3, <1>10 DEF ListInv, Linked
  <2> QED
    BY <2>2, <2>3, <2>4, <1>3, <1>10 DEF ListInv, Cycle
<1> QED
  BY <1>10, <1>11, <1>12, <1>13 DEF Order

-------------------------------------------------------------------------------
(* A release ends in a free block b that has taken the words of the blocks   *)
(* in gone and leaves all others as they were.                               *)
LEMMA Merged ==
    ASSUME TypeOK, Tiled, Kept,
           NEW b \in heads, NEW gone \in SUBSET (heads \ {b}), NEW e \in Int,
           heads' = heads \ gone, First \notin gone,
           size'[b] = e - b, e - b >= 2, e \in heads' \cup {Fence},
           \A y \in heads' : y <= b \/ e <= y,
           \A x \in heads' \ {b} : x + size[x] \notin gone,
           b \notin Held', tag'[b] = TRUNCK_FREE, link'[e - 1] = b,
           Held' \subseteq heads',
           \A x \in heads' \ {b} :
             /\ x \in Held' <=> x \in Held
             /\ size'[x] = size[x] /\ tag'[x] = tag[x] /\ asked'[x] = asked[x]
             /\ tag'[FootLoc(x, size[x])] = tag[FootLoc(x, size[x])]
             /\ link'[FootLoc(x, size[x])] = link[FootLoc(x, size[x])],
           tag'[1] = tag[1], tag'[Fence] = tag[Fence]
    PROVE  Tiled' /\ Kept'
<1>1. \A x \in heads' \ {b} : x \in heads
  OBVIOUS
<1>2. b + (e - b) = e /\ FootLoc(b, e - b) = e - 1 /\ b \in Int
  BY Geometry DEF FootLoc
<1>3. ASSUME NEW x \in heads'
      PROVE  LET f == FootLoc(x, size'[x]) IN
             /\ size'[x] >= 2
             /\ x + size'[x] \in heads' \cup {Fence}
             /\ \A y \in heads' : y <= x \/ x + size'[x] <= y
             /\ tag'[x] = IF x \in Held' THEN TRUNCK_OCCUPY ELSE TRUNCK_FREE
             /\ IF x \in Held' THEN tag'[f] = TRUNCK_OCCUPY ELSE link'[f] = x
  <2>1. CASE x = b
    BY <2>1, <1>2
  <2>2. CASE x # b
    <3>1. x \in heads /\ size'[x] = size[x]
      BY <2>2, <1>1
    <3>2. size[x] >= 2 /\ x + size[x] \in heads' \cup {Fence}
      BY <3>1, <2>2 DEF Tiled
    <3>3. \A y \in heads' : y <= x \/ x + size[x] <= y
      BY <3>1 DEF Tiled
    <3>4. /\ tag[x] = IF x \in Held THEN TRUNCK_OCCUPY ELSE TRUNCK_FREE
          /\ IF x \in Held THEN tag[FootLoc(x, size[x])] = TRUNCK_OCCUPY
                           ELSE link[FootLoc(x, size[x])] = x
      BY <3>1 DEF Tiled
    <3> QED
      BY <2>2, <3>1, <3>2, <3>3, <3>4
  <2> QED
    BY <2>1, <2>2
<1>4. Tiled'
  <2>1. First \in heads' /\ heads' \subseteq First..(Fence - 1)
    BY DEF Tiled
  <2>2. tag'[1] = TRUNCK_OCCUPY /\ tag'[Fence] = TRUNCK_OCCUPY
    BY DEF Tiled
  <2> QED
    BY <1>3, <2>1, <2>2 DEF Tiled
<1>5. Kept'
  <2>1. ASSUME NEW x \in Held' PROVE x \in Held /\ size'[x] = size[x] /\ asked'[x] = asked[x]
    OBVIOUS
  <2> QED
    BY <2>1 DEF Kept
<1> QED
  BY <1>4, <1>5

(* What all four cases of a release share. *)
LEMMA Released ==
    ASSUME TypeOK, Order, NEW p \in Words, Release(p)
    PROVE  /\ Tiled /\ Kept /\ ListInv /\ Cycle
           /\ Path' /\ Single'
           /\ p \in heads /\ p \in Held /\ p \notin Free
           /\ Held' = Held \ {p} /\ Held \subseteq heads
           /\ pav = NULL \/ pav \in Free
           /\ asked' = [asked EXCEPT ![p] = 0] /\ asked[p] # 0
           /\ \A x \in Words : asked'[x] = IF x = p THEN 0 ELSE asked[x]
           /\ \A x \in heads : x \in Words /\ FootLoc(x, size[x]) \in Words
           /\ 1 \in Words /\ Fence \in Words
<1>1. Tiled /\ Kept /\ ListInv /\ Cycle /\ Held \subseteq heads
  BY DEF Order, Tiled
<1>2. p \in Held /\ p \in heads /\ p \notin Free /\ (pav = NULL \/ pav \in Free)
  BY <1>1 DEF Release, Free, ListInv
<1>3. holders[p] = 1 /\ asked[p] # 0
  BY <1>2 DEF Held, Order, Single
<1>4. asked' = [asked EXCEPT ![p] = 0] /\ holders' = [holders EXCEPT ![p] = 0]
  BY <1>3 DEF Release
<1>5. \A x \in Words : /\ asked'[x] = IF x = p THEN 0 ELSE asked[x]
                       /\ holders'[x] = IF x = p THEN 0 ELSE holders[x]
  BY <1>4 DEF TypeOK
<1>6. Held' = Held \ {p}
  BY <1>5 DEF Held
<1>7. Single'
  BY <1>5 DEF Single, Order
<1>8. Path'
  BY DEF Release, Call, search, Path
<1>9. \A x \in heads : x \in Words /\ FootLoc(x, size[x]) \in Words
  BY <1>1, Geometry
<1> QED
  BY <1>1, <1>2, <1>3, <1>4, <1>5, <1>6, <1>7, <1>8, <1>9, Constants

(* The block becomes free between two held ones. *)
LEMMA AloneStep ==
    ASSUME TypeOK, Order, NEW p \in Words, ReclaimAlone(p), arena' = "sound"
    PROVE  Order'
<1> DEFINE foot == FootLoc(p, size[p])
           e == p + size[p]
<1>1. /\ Tiled /\ Kept /\ ListInv /\ Cycle
      /\ Path' /\ Single'
      /\ p \in heads /\ p \in Held /\ p \notin Free
      /\ Held' = Held \ {p} /\ Held \subseteq heads
      /\ pav = NULL \/ pav \in Free
      /\ \A x \in Words : asked'[x] = IF x = p THEN 0 ELSE asked[x]
      /\ \A x \in heads : x \in Words /\ FootLoc(x, size[x]) \in Words
      /\ 1 \in Words /\ Fence \in Words
  BY Released DEF ReclaimAlone, Reclaim
<1>2. /\ p \in Int /\ size[p] \in Int /\ size[p] >= 2 /\ e \in Int /\ foot = e - 1
      /\ foot \in Words /\ foot \notin heads /\ foot # 1 /\ foot # Fence /\ foot # p
      /\ p # 1 /\ p # Fence /\ NULL \notin heads
      /\ \A x \in heads : x # p => FootLoc(x, size[x]) # foot
      /\ \A x \in heads : FootLoc(x, size[x]) \notin heads
      /\ NULL \notin Words
  BY <1>1, Geometry, Constants
<1>3. pav # NULL => pav # p /\ link[pav] \in Free /\ link[pav] # p /\ link[pav] \in Words
                    /\ pav # foot /\ pav \in Words /\ pav \in heads
  <2>1. SUFFICES ASSUME pav # NULL
                 PROVE  pav # p /\ link[pav] \in Free /\ link[pav] # p /\ link[pav] \in Words
                        /\ pav # foot /\ pav \in Words /\ pav \in heads
    OBVIOUS
  <2>2. pav \in Free /\ link[pav] \in Free /\ Free \subseteq heads
    BY <2>1, <1>1 DEF ListInv, Linked, Free
  <2> HIDE DEF foot
  <2> QED
    BY <2>2, <1>1, <1>2
<1>4. /\ tag' = [tag EXCEPT ![p] = TRUNCK_FREE, ![foot] = TRUNCK_FREE]
      /\ size' = size /\ heads' = heads
      /\ IF pav = NULL
         THEN /\ link' = [link EXCEPT ![foot] = p, ![p] = p]
              /\ rlink' = [rlink EXCEPT ![p] = p]
              /\ pav' = NULL
         ELSE /\ link' = [link EXCEPT ![foot] = p, ![p] = link[pav], ![pav] = p]
              /\ rlink' = [rlink EXCEPT ![p] = pav, ![link[pav]] = p]
              /\ pav' = p
  <2> DEFINE up == [link EXCEPT ![foot] = p]
             before == [up EXCEPT ![p] = up[pav]]
             after == [rlink EXCEPT ![p] = pav]
  <2>1. /\ tag' = [tag EXCEPT ![p] = TRUNCK_FREE, ![foot] = TRUNCK_FREE]
        /\ size' = size /\ heads' = heads
        /\ IF pav = NULL
           THEN link' = [up EXCEPT ![p] = p] /\ rlink' = [rlink EXCEPT ![p] = p] /\ pav' = pav
           ELSE /\ link' = [before EXCEPT ![pav] = p]
                /\ rlink' = [after EXCEPT ![before[pav]] = p]
                /\ pav' = p
    BY DEF ReclaimAlone, Undefined
  <2> HIDE DEF foot
  <2>2. pav # NULL => up[pav] = link[pav] /\ before[pav] = link[pav]
    BY <1>3 DEF TypeOK
  <2> QED
    BY <2>1, <2>2
<1> HIDE DEF foot, e
<1>5. \A x \in Words : tag'[x] = IF x \in {p, foot} THEN TRUNCK_FREE ELSE tag[x]
  BY <1>4 DEF TypeOK
<1>6. \A x \in Words :
        link'[x] = IF x = foot THEN p
                   ELSE IF x = p THEN IF pav = NULL THEN p ELSE link[pav]
                   ELSE IF x = pav THEN p ELSE link[x]
  <2>1. CASE pav = NULL
    BY <2>1, <1>2, <1>4 DEF TypeOK
  <2>2. CASE pav # NULL
    BY <2>2, <1>2, <1>3, <1>4 DEF TypeOK
  <2> QED
    BY <2>1, <2>2
<1>7. /\ rlink'[p] = IF pav = NULL THEN p ELSE pav
      /\ \A x \in Free : rlink'[x] = IF pav # NULL /\ x = link[pav] THEN p ELSE rlink[x]
  <2>1. \A x \in Free : x \in Words /\ x # p
    BY <1>1 DEF Free
  <2> QED
    BY <2>1, <1>3, <1>4 DEF TypeOK
<1>8. Free' = Free \cup {p}
  BY <1>1, <1>4 DEF Free
<1>9. Tiled' /\ Kept'
  <2>1. e \in heads \cup {Fence} /\ \A y \in heads : y <= p \/ e <= y
    BY <1>1 DEF Tiled, e
  <2>2. /\ p \notin Held' /\ tag'[p] = TRUNCK_FREE /\ link'[e - 1] = p
        /\ size'[p] = e - p /\ e - p >= 2 /\ e \in Int
    <3>1. e - p = size[p] /\ e \in Int
      BY <1>2 DEF e
    <3> QED
      BY <3>1, <1>1, <1>2, <1>4, <1>5, <1>6
  <2>3. ASSUME NEW x \in heads' \ {p}
        PROVE  /\ x \in Held' <=> x \in Held
               /\ size'[x] = size[x] /\ tag'[x] = tag[x] /\ asked'[x] = asked[x]
               /\ tag'[FootLoc(x, size[x])] = tag[FootLoc(x, size[x])]
               /\ link'[FootLoc(x, size[x])] = link[FootLoc(x, size[x])]
    <3>1. x \in heads /\ x # p /\ FootLoc(x, size[x]) \in Words /\ x \in Words
      BY <1>1, <1>4
    <3>2. FootLoc(x, size[x]) \notin heads \cup {foot} /\ x # foot
      BY <3>1, <1>2
    <3>3. FootLoc(x, size[x]) # p /\ FootLoc(x, size[x]) # pav
      BY <3>1, <3>2, <1>1, <1>2, <1>3
    <3>4. tag'[x] = tag[x] /\ tag'[FootLoc(x, size[x])] = tag[FootLoc(x, size[x])]
      BY <3>1, <3>2, <3>3, <1>5
    <3>5. link'[FootLoc(x, size[x])] = link[FootLoc(x, size[x])]
      BY <3>1, <3>2, <3>3, <1>6
    <3> QED
      BY <3>1, <3>4, <3>5, <1>1, <1>4
  <2>4. tag'[1] = tag[1] /\ tag'[Fence] = tag[Fence]
    BY <1>1, <1>2, <1>5
  <2>5. /\ heads' = heads \ {} /\ {} \in SUBSET (heads \ {p}) /\ First \notin {}
        /\ e \in heads' \cup {Fence} /\ \A y \in heads' : y <= p \/ e <= y
        /\ \A x \in heads' \ {p} : x + size[x] \notin {}
        /\ Held' \subseteq heads'
    BY <2>1, <1>1, <1>4
  <2>6. TypeOK /\ Tiled /\ Kept /\ p \in heads
    BY <1>1
  <2> QED
    BY <2>2, <2>3, <2>4, <2>5, <2>6, Merged
<1>10. ListInv' /\ Cycle'
  <2>1. Linked(Free, rlink, link)
    BY <1>1 DEF ListInv
  <2>2. \A x \in Free : x \in Words /\ x # foot /\ x # p /\ x \in heads /\ x # NULL
    BY <1>1, <1>2 DEF Free
  <2>3. CASE pav = NULL
    <3>1. \A x \in Free : link'[x] = link[x] /\ rlink'[x] = rlink[x]
      BY <2>2, <2>3, <1>2, <1>6, <1>7
    <3>2. link'[p] = p /\ rlink'[p] = p
      BY <2>3, <1>2, <1>6, <1>7
    <3>3. Linked(Free', rlink', link')
      BY <3>1, <3>2, <2>1, <1>8 DEF Linked
    <3>4. pav' = NULL /\ \A x \in Free : rlink[x] = x
      BY <2>3, <1>1, <1>4 DEF ListInv
    <3>5. \A x \in Free' : rlink'[x] = x
      BY <3>1, <3>2, <3>4, <1>8
    <3> QED
      BY <3>3, <3>4, <3>5 DEF ListInv, Cycle
  <2>4. CASE pav # NULL
    <3>1. pav \in Free
      BY <2>4, <1>1
    <3>2. rlink'[p] = pav /\ link'[p] = link[pav]
      BY <2>4, <1>2, <1>6, <1>7
    <3>3. \A x \in Free : rlink'[x] = IF x = link[pav] THEN p ELSE rlink[x]
      BY <2>4, <1>7
    <3>4. \A x \in Free : link'[x] = IF x = pav THEN p ELSE link[x]
      BY <2>2, <1>6
    <3>5. OneCycle(Free, rlink)
      BY <2>4, <1>1 DEF Cycle
    <3>6. Linked(Free \cup {p}, rlink', link') /\ OneCycle(Free \cup {p}, rlink')
      <4>1. p \notin Free
        BY <1>1
      <4> QED
        BY <3>1, <3>2, <3>3, <3>4, <3>5, <4>1, <2>1, Inserted
    <3>7. pav' \in Free' /\ pav' # NULL
      BY <2>4, <1>1, <1>2, <1>4, <1>8
    <3> QED
      BY <3>6, <3>7, <1>8 DEF ListInv, Cycle
  <2> QED
    BY <2>3, <2>4
<1> QED
  BY <1>1, <1>9, <1>10 DEF Order

(* The block takes the words of its free right neighbour and its place in    *)
(* the list.  *pav did not point to that neighbour: the arena is not broken. *)
LEMMA RightStep ==
    ASSUME TypeOK, Order, NEW p \in Words, ReclaimRight(p), arena' = "sound"
    PROVE  Order'
<1> DEFINE q == p + size[p]
           e == q + size[q]
           foot == FootLoc(p, MergedSize(p))
           next == IF link[q] = q THEN p ELSE rlink[q]
<1>1. /\ Tiled /\ Kept /\ ListInv /\ Cycle
      /\ Path' /\ Single'
      /\ p \in heads /\ p \in Held /\ p \notin Free
      /\ Held' = Held \ {p} /\ Held \subseteq heads
      /\ pav = NULL \/ pav \in Free
      /\ \A x \in Words : asked'[x] = IF x = p THEN 0 ELSE asked[x]
      /\ \A x \in heads : x \in Words /\ FootLoc(x, size[x]) \in Words
      /\ 1 \in Words /\ Fence \in Words
  BY Released DEF ReclaimRight, Reclaim
<1>2. q \in Free /\ q \in heads /\ p # q
  BY <1>1, RightFreeBlock DEF ReclaimRight, Free
<1>3. /\ p \in Int /\ size[p] \in Int /\ size[p] >= 2
      /\ q \in Int /\ size[q] \in Int /\ size[q] >= 2
      /\ e \in Int /\ foot = e - 1 /\ foot = FootLoc(q, size[q])
      /\ foot \in Words /\ foot \notin heads /\ foot # 1 /\ foot # Fence /\ foot # p
      /\ p # 1 /\ p # Fence /\ p >= First
  <2>1. /\ p \in Int /\ size[p] \in Int /\ size[p] >= 2 /\ p # 1 /\ p # Fence /\ p >= First
        /\ q \in Int /\ size[q] \in Int /\ size[q] >= 2
        /\ FootLoc(q, size[q]) \in Words /\ FootLoc(q, size[q]) \notin heads
        /\ FootLoc(q, size[q]) # 1 /\ FootLoc(q, size[q]) # Fence
    BY <1>1, <1>2, Geometry, Constants
  <2>2. foot = FootLoc(q, size[q]) /\ foot = e - 1
    BY <2>1 DEF FootLoc, MergedSize
  <2> QED
    BY <2>1, <2>2, <1>1
<1>4. \A x \in heads : /\ x \in Int /\ size[x] \in Int
                       /\ FootLoc(x, size[x]) \notin heads
                       /\ x # q => FootLoc(x, size[x]) # foot
                       /\ x # p => x + size[x] # q
  <2>1. \A x \in heads : /\ x \in Int /\ size[x] \in Int
                         /\ FootLoc(x, size[x]) \notin heads
                         /\ FootLoc(x, size[x]) = x + size[x] - 1
    BY <1>1, Geometry
  <2>2. \A x \in heads : x # q => FootLoc(x, size[x]) # FootLoc(q, size[q])
    BY <1>1, <1>2, Geometry
  <2>3. \A x \in heads : x # p => FootLoc(x, size[x]) # FootLoc(p, size[p])
    BY <1>1, Geometry
  <2> QED
    BY <2>1, <2>2, <2>3, <1>1, <1>3
<1>5. /\ link[q] \in Free /\ rlink[q] \in Free /\ (link[q] = q <=> rlink[q] = q)
      /\ Free \subseteq heads
  BY <1>1, <1>2 DEF ListInv, Linked, Free
<1>6. /\ rlink' = [rlink EXCEPT ![link[q]] = p, ![p] = next]
      /\ link' = [link EXCEPT ![p] = link[q], ![next] = p, ![foot] = p]
      /\ size' = [size EXCEPT ![p] = e - p]
      /\ tag' = [tag EXCEPT ![p] = TRUNCK_FREE, ![foot] = TRUNCK_FREE]
      /\ heads' = heads \ {q} /\ pav' = pav /\ pav # q
  <2> DEFINE after == [rlink EXCEPT ![link[q]] = p]
  <2>1. after[q] = next
    BY <1>1, <1>2, <1>5 DEF TypeOK
  <2>2. MergedSize(p) = e - p
    BY <1>3 DEF MergedSize
  <2>3. /\ rlink' = [after EXCEPT ![p] = after[q]]
        /\ link' = [[link EXCEPT ![p] = link[q]] EXCEPT ![after[q]] = p, ![foot] = p]
        /\ size' = [size EXCEPT ![p] = MergedSize(p)]
        /\ tag' = [tag EXCEPT ![p] = TRUNCK_FREE, ![foot] = TRUNCK_FREE]
        /\ Merge(p, {q}) /\ pav' = pav
    BY DEF ReclaimRight, Undefined
  <2>4. heads' = heads \ {q} /\ pav # q
    BY <2>3 DEF Merge
  <2> HIDE DEF foot, next, q
  <2>5. rlink' = [rlink EXCEPT ![link[q]] = p, ![p] = next]
    BY <2>1, <2>3
  <2>6. link' = [link EXCEPT ![p] = link[q], ![next] = p, ![foot] = p]
    BY <2>1, <2>3
  <2> QED
    BY <2>2, <2>3, <2>4, <2>5, <2>6
<1>7. next \in heads /\ next # foot /\ next \in Words
  BY <1>1, <1>3, <1>5
<1> HIDE DEF foot, e, q, next
<1>8. \A x \in Words : tag'[x] = IF x \in {p, foot} THEN TRUNCK_FREE ELSE tag[x]
  BY <1>6 DEF TypeOK
<1>9. \A x \in Words :
        link'[x] = IF x = foot THEN p ELSE IF x = next THEN p
                   ELSE IF x = p THEN link[q] ELSE link[x]
  BY <1>6 DEF TypeOK
<1>10. \A x \in Words :
         rlink'[x] = IF x = p THEN next ELSE IF x = link[q] THEN p ELSE rlink[x]
  BY <1>6 DEF TypeOK
<1>11. \A x \in Words : size'[x] = IF x = p THEN e - p ELSE size[x]
  BY <1>6 DEF TypeOK
<1>12. Free' = (Free \ {q}) \cup {p} /\ q \notin Held
  BY <1>1, <1>2, <1>6 DEF Free
<1>13. Tiled' /\ Kept'
  <2>1. e \in heads \cup {Fence} /\ e # q
    BY <1>1, <1>2, <1>3 DEF Tiled, e
  <2>2. ASSUME NEW y \in heads' PROVE y <= p \/ e <= y
    <3>1. y \in heads /\ y # q
      BY <1>6
    <3>2. (y <= p \/ q <= y) /\ (y <= q \/ e <= y)
      BY <3>1, <1>1, <1>2 DEF Tiled, e, q
    <3> QED
      BY <3>1, <3>2, <1>3, <1>4
  <2>3. /\ p \notin Held' /\ tag'[p] = TRUNCK_FREE /\ link'[e - 1] = p
        /\ size'[p] = e - p /\ e - p >= 2 /\ e \in Int
    <3>1. e - p >= 2
      BY <1>3 DEF e, q
    <3> QED
      BY <3>1, <1>1, <1>3, <1>8, <1>9, <1>11
  <2>4. ASSUME NEW x \in heads' \ {p}
        PROVE  /\ x \in Held' <=> x \in Held
               /\ size'[x] = size[x] /\ tag'[x] = tag[x] /\ asked'[x] = asked[x]
               /\ tag'[FootLoc(x, size[x])] = tag[FootLoc(x, size[x])]
               /\ link'[FootLoc(x, size[x])] = link[FootLoc(x, size[x])]
    <3>1. x \in heads /\ x # p /\ x # q /\ x \in Words /\ FootLoc(x, size[x]) \in Words
      BY <1>1, <1>6
    <3>2. FootLoc(x, size[x]) \notin heads \cup {foot} /\ x # foot
      BY <3>1, <1>3, <1>4
    <3>3. FootLoc(x, size[x]) # p /\ FootLoc(x, size[x]) # next
      BY <3>2, <1>1, <1>7
    <3>4. tag'[x] = tag[x] /\ tag'[FootLoc(x, size[x])] = tag[FootLoc(x, size[x])]
      BY <3>1, <3>2, <3>3, <1>8
    <3>5. link'[FootLoc(x, size[x])] = link[FootLoc(x, size[x])]
      BY <3>1, <3>2, <3>3, <1>9
    <3> QED
      BY <3>1, <3>4, <3>5, <1>1, <1>11
  <2>5. tag'[1] = tag[1] /\ tag'[Fence] = tag[Fence]
    BY <1>1, <1>3, <1>8
  <2>6. TypeOK /\ Tiled /\ Kept /\ p \in heads
    BY <1>1
  <2>7. /\ heads' = heads \ {q} /\ {q} \in SUBSET (heads \ {p}) /\ First \notin {q}
        /\ e \in heads' \cup {Fence}
        /\ \A x \in heads' \ {p} : x + size[x] \notin {q}
        /\ Held' \subseteq heads'
    <3>1. q # First
      BY <1>3, Constants DEF q
    <3> QED
      BY <3>1, <2>1, <1>1, <1>2, <1>4, <1>6, <1>12
  <2> QED
    BY <2>2, <2>3, <2>4, <2>5, <2>6, <2>7, Merged
<1>14. ListInv' /\ Cycle'
  <2>1. Linked(Free, rlink, link) /\ p \notin Free
    BY <1>1 DEF ListInv
  <2>2. \A x \in Free : x \in Words /\ x # foot /\ x # p /\ x \in heads
    BY <1>1, <1>3, <1>5
  <2>3. rlink'[p] = IF rlink[q] = q THEN p ELSE rlink[q]
    BY <1>5, <1>10 DEF next
  <2>4. link'[p] = IF link[q] = q THEN p ELSE link[q]
    BY <2>2, <1>3, <1>5, <1>9 DEF next
  <2>5. \A x \in Free \ {q} : rlink'[x] = IF x = link[q] THEN p ELSE rlink[x]
    BY <2>2, <1>10
  <2>6. \A x \in Free \ {q} : link'[x] = IF x = rlink[q] THEN p ELSE link[x]
    BY <2>2, <1>5, <1>9 DEF next
  <2>7. /\ Linked((Free \ {q}) \cup {p}, rlink', link')
        /\ OneCycle(Free, rlink) => OneCycle((Free \ {q}) \cup {p}, rlink')
    BY <2>1, <2>3, <2>4, <2>5, <2>6, <1>2, Replaced
  <2>8. pav' \in Free' \/ pav' = NULL
    BY <1>1, <1>6, <1>12
  <2>9. ASSUME pav' = NULL PROVE \A x \in Free' : rlink'[x] = x
    <3>1. \A x \in Free : rlink[x] = x
      BY <2>9, <1>1, <1>6 DEF ListInv
    <3>2. rlink[q] = q /\ link[q] = q
      BY <3>1, <1>2, <1>5
    <3> QED
      BY <3>1, <3>2, <2>3, <2>5, <1>12
  <2> QED
    BY <2>7, <2>8, <2>9, <1>1, <1>6, <1>12 DEF ListInv, Cycle
<1> QED
  BY <1>1, <1>13, <1>14 DEF Order

(* The free left neighbour takes the words of the block. *)
LEMMA LeftStep ==
    ASSUME TypeOK, Order, NEW p \in Words, ReclaimLeft(p), arena' = "sound"
    PROVE  Order'
<1> DEFINE q == link[p - 1]
           e == p + size[p]
           foot == FootLoc(p, size[p])
<1>1. /\ Tiled /\ Kept /\ ListInv /\ Cycle
      /\ Path' /\ Single'
      /\ p \in heads /\ p \in Held /\ p \notin Free
      /\ Held' = Held \ {p} /\ Held \subseteq heads
      /\ pav = NULL \/ pav \in Free
      /\ \A x \in Words : asked'[x] = IF x = p THEN 0 ELSE asked[x]
      /\ \A x \in heads : x \in Words /\ FootLoc(x, size[x]) \in Words
      /\ 1 \in Words /\ Fence \in Words
  BY Released DEF ReclaimLeft, Reclaim
<1>2. q \in Free /\ q \in heads /\ p # q /\ q + size[q] = p /\ q \notin Held
  <2>1. tag[p - 1] # TRUNCK_OCCUPY
    BY DEF ReclaimLeft, LeftIs, TRUNCK_FREE, TRUNCK_OCCUPY
  <2> QED
    BY <2>1, <1>1, LeftFreeBlock DEF Free
<1>3. /\ p \in Int /\ size[p] \in Int /\ size[p] >= 2
      /\ q \in Int /\ size[q] \in Int /\ size[q] >= 2 /\ q >= First
      /\ e \in Int /\ foot = e - 1
      /\ foot \in Words /\ foot \notin heads /\ foot # 1 /\ foot # Fence
      /\ q \in Words
  BY <1>1, <1>2, Geometry
<1>4. \A x \in heads : /\ x \in Int /\ size[x] \in Int
                       /\ FootLoc(x, size[x]) \notin heads
                       /\ x # p => FootLoc(x, size[x]) # foot
                       /\ x # q => x + size[x] # p
  <2>1. \A x \in heads : /\ x \in Int /\ size[x] \in Int
                         /\ FootLoc(x, size[x]) \notin heads
                         /\ x # p => FootLoc(x, size[x]) # foot
                         /\ FootLoc(x, size[x]) = x + size[x] - 1
    BY <1>1, Geometry
  <2>2. \A x \in heads : x # q => FootLoc(x, size[x]) # FootLoc(q, size[q])
    BY <1>1, <1>2, Geometry
  <2> QED
    BY <2>1, <2>2, <1>2
<1>5. /\ size' = [size EXCEPT ![q] = e - q]
      /\ tag' = [tag EXCEPT ![foot] = TRUNCK_FREE]
      /\ link' = [link EXCEPT ![foot] = q]
      /\ heads' = heads \ {p} /\ rlink' = rlink /\ pav' = pav
  <2>1. size[q] + size[p] = e - q /\ FootLoc(q, size[q] + size[p]) = foot
    BY <1>2, <1>3 DEF FootLoc
  <2>2. /\ size' = [size EXCEPT ![q] = size[q] + size[p]]
        /\ tag' = [tag EXCEPT ![FootLoc(q, size[q] + size[p])] = TRUNCK_FREE]
        /\ link' = [link EXCEPT ![FootLoc(q, size[q] + size[p])] = q]
        /\ Merge(p, {p}) /\ rlink' = rlink /\ pav' = pav
    BY DEF ReclaimLeft, Undefined
  <2> HIDE DEF foot, e, q
  <2> QED
    BY <2>1, <2>2 DEF Merge
<1> HIDE DEF foot, e, q
<1>6. \A x \in Words : /\ size'[x] = IF x = q THEN e - q ELSE size[x]
                       /\ tag'[x] = IF x = foot THEN TRUNCK_FREE ELSE tag[x]
                       /\ link'[x] = IF x = foot THEN q ELSE link[x]
  BY <1>5 DEF TypeOK
<1>7. Free' = Free
  BY <1>1, <1>5 DEF Free
<1>8. Tiled' /\ Kept'
  <2>1. e \in heads \cup {Fence} /\ e # p
    BY <1>1, <1>3 DEF Tiled, e
  <2>2. ASSUME NEW y \in heads' PROVE y <= q \/ e <= y
    <3>1. y \in heads /\ y # p
      BY <1>5
    <3>2. (y <= q \/ p <= y) /\ (y <= p \/ e <= y)
      BY <3>1, <1>1, <1>2 DEF Tiled, e
    <3> QED
      BY <3>1, <3>2, <1>3, <1>4
  <2>3. /\ q \notin Held' /\ tag'[q] = TRUNCK_FREE /\ link'[e - 1] = q
        /\ size'[q] = e - q /\ e - q >= 2 /\ e \in Int
    <3>1. e - q >= 2
      BY <1>2, <1>3 DEF e
    <3>2. q \notin Held' /\ tag[q] = TRUNCK_FREE
      BY <1>1, <1>2 DEF Tiled
    <3> QED
      BY <3>1, <3>2, <1>2, <1>3, <1>6
  <2>4. ASSUME NEW x \in heads' \ {q}
        PROVE  /\ x \in Held' <=> x \in Held
               /\ size'[x] = size[x] /\ tag'[x] = tag[x] /\ asked'[x] = asked[x]
               /\ tag'[FootLoc(x, size[x])] = tag[FootLoc(x, size[x])]
               /\ link'[FootLoc(x, size[x])] = link[FootLoc(x, size[x])]
    <3>1. x \in heads /\ x # q /\ x # p /\ x \in Words /\ FootLoc(x, size[x]) \in Words
      BY <1>1, <1>5
    <3>2. FootLoc(x, size[x]) # foot /\ x # foot
      BY <3>1, <1>3, <1>4
    <3> QED
      BY <3>1, <3>2, <1>1, <1>6
  <2>5. tag'[1] = tag[1] /\ tag'[Fence] = tag[Fence]
    BY <1>1, <1>3, <1>6
  <2>6. TypeOK /\ Tiled /\ Kept
    BY <1>1
  <2>7. /\ heads' = heads \ {p} /\ {p} \in SUBSET (heads \ {q}) /\ First \notin {p}
        /\ e \in heads' \cup {Fence}
        /\ \A x \in heads' \ {q} : x + size[x] \notin {p}
        /\ Held' \subseteq heads'
    <3>1. p # First
      BY <1>2, <1>3, Constants
    <3> QED
      BY <3>1, <2>1, <1>1, <1>2, <1>4, <1>5
  <2> QED
    BY <2>2, <2>3, <2>4, <2>5, <2>6, <2>7, <1>2, Merged
<1>9. ListInv' /\ Cycle'
  <2>1. \A x \in Free : link'[x] = link[x]
    BY <1>1, <1>3, <1>6 DEF Free
  <2>2. Linked(Free', rlink', link')
    BY <2>1, <1>1, <1>5, <1>7 DEF ListInv, Linked
  <2> QED
    BY <2>2, <1>1, <1>5, <1>7 DEF ListInv, Cycle
<1> QED
  BY <1>1, <1>8, <1>9 DEF Order

(* The free left neighbour takes the words of the block and of the right     *)
(* neighbour, which leaves the list.  The right neighbour was free, because  *)
(* the arena is not broken; then so was the left one, whatever its tag said. *)
LEMMA BothStep ==
    ASSUME TypeOK, Order, NEW p \in Words, ReclaimBoth(p), arena' = "sound"
    PROVE  Order'
<1> DEFINE r == p + size[p]
           q == link[p - 1]
           e == r + size[r]
           foot == FootLoc(r, size[r])
<1>1. /\ Tiled /\ Kept /\ ListInv /\ Cycle
      /\ Path' /\ Single'
      /\ p \in heads /\ p \in Held /\ p \notin Free
      /\ Held' = Held \ {p} /\ Held \subseteq heads
      /\ pav = NULL \/ pav \in Free
      /\ \A x \in Words : asked'[x] = IF x = p THEN 0 ELSE asked[x]
      /\ \A x \in heads : x \in Words /\ FootLoc(x, size[x]) \in Words
      /\ 1 \in Words /\ Fence \in Words
  BY Released DEF ReclaimBoth, Reclaim
<1>2. p \in Int /\ size[p] \in Int /\ size[p] >= 2 /\ r \in Words /\ r # p
  BY <1>1, Geometry
<1>3. Merge(p, {p, r}) /\ ~Undefined
  BY DEF ReclaimBoth, Undefined
<1>4. r \in Free /\ r \in heads /\ r \notin Held /\ pav \notin {p, r} /\ heads' = heads \ {p, r}
  BY <1>2, <1>3 DEF Merge, Free
<1>5. q \in Free /\ q \in heads /\ p # q /\ q + size[q] = p /\ q \notin Held
  <2>1. tag[r] = TRUNCK_FREE
    BY <1>1, <1>4 DEF Tiled
  <2>2. RightIs(p, TRUNCK_FREE)
    BY <2>1, <1>2 DEF RightIs
  <2>3. p - 1 \in Words
    BY <1>1, Geometry, Constants
  <2>4. tag[p - 1] # TRUNCK_OCCUPY
    BY <2>2, <2>3 DEF ReclaimBoth, LeftIs
  <2> QED
    BY <2>4, <1>1, LeftFreeBlock DEF Free
<1>6. /\ q \in Int /\ size[q] \in Int /\ size[q] >= 2 /\ q >= First /\ q \in Words
      /\ r \in Int /\ size[r] \in Int /\ size[r] >= 2
      /\ e \in Int /\ foot = e - 1
      /\ foot \in Words /\ foot \notin heads /\ foot # 1 /\ foot # Fence
      /\ q # 1 /\ q # Fence
  BY <1>1, <1>4, <1>5, Geometry
<1>7. \A x \in heads : /\ x \in Int /\ size[x] \in Int
                       /\ FootLoc(x, size[x]) \notin heads
                       /\ x # r => FootLoc(x, size[x]) # foot
                       /\ x # q => x + size[x] # p
                       /\ x # p => x + size[x] # r
  <2>1. \A x \in heads : /\ x \in Int /\ size[x] \in Int
                         /\ FootLoc(x, size[x]) \notin heads
                         /\ FootLoc(x, size[x]) = x + size[x] - 1
    BY <1>1, Geometry
  <2>2. \A x \in heads : x # q => FootLoc(x, size[x]) # FootLoc(q, size[q])
    BY <1>1, <1>5, Geometry
  <2>3. \A x \in heads : x # p => FootLoc(x, size[x]) # FootLoc(p, size[p])
    BY <1>1, Geometry
  <2>4. \A x \in heads : x # r => FootLoc(x, size[x]) # FootLoc(r, size[r])
    BY <1>1, <1>4, Geometry
  <2>5. FootLoc(q, size[q]) = p - 1 /\ FootLoc(p, size[p]) = r - 1
    BY <2>1, <1>1, <1>5
  <2> HIDE DEF q, r
  <2> QED
    BY <2>1, <2>2, <2>3, <2>4, <2>5
<1>8. link[r] \in Free /\ rlink[r] \in Free /\ Free \subseteq heads /\ rlink[r] # foot
  BY <1>1, <1>4, <1>6 DEF ListInv, Linked, Free
<1>9. p - 1 \in Words /\ p - 1 \notin heads
  <2>1. FootLoc(q, size[q]) = p - 1 /\ FootLoc(q, size[q]) \in Words /\ FootLoc(q, size[q]) \notin heads
    BY <1>1, <1>5, Geometry
  <2> QED
    BY <2>1
<1>10. /\ rlink' = [rlink EXCEPT ![link[r]] = rlink[r]]
       /\ link' = [link EXCEPT ![rlink[r]] = link[r], ![foot] = q]
       /\ size' = [size EXCEPT ![q] = e - q]
       /\ tag' = [tag EXCEPT ![foot] = TRUNCK_FREE, ![q] = TRUNCK_FREE]
       /\ pav' = pav
  <2> DEFINE before == [link EXCEPT ![rlink[r]] = link[r]]
             b == before[p - 1]
             grown == [size EXCEPT ![b] = @ + size[p]]
             both == [grown EXCEPT ![b] = @ + grown[p + grown[p]]]
             last == FootLoc(b, both[b])
  <2>1. /\ rlink' = [rlink EXCEPT ![link[r]] = rlink[r]]
        /\ link' = [before EXCEPT ![last] = b]
        /\ size' = both
        /\ tag' = [tag EXCEPT ![last] = TRUNCK_FREE, ![b] = TRUNCK_FREE]
        /\ pav' = pav
    BY <1>3 DEF ReclaimBoth, UnlinkRight
  <2>2. b = q
    BY <1>8, <1>9 DEF TypeOK
  <2>3. grown = [size EXCEPT ![q] = size[q] + size[p]]
    BY <2>2
  <2> HIDE DEF b, grown
  <2>4. grown[p] = size[p]
    BY <2>3, <1>5 DEF TypeOK
  <2>5. grown[r] = size[r] /\ grown[q] = size[q] + size[p]
    BY <2>3, <1>2, <1>5, <1>6 DEF TypeOK
  <2>6. both = [grown EXCEPT ![q] = size[q] + size[p] + size[r]]
    BY <2>2, <2>4, <2>5
  <2> HIDE DEF both
  <2>7. size[q] + size[p] + size[r] = e - q
    BY <1>2, <1>5, <1>6
  <2>8. both = [size EXCEPT ![q] = e - q] /\ both[q] = e - q
    BY <2>3, <2>6, <2>7, <1>6 DEF TypeOK
  <2>9. last = foot
    BY <2>2, <2>8, <1>6 DEF FootLoc
  <2> HIDE DEF last
  <2> QED
    BY <2>1, <2>2, <2>8, <2>9
<1>11. p \in Int /\ r = p + size[p] /\ e = r + size[r] /\ q < p /\ p < r
  BY <1>2, <1>5, <1>6
<1> HIDE DEF foot, e, q, r
<1>12. \A x \in Words : /\ size'[x] = IF x = q THEN e - q ELSE size[x]
                        /\ tag'[x] = IF x \in {q, foot} THEN TRUNCK_FREE ELSE tag[x]
                        /\ link'[x] = IF x = foot THEN q ELSE IF x = rlink[r] THEN link[r] ELSE link[x]
                        /\ rlink'[x] = IF x = link[r] THEN rlink[r] ELSE rlink[x]
  <2> USE <1>10 DEF TypeOK
  <2>1. \A x \in Words : size'[x] = IF x = q THEN e - q ELSE size[x]
    OBVIOUS
  <2>2. \A x \in Words : tag'[x] = IF x \in {q, foot} THEN TRUNCK_FREE ELSE tag[x]
    OBVIOUS
  <2>3. \A x \in Words :
          link'[x] = IF x = foot THEN q ELSE IF x = rlink[r] THEN link[r] ELSE link[x]
    OBVIOUS
  <2>4. \A x \in Words : rlink'[x] = IF x = link[r] THEN rlink[r] ELSE rlink[x]
    OBVIOUS
  <2> QED
    BY <2>1, <2>2, <2>3, <2>4
<1>13. Free' = Free \ {r}
  BY <1>1, <1>4 DEF Free
<1>14. Tiled' /\ Kept'
  <2>1. e \in heads \cup {Fence} /\ e # p /\ e # r
    <3>1. e \in heads \cup {Fence}
      BY <1>1, <1>4 DEF Tiled, e
    <3> QED
      BY <3>1, <1>6, <1>11
  <2>2. ASSUME NEW y \in heads' PROVE y <= q \/ e <= y
    <3>1. y \in heads /\ y # p /\ y # r
      BY <1>4
    <3>2. (y <= q \/ p <= y) /\ (y <= p \/ r <= y) /\ (y <= r \/ e <= y)
      BY <3>1, <1>1, <1>4, <1>5 DEF Tiled, e, r
    <3> QED
      BY <3>1, <3>2, <1>6, <1>7, <1>11
  <2>3. /\ q \notin Held' /\ tag'[q] = TRUNCK_FREE /\ link'[e - 1] = q
        /\ size'[q] = e - q /\ e - q >= 2 /\ e \in Int
    <3>1. e - q >= 2
      BY <1>6, <1>11
    <3> QED
      BY <3>1, <1>1, <1>5, <1>6, <1>12
  <2>4. ASSUME NEW x \in heads' \ {q}
        PROVE  /\ x \in Held' <=> x \in Held
               /\ size'[x] = size[x] /\ tag'[x] = tag[x] /\ asked'[x] = asked[x]
               /\ tag'[FootLoc(x, size[x])] = tag[FootLoc(x, size[x])]
               /\ link'[FootLoc(x, size[x])] = link[FootLoc(x, size[x])]
    <3>1. x \in heads /\ x # q /\ x \notin {p, r} /\ x \in Words /\ FootLoc(x, size[x]) \in Words
      BY <1>1, <1>4
    <3>2. FootLoc(x, size[x]) \notin heads \cup {foot} /\ x # foot
      BY <3>1, <1>6, <1>7
    <3>3. FootLoc(x, size[x]) # q /\ FootLoc(x, size[x]) # rlink[r]
      BY <3>2, <1>5, <1>8
    <3>4. tag'[x] = tag[x] /\ tag'[FootLoc(x, size[x])] = tag[FootLoc(x, size[x])]
      BY <3>1, <3>2, <3>3, <1>12
    <3>5. link'[FootLoc(x, size[x])] = link[FootLoc(x, size[x])]
      BY <3>1, <3>2, <3>3, <1>12
    <3> QED
      BY <3>1, <3>4, <3>5, <1>1, <1>12
  <2>5. tag'[1] = tag[1] /\ tag'[Fence] = tag[Fence]
    BY <1>1, <1>6, <1>12
  <2>6. TypeOK /\ Tiled /\ Kept
    BY <1>1
  <2>7. /\ heads' = heads \ {p, r} /\ {p, r} \in SUBSET (heads \ {q}) /\ First \notin {p, r}
        /\ e \in heads' \cup {Fence}
        /\ \A x \in heads' \ {q} : x + size[x] \notin {p, r}
        /\ Held' \subseteq heads'
    <3>1. p # First /\ r # First /\ q # r
      BY <1>6, <1>11, Constants
    <3>2. \A x \in heads' \ {q} : x \in heads /\ x # p
      BY <1>4
    <3> QED
      BY <3>1, <3>2, <2>1, <1>1, <1>4, <1>5, <1>7
  <2> QED
    BY <2>2, <2>3, <2>4, <2>5, <2>6, <2>7, <1>5, Merged
<1>15. ListInv' /\ Cycle'
  <2>1. \A x \in Free \ {r} : x \in Words /\ x # foot
    BY <1>1, <1>6, <1>8
  <2>2. /\ \A x \in Free \ {r} : rlink'[x] = IF x = link[r] THEN rlink[r] ELSE rlink[x]
        /\ \A x \in Free \ {r} : link'[x] = IF x = rlink[r] THEN link[r] ELSE link[x]
    BY <2>1, <1>12
  <2>3. Linked(Free, rlink, link)
    BY <1>1 DEF ListInv
  <2>4. /\ Linked(Free \ {r}, rlink', link')
        /\ OneCycle(Free, rlink) => OneCycle(Free \ {r}, rlink')
    BY <2>2, <2>3, <1>4, Removed
  <2>5. pav' \in Free' \/ pav' = NULL
    BY <1>1, <1>4, <1>10, <1>13
  <2>6. ASSUME pav' = NULL PROVE \A x \in Free' : rlink'[x] = x
    <3>1. \A x \in Free : rlink[x] = x
      BY <2>6, <1>1, <1>10 DEF ListInv
    <3>2. link[r] = r
      BY <3>1, <2>3, <1>4 DEF Linked
    <3> QED
      BY <3>1, <3>2, <2>2, <1>13
  <2> QED
    BY <2>4, <2>5, <2>6, <1>1, <1>10, <1>13 DEF ListInv, Cycle
<1> QED
  BY <1>1, <1>14, <1>15 DEF Order

-------------------------------------------------------------------------------
LEMMA OrderStep ==
    ASSUME TypeOK, Order, [Next]_vars, arena' = "sound"
    PROVE  Order'
<1>1. ASSUME NEW n \in Requests, AllocCall(n) PROVE Order'
  BY <1>1, SearchStep
<1>2. CASE AllocSearch
  BY <1>2, SearchStep
<1>3. CASE AllocRefused
  BY <1>3, SearchStep
<1>4. CASE AllocWhole
  BY <1>4, WholeStep
<1>5. CASE AllocSplit
  BY <1>5, SplitStep
<1>6. ASSUME NEW p \in Words,
             ReclaimAlone(p) \/ ReclaimRight(p) \/ ReclaimLeft(p) \/ ReclaimBoth(p)
      PROVE  Order'
  BY <1>6, AloneStep, RightStep, LeftStep, BothStep
<1>7. ASSUME NEW p \in Words, ReclaimIgnored(p) PROVE Order'
  <2>1. UNCHANGED <<fields, pav, heads, callers, search>>
    BY <1>7, IgnoredStep
  <2>2. Path'
    BY <2>1 DEF Order, Path, fields, search, callers, Free, Held
  <2> QED
    BY <2>1, <2>2, SameBlocks DEF fields, callers
<1>8. ASSUME NEW p \in Words, NEW w \in Words, NEW d \in Data, HolderWrites(p, w, d)
      PROVE  Order'
  BY <1>8, HolderStep
<1>9. CASE UNCHANGED vars
  BY <1>9, SearchStep
<1> QED
  BY <1>1, <1>2, <1>3, <1>4, <1>5, <1>6, <1>7, <1>8, <1>9 DEF Next

LEMMA InvNext == Inv /\ [Next]_vars => Inv'
BY TypeStep, ArenaStep, OrderStep DEF Inv, Sound

LEMMA InvAlways == Spec => []Inv
BY InvInit, InvNext, PTL DEF Spec

(* A search whose next block is the first one has closed the only cycle.     *)
LEMMA PathMeetsAll ==
    ASSUME Order, want # 0
    PROVE  /\ cursor \in Free \ seen
           /\ \A p \in seen : size[p] < want
           /\ Last => Free = seen \cup {cursor}
<1>1. /\ pav \in Free /\ pav \in seen \cup {cursor}
      /\ cursor \in Free \ seen /\ seen \subseteq Free
      /\ \A p \in seen : rlink[p] \in seen \cup {cursor} /\ size[p] < want
  BY DEF Order, Path
<1>2. OneCycle(Free, rlink)
  <2>1. pav # NULL
    BY <1>1, Constants DEF Order, Tiled, Free
  <2> QED
    BY <2>1 DEF Order, Cycle
<1>3. ASSUME Last PROVE Free = seen \cup {cursor}
  <2> DEFINE S == seen \cup {cursor}
  <2>1. \A p \in S : rlink[p] \in S
    BY <1>1, <1>3 DEF Last
  <2>2. S \in SUBSET Free /\ S # {}
    BY <1>1
  <2> QED
    BY <2>1, <2>2, <1>2 DEF OneCycle
<1> QED
  BY <1>1, <1>3

LEMMA InvImplies ==
    Inv => TypeOK /\ Tiling /\ HoldersKeepWords /\ FreeListLinked /\ SearchMeetsAll
<1> SUFFICES ASSUME Inv
             PROVE  TypeOK /\ Tiling /\ HoldersKeepWords /\ FreeListLinked /\ SearchMeetsAll
  OBVIOUS
<1>1. TypeOK /\ Tiling
  BY DEF Inv, Order, Tiling
<1>2. HoldersKeepWords
  <2>1. SUFFICES ASSUME Sound, NEW p \in Held
                 PROVE  holders[p] = 1 /\ size[p] - asked[p] \in 0..MIN_MEMORY_MARGIN
    BY DEF HoldersKeepWords
  <2>2. size[p] - asked[p] \in 0..MIN_MEMORY_MARGIN
    BY <2>1 DEF Inv, Order, Kept
  <2>3. holders[p] = 1
    BY <2>1 DEF Inv, Order, Single, Held
  <2> QED
    BY <2>2, <2>3
<1>3. FreeListLinked
  BY DEF Inv, Order, ListInv, Linked, FreeListLinked
<1>4. SearchMeetsAll
  BY PathMeetsAll DEF Inv, SearchMeetsAll
<1> QED
  BY <1>1, <1>2, <1>3, <1>4

(* Every field stays in its range, on a broken arena too: until a call is    *)
(* undefined, the code of AllocBoundTag and ReclaimBoundTag writes inside    *)
(* the arena only.                                                           *)
THEOREM TypeCorrect == Spec => []TypeOK
BY InvAlways, InvImplies, PTL

(* Splits, merges and what holders write keep the arena cut into disjoint    *)
(* blocks whose tags tell who is free, until a release merges the block      *)
(* that *pav points to, or a held one.                                       *)
THEOREM TilingCorrect == Spec => []Tiling
BY InvAlways, InvImplies, PTL

(* Until then a holder is alone and keeps its words until it releases them.  *)
THEOREM HoldersCorrect == Spec => []HoldersKeepWords
BY InvAlways, InvImplies, PTL

(* Until then the free blocks stay doubly linked, and blocks are leaked only *)
(* after the arena was once handed out completely.                           *)
THEOREM FreeListCorrect == Spec => []FreeListLinked
BY InvAlways, InvImplies, PTL

(* Until then AllocBoundTag ends its search at a block that fits or after    *)
(* all of them.                                                              *)
THEOREM SearchCorrect == Spec => []SearchMeetsAll
BY InvAlways, InvImplies, PTL

-------------------------------------------------------------------------------
(* BoundaryTag implements Allocator.                                         *)

(* The abstract state: the requests that the holders of words made.         *)
handed == [w \in First..(Fence - 1) |-> asked[w]]

(* The words inside a free block belong to nobody.                           *)
LEMMA FreeWords ==
    ASSUME TypeOK, Order, NEW p \in Free, NEW q \in Int, NEW n \in Nat,
           p <= q, q + n <= p + size[p]
    PROVE  /\ Blocks!Extent(q, n) \subseteq First..(Fence - 1)
           /\ \A x \in First..(Fence - 1) :
                Blocks!Extent(x, asked[x]) \cap Blocks!Extent(q, n) = {}
<1> USE DEF Blocks!Extent
<1>1. Tiled /\ Kept /\ Single /\ p \in heads /\ p \notin Held
  BY DEF Order, Free
<1>2. First \in Int /\ Fence \in Int
  BY Constants
<1>3. p \in Int /\ p >= First /\ size[p] \in Int /\ p + size[p] <= Fence
  BY <1>1, Geometry
<1>4. Blocks!Extent(q, n) \subseteq First..(Fence - 1)
  BY <1>2, <1>3
<1>5. ASSUME NEW x \in First..(Fence - 1)
      PROVE  Blocks!Extent(x, asked[x]) \cap Blocks!Extent(q, n) = {}
  <2>1. x \in Words /\ x \in Int
    BY Constants
  <2>2. CASE asked[x] = 0
    BY <2>1, <2>2
  <2>3. CASE asked[x] # 0
    <3>1. x \in heads /\ x \in Held /\ x # p
      BY <1>1, <2>1, <2>3 DEF Single, Held, Tiled
    <3>2. /\ size[x] - asked[x] \in 0..MIN_MEMORY_MARGIN
          /\ x + size[x] <= p \/ p + size[p] <= x
      BY <1>1, <3>1, Geometry DEF Kept
    <3>3. size[x] \in Int /\ asked[x] \in Int
      <4>1. size[x] \in Int
        BY <1>1, <3>1, Geometry
      <4>2. asked[x] \in {0} \cup Requests
        BY <2>1 DEF TypeOK
      <4> QED
        BY <4>1, <4>2, Constants
    <3>4. asked[x] <= size[x]
      BY <3>2, <3>3, Constants
    <3> QED
      BY <3>2, <3>3, <3>4, <2>1, <1>3
  <2> QED
    BY <2>2, <2>3
<1> QED
  BY <1>4, <1>5

LEMMA AllocatorInit == Init => Blocks!Init
<1> SUFFICES ASSUME Init PROVE Blocks!Init
  OBVIOUS
<1>1. \A w \in First..(Fence - 1) : asked[w] = 0
  BY Constants DEF Init
<1>2. arena = "sound"
  BY DEF Init
<1> QED
  BY <1>1, <1>2 DEF Blocks!Init, Sound

(* A request is granted words of a free block.                               *)
LEMMA GrantStep ==
    ASSUME TypeOK, Order, Sound, Sound',
           NEW p \in Free, NEW q \in Int, NEW n \in Requests,
           p <= q, q + n <= p + size[p],
           asked' = [asked EXCEPT ![q] = n]
    PROVE  Blocks!Next
<1> DEFINE Arena == First..(Fence - 1)
           held == handed
<1>1. n \in Nat /\ n >= 2 /\ asked \in [Words -> {0} \cup Requests]
  BY Constants DEF TypeOK
<1>2. /\ Blocks!Extent(q, n) \subseteq Arena
      /\ \A x \in Arena : Blocks!Extent(x, asked[x]) \cap Blocks!Extent(q, n) = {}
  BY <1>1, FreeWords
<1>3. q \in Arena
  BY <1>1, <1>2 DEF Blocks!Extent
<1>4. \A w \in Arena : w \in Words
  BY Constants
<1>5. [w \in Arena |-> asked'[w]] = [held EXCEPT ![q] = n]
  BY <1>1, <1>3, <1>4 DEF handed
<1>6. \A x \in Arena : held[x] = asked[x]
  BY DEF handed
<1>7. Blocks!Grant(q, n)
  BY <1>2, <1>5, <1>6 DEF Blocks!Grant, handed
<1> QED
  BY <1>3, <1>7 DEF Blocks!Next

(* A release takes the words of its caller, whether it breaks the arena or   *)
(* not.                                                                      *)
LEMMA ReleaseStep ==
    ASSUME TypeOK, Order, Sound, NEW p \in Words, Release(p)
    PROVE  Blocks!Next
<1> DEFINE Arena == First..(Fence - 1)
           held == handed
<1>1. asked' = [asked EXCEPT ![p] = 0] /\ asked[p] # 0 /\ p \in heads /\ Tiled
  BY Released
<1>2. p \in Arena /\ asked \in [Words -> {0} \cup Requests]
  BY <1>1 DEF TypeOK, Tiled
<1>3. \A w \in Arena : w \in Words
  BY Constants
<1>4. [w \in Arena |-> asked'[w]] = [held EXCEPT ![p] = 0] /\ held[p] # 0
  BY <1>1, <1>2, <1>3 DEF handed
<1>5. Blocks!Release(p)
  BY <1>4 DEF Blocks!Release, handed
<1> QED
  BY <1>2, <1>5 DEF Blocks!Next

LEMMA AllocatorStep ==
    ASSUME Inv, [Next]_vars
    PROVE  [Blocks!Next]_<<handed, Sound>>
<1>1. CASE ~Sound
  <2>1. ~Sound'
    BY <1>1, ArenaStep
  <2> QED
    BY <1>1, <2>1 DEF Blocks!Next
<1>2. CASE UNCHANGED <<asked, arena>>
  BY <1>2 DEF handed, Sound
<1>3. CASE Sound
  <2>1. TypeOK /\ Order /\ arena = "sound"
    BY <1>3 DEF Inv, Sound
  <2>2. ASSUME NEW n \in Requests, AllocCall(n) PROVE UNCHANGED <<asked, arena>>
    BY <2>2 DEF AllocCall, callers
  <2>3. ASSUME AllocSearch PROVE UNCHANGED <<asked, arena>>
    BY <2>1, <2>3, AllocDefined DEF AllocSearch, callers
  <2>4. ASSUME AllocRefused PROVE UNCHANGED <<asked, arena>>
    BY <2>4 DEF AllocRefused, callers, condition
  <2>5. ASSUME AllocWhole \/ AllocSplit PROVE Blocks!Next
    <3>1. arena' = "sound" /\ Sound'
      BY <2>1, <2>5, AllocDefined DEF Sound
    <3>2. /\ want \in Requests /\ cursor \in Free /\ size[cursor] >= want
          /\ cursor \in Int /\ size[cursor] \in Int /\ want \in Int
      <4>1. want # 0 /\ size[cursor] >= want /\ want \in Requests /\ cursor \in Free
        BY <2>1, <2>5 DEF AllocWhole, AllocSplit, Searching, Fits, TypeOK, Order, Path
      <4> QED
        BY <2>1, <4>1, Geometry, Constants DEF Order, Free
    <3>3. CASE AllocWhole
      <4>1. asked' = [asked EXCEPT ![cursor] = want]
        BY <3>1, <3>3 DEF AllocWhole, Undefined, Grant
      <4>2. cursor <= cursor /\ cursor + want <= cursor + size[cursor]
        BY <3>2
      <4> QED
        BY <1>3, <2>1, <3>1, <3>2, <4>1, <4>2, GrantStep
    <3>4. CASE AllocSplit
      <4> DEFINE q == cursor + Rest
      <4>1. asked' = [asked EXCEPT ![q] = want]
        BY <3>1, <3>4 DEF AllocSplit, Undefined, Grant
      <4>2. q \in Int /\ cursor <= q /\ q + want <= cursor + size[cursor]
        BY <3>2 DEF Rest
      <4> HIDE DEF q
      <4> QED
        BY <1>3, <2>1, <3>1, <3>2, <4>1, <4>2, GrantStep
    <3> QED
      BY <2>5, <3>3, <3>4
  <2>6. ASSUME NEW p \in Words,
               ReclaimAlone(p) \/ ReclaimRight(p) \/ ReclaimLeft(p) \/ ReclaimBoth(p)
        PROVE  Blocks!Next
    <3>1. Release(p)
      BY <2>6 DEF ReclaimAlone, ReclaimRight, ReclaimLeft, ReclaimBoth, Reclaim
    <3> QED
      BY <1>3, <2>1, <3>1, ReleaseStep
  <2>7. ASSUME NEW p \in Words, ReclaimIgnored(p) PROVE UNCHANGED <<asked, arena>>
    BY <2>1, <2>7, IgnoredStep DEF callers
  <2>8. ASSUME NEW p \in Words, NEW w \in Words, NEW d \in Data, HolderWrites(p, w, d)
        PROVE  UNCHANGED <<asked, arena>>
    BY <2>8 DEF HolderWrites, callers, condition
  <2>9. ASSUME UNCHANGED vars PROVE UNCHANGED <<asked, arena>>
    BY <2>9 DEF vars, callers, condition
  <2> QED
    BY <1>2, <2>2, <2>3, <2>4, <2>5, <2>6, <2>7, <2>8, <2>9 DEF Next
<1> QED
  BY <1>1, <1>3

(* Whatever sequence of requests and releases its callers make, dynamic      *)
(* memory behaves towards them as Allocator says: AllocBoundTag returns only *)
(* words that nobody holds and ReclaimBoundTag takes words from one holder,  *)
(* until a release merges the block that *pav points to, or a held one.      *)
THEOREM AllocatorCorrect == Spec => AllocatorSpec
<1>1. Inv /\ [Next]_vars => [Blocks!Next]_<<handed, Sound>>
  BY AllocatorStep
<1> QED
  BY InvInit, InvNext, AllocatorInit, <1>1, PTL
  DEF Spec, AllocatorSpec, Blocks!Spec, Blocks!state, handed
===============================================================================
