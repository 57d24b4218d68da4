-------------------------- MODULE BattleShip_proofs --------------------------
(* For every board and every set of boats: the baton is unique, the players   *)
(* alternate, no player is ever asked for a bomb it does not have, and the    *)
(* parent only wins when it has hit both ends of the child's boat.            *)
EXTENDS BattleShip, FiniteSetTheorems, SequenceTheorems, TLAPS

(* The process that will execute the operation named by step.                 *)
Token(p) ==
    \/ ready[p]
    \/ pc[p] \in {"clear", "act"}
    \/ \E q \in Procs : pc[q] = "post" /\ wake[q] = <<p>>

WakeLists == {<<"parent">>, <<"child">>, <<"parent", "child">>}

(* The baton: until the game is over at most one process is active, and a     *)
(* process executes and posts with its own flag down.                         *)
Baton ==
    /\ \A p \in Procs : pc[p] = "start" => step \in {"NONE", "BOAT"}
    /\ pc["parent"] = "start" => ~Active("parent") /\ ~Active("child")
    /\ step # "EXIT" =>
         /\ \A p \in Procs : pc[p] \in {"start", "spin", "clear", "act", "post"}
         /\ \A p \in Procs : pc[p] = "post" => wake[p] \in {<<"parent">>, <<"child">>}
         /\ \A p \in Procs : pc[p] \in {"act", "post"} => ~ready[p]
         /\ \A p \in Procs : pc[p] = "clear" => ready[p]
         /\ ~(Active("parent") /\ Active("child"))

(* The board: what the bombs thrown so far have to do with the marks.         *)
Game ==
    /\ step \in {"NONE", "BOAT"} =>
         /\ victory = 0 /\ bomb_pos = NoCell
         /\ \A p \in Procs : record[p] = {} /\ bomb_flag[p] = {} /\ bomb_num[p] = 0
    /\ step \in {"BOMB", "CHECK", "OVER", "EXIT"} => position["child"] \in Boats
    /\ step \in {"BOMB", "CHECK"} =>
         /\ bomb_flag["child"] # {1, 2}
         /\ \A i \in 1..2 : position["child"][i] \in record["parent"] =>
              \/ i \in bomb_flag["child"]
              \/ step = "CHECK" /\ Token("child") /\ bomb_pos = position["child"][i]
    /\ \A i \in bomb_flag["child"] : position["child"][i] \in record["parent"]
    /\ bomb_pos \in record["parent"] \cup {NoCell}
    /\ ParentWinIsReal

(* The score: bombs are counted by bomb_num, and thrown in turn.              *)
Score ==
    /\ \A p \in Procs : bomb_num[p] = Cardinality(record[p])
    /\ InTurn
    /\ step \in {"BOMB", "CHECK"} /\ Token("parent") => bomb_num["parent"] = bomb_num["child"]
    /\ step \in {"BOMB", "CHECK"} /\ Token("child") => bomb_num["parent"] = bomb_num["child"] + 1

(* The boats: each is placed once, the parent's first.                        *)
Placed ==
    /\ step = "NONE" \/ pc["parent"] = "start" =>
         pc["parent"] = "start" /\ position["parent"] = <<NoCell, NoCell>>
    /\ step \in {"NONE", "BOAT"} => position["child"] = <<NoCell, NoCell>>
    /\ step = "BOAT" /\ Token("parent") => position["parent"] = <<NoCell, NoCell>>
    /\ step = "BOAT" /\ Token("child") => position["parent"] \in Boats

-------------------------------------------------------------------------------
(* Types, together with the shape of the flags still to raise.                *)
Typed == TypeOK /\ \A p \in Procs : pc[p] = "post" => wake[p] \in WakeLists

(* A zeroed record and two processes that have not started.                   *)
LEMMA TypedInit == Init => Typed
<1> SUFFICES ASSUME Init PROVE Typed
  OBVIOUS
<1>1. wake \in [Procs -> Seq(Procs)]
  BY EmptySeq DEF Init
<1>2. bomb_flag \in [Procs -> SUBSET (1..2)] /\ record \in [Procs -> SUBSET Cells]
  BY DEF Init
<1>3. step \in Steps /\ victory \in 0..2 /\ bomb_pos \in Cells \cup {NoCell}
  BY DEF Init, Steps
<1>4. /\ ready \in [Procs -> BOOLEAN] /\ bomb_num \in [Procs -> Nat]
      /\ pc \in [Procs -> Places] /\ position \in [Procs -> Boats \cup {<<NoCell, NoCell>>}]
      /\ \A p \in Procs : pc[p] # "post"
  BY DEF Init, Places
<1> QED BY <1>1, <1>2, <1>3, <1>4 DEF Typed, TypeOK

(* The three lists of flags, taken apart.                                     *)
LEMMA WakeFacts ==
    /\ \A w \in WakeLists : w \in Seq(Procs) /\ Head(w) \in Procs /\ Tail(w) \in Seq(Procs)
    /\ \A w \in WakeLists : Len(w) = 1 \/ Tail(w) \in WakeLists
    /\ \A p \in Procs : Head(<<p>>) = p /\ Len(<<p>>) = 1
    /\ \A w \in WakeLists : Len(w) = 1 => w = <<"parent">> \/ w = <<"child">>
    /\ Len(<<"parent", "child">>) = 2 /\ Head(<<"parent", "child">>) = "parent"
    /\ Tail(<<"parent", "child">>) = <<"child">>
  BY DEF WakeLists, Procs

(* Every operation keeps the types.                                           *)
LEMMA TypedStep == Typed /\ [Next]_vars => Typed'
<1> SUFFICES ASSUME Typed, [Next]_vars PROVE Typed'
  OBVIOUS
<1> USE DEF Typed, TypeOK, Steps, Places
<1>1. ASSUME NEW p \in Procs, ProcNext(p) PROVE Typed'
  <2>1. CASE Start(p)
    <3>1. <<"parent">> \in WakeLists
      BY DEF WakeLists
    <3>2. UNCHANGED <<ready, bomb_num, victory, bomb_pos, position, record, bomb_flag>>
      BY <2>1 DEF Start
    <3>3. step' \in Steps
      BY <2>1 DEF Start
    <3>4. CASE p = "parent"
      <4>1. /\ pc' = [pc EXCEPT ![p] = "post"]
            /\ wake' = [wake EXCEPT ![p] = <<"parent">>]
        BY <2>1, <3>4 DEF Start
      <4>2. <<"parent">> \in Seq(Procs)
        BY <3>1, WakeFacts
      <4> QED BY <3>1, <3>2, <3>3, <4>1, <4>2
    <3>5. CASE p # "parent"
      <4>1. wake' = wake /\ pc' = [pc EXCEPT ![p] = "spin"]
        BY <2>1, <3>5 DEF Start
      <4> QED BY <3>2, <3>3, <4>1
    <3> QED BY <3>4, <3>5
  <2>2. CASE Spin(p)
    BY <2>2 DEF Spin, shared
  <2>3. CASE Clear(p)
    BY <2>3 DEF Clear
  <2>4. ASSUME NEW next \in Steps, NEW w \in WakeLists, Hand(p, next, w)
        PROVE  /\ step' \in Steps /\ ready' \in [Procs -> BOOLEAN]
               /\ pc' \in [Procs -> Places] /\ wake' \in [Procs -> Seq(Procs)]
               /\ \A q \in Procs : pc'[q] = "post" => wake'[q] \in WakeLists
    BY <2>4, WakeFacts DEF Hand
  <2>5. CASE GenerateBoat(p)
    <3>1. <<Other(p)>> \in WakeLists
      BY DEF Other, WakeLists
    <3> QED BY <2>4, <2>5, <3>1 DEF GenerateBoat
  <2>6. CASE GenerateBomb(p)
    <3>1. <<Other(p)>> \in WakeLists
      BY DEF Other, WakeLists
    <3>2. PICK c \in Cells : record' = [record EXCEPT ![p] = @ \cup {c}] /\ Publish(p, c)
      BY <2>6 DEF GenerateBomb
    <3>3. record' \in [Procs -> SUBSET Cells] /\ bomb_pos' \in Cells \cup {NoCell}
      BY <3>2 DEF Publish
    <3> QED BY <2>4, <2>6, <3>1, <3>3 DEF GenerateBomb
  <2>7. CASE CheckBomb(p)
    <3>1. <<"parent">> \in WakeLists /\ <<MissWakes(p)>> \in WakeLists
      BY DEF MissWakes, WakeLists, Procs
    <3>2. bomb_flag' \in [Procs -> SUBSET (1..2)]
      BY <2>7 DEF CheckBomb, Hits
    <3> QED BY <2>4, <2>7, <3>1, <3>2 DEF CheckBomb
  <2>8. CASE Post(p)
    <3> DEFINE w == wake[p]
    <3>1. w \in WakeLists /\ Head(w) \in Procs /\ Tail(w) \in Seq(Procs)
      BY <2>8, WakeFacts DEF Post
    <3>2. Len(w) # 1 => Tail(w) \in WakeLists
      BY <3>1, WakeFacts
    <3>3. /\ ready' = [ready EXCEPT ![Head(w)] = TRUE]
          /\ wake' = [wake EXCEPT ![p] = Tail(w)]
          /\ pc' = [pc EXCEPT ![p] = IF Len(w) = 1 THEN "spin" ELSE "post"]
          /\ UNCHANGED <<step, bomb_num, victory, bomb_pos, position, record, bomb_flag>>
      BY <2>8 DEF Post
    <3> HIDE DEF w
    <3> QED BY <3>1, <3>2, <3>3
  <2>9. CASE GameExit(p)
    BY <2>9 DEF GameExit, shared
  <2> QED BY <1>1, <2>1, <2>2, <2>3, <2>5, <2>6, <2>7, <2>8, <2>9 DEF ProcNext, Operate
<1>2. CASE GameOver
  <2>1. ExitWakes \in WakeLists
    BY DEF ExitWakes, WakeLists
  <2>2. ExitWakes \in Seq(Procs)
    BY <2>1, WakeFacts
  <2> QED BY <1>2, <2>1, <2>2 DEF GameOver, Hand
<1>3. CASE ChildBye
  BY <1>3 DEF ChildBye
<1>4. CASE ParentReap
  BY <1>4 DEF ParentReap, shared
<1>5. CASE UNCHANGED vars
  BY <1>5 DEF vars, shared
<1> QED BY <1>1, <1>2, <1>3, <1>4, <1>5 DEF Next

-------------------------------------------------------------------------------
(* The two processes are each other's other.                                  *)
LEMMA OtherFacts ==
    /\ Other("parent") = "child" /\ Other("child") = "parent"
    /\ \A p \in Procs : p = "parent" \/ p = "child"
    /\ \A p \in Procs : <<Other(p)>> \in {<<"parent">>, <<"child">>}
    /\ "parent" \in Procs /\ "child" \in Procs
  BY DEF Other, Procs

(* What Hand does while exactly one process is active: it stays active, with  *)
(* its own flag down, and has one flag to raise.                              *)
LEMMA BatonHand ==
    ASSUME Typed, Baton, NEW p \in Procs, pc[p] = "act", step # "EXIT",
           NEW next \in Steps \ {"NONE"}, next = "BOAT" => step = "BOAT",
           next # "BOAT" /\ next # "EXIT" => \A q \in Procs : pc[q] # "start",
           NEW w \in WakeLists, next # "EXIT" => w \in {<<"parent">>, <<"child">>},
           next = "EXIT" => \A q \in Procs : pc[q] # "start",
           Hand(p, next, w)
    PROVE  Baton'
<1> USE DEF Typed, TypeOK, Baton, Active
<1>1. /\ step' = next /\ ready' = ready
      /\ pc' = [pc EXCEPT ![p] = "post"] /\ wake' = [wake EXCEPT ![p] = w]
  BY DEF Hand
<1> QED BY <1>1, OtherFacts DEF Steps

(* Nothing is active when the game begins.                                    *)
LEMMA BatonInit == Init => Baton
  BY OtherFacts DEF Init, Baton, Active

(* Every step passes the baton on or keeps it.                                *)
LEMMA BatonStep == Typed /\ Baton /\ [Next]_vars => Baton'
<1> SUFFICES ASSUME Typed, Baton, [Next]_vars PROVE Baton'
  OBVIOUS
<1>1. ASSUME NEW p \in Procs, ProcNext(p) PROVE Baton'
  <2>1. CASE Start(p)
    <3>1. step \in {"NONE", "BOAT"} /\ step' = "BOAT" /\ ready' = ready /\ pc[p] = "start"
      BY <2>1 DEF Start, Baton
    <3>2. CASE p = "parent"
      <4>1. pc' = [pc EXCEPT !["parent"] = "post"] /\ wake' = [wake EXCEPT !["parent"] = <<"parent">>]
        BY <2>1, <3>2 DEF Start
      <4> QED BY <3>1, <3>2, <4>1, OtherFacts DEF Typed, TypeOK, Baton, Active
    <3>3. CASE p = "child"
      <4>1. pc' = [pc EXCEPT !["child"] = "spin"] /\ wake' = wake
        BY <2>1, <3>3 DEF Start
      <4> QED BY <3>1, <3>3, <4>1, OtherFacts DEF Typed, TypeOK, Baton, Active
    <3> QED BY <3>2, <3>3, OtherFacts
  <2>2. CASE Spin(p)
    BY <2>2, OtherFacts DEF Spin, shared, Typed, TypeOK, Baton, Active
  <2>3. CASE Clear(p)
    BY <2>3, OtherFacts DEF Clear, Typed, TypeOK, Baton, Active
  <2>4. CASE GenerateBoat(p)
    <3>1. step # "EXIT" /\ pc[p] = "act" /\ step = "BOAT"
      BY <2>4 DEF GenerateBoat
    <3>2. CASE p = "parent"
      <4>1. Hand(p, "BOAT", <<Other(p)>>)
        BY <2>4, <3>2 DEF GenerateBoat
      <4> QED BY <3>1, <4>1, BatonHand, OtherFacts DEF Steps, WakeLists
    <3>3. CASE p = "child"
      <4>1. Hand(p, "BOMB", <<Other(p)>>)
        BY <2>4, <3>3 DEF GenerateBoat
      <4>2. \A q \in Procs : pc[q] # "start"
        BY <3>1, <3>3, OtherFacts DEF Baton, Active
      <4> QED BY <3>1, <4>1, <4>2, BatonHand, OtherFacts DEF Steps, WakeLists
    <3> QED BY <3>2, <3>3, OtherFacts
  <2>5. CASE GenerateBomb(p)
    <3>1. pc[p] = "act" /\ step = "BOMB" /\ Hand(p, "CHECK", <<Other(p)>>)
      BY <2>5 DEF GenerateBomb
    <3>2. \A q \in Procs : pc[q] # "start"
      BY <3>1 DEF Baton
    <3> QED BY <3>1, <3>2, BatonHand, OtherFacts DEF Steps, WakeLists
  <2>6. CASE CheckBomb(p)
    <3>1. pc[p] = "act" /\ step = "CHECK"
      BY <2>6 DEF CheckBomb
    <3>2. Hand(p, "OVER", <<"parent">>) \/ Hand(p, "BOMB", <<p>>)
      BY <2>6 DEF CheckBomb, MissWakes
    <3>3. \A q \in Procs : pc[q] # "start"
      BY <3>1 DEF Baton
    <3>4. <<p>> \in {<<"parent">>, <<"child">>}
      BY DEF Procs
    <3> QED BY <3>1, <3>2, <3>3, <3>4, BatonHand DEF Steps, WakeLists
  <2>7. CASE Post(p)
    <3>1. CASE step = "EXIT"
      <4>1. step' = "EXIT" /\ \A q \in Procs : pc'[q] # "start"
        BY <2>7, <3>1 DEF Post, Baton, Typed, TypeOK
      <4> QED BY <4>1, OtherFacts DEF Baton
    <3>2. CASE step # "EXIT"
      <4>1. PICK q \in Procs : wake[p] = <<q>>
        BY <2>7, <3>2 DEF Post, Baton, Procs
      <4>2. Head(wake[p]) = q /\ Len(wake[p]) = 1
        BY <4>1
      <4>3. /\ pc[p] = "post" /\ step' = step
            /\ ready' = [ready EXCEPT ![q] = TRUE]
            /\ pc' = [pc EXCEPT ![p] = "spin"]
            /\ wake' = [wake EXCEPT ![p] = Tail(wake[p])]
        BY <2>7, <4>2 DEF Post
      <4>4. \A r \in Procs : r # p => pc'[r] = pc[r] /\ wake'[r] = wake[r]
        BY <4>3 DEF Typed, TypeOK
      <4>5. pc'[p] = "spin" /\ (\A r \in Procs : ready'[r] = (r = q \/ ready[r]))
        BY <4>3 DEF Typed, TypeOK
      <4>6. ~ready[p] /\ ~Active(Other(p)) /\ Other(p) \in Procs
        BY <3>2, <4>3, OtherFacts DEF Baton, Active
      <4>7. \A r \in Procs : pc[r] # "clear"
        BY <4>3, <4>6, OtherFacts DEF Active
      <4> QED BY <3>2, <4>3, <4>4, <4>5, <4>6, <4>7, OtherFacts DEF Baton, Active
    <3> QED BY <3>1, <3>2
  <2>8. CASE GameExit(p)
    BY <2>8, OtherFacts DEF GameExit, shared, Typed, TypeOK, Baton, Active
  <2> QED BY <1>1, <2>1, <2>2, <2>3, <2>4, <2>5, <2>6, <2>7, <2>8 DEF ProcNext, Operate
<1>2. CASE GameOver
  <2>1. /\ pc["parent"] = "act" /\ step = "OVER"
        /\ Hand("parent", "EXIT", ExitWakes)
    BY <1>2 DEF GameOver
  <2>2. \A q \in Procs : pc[q] # "start"
    BY <2>1 DEF Baton
  <2>3. ExitWakes \in WakeLists
    BY DEF ExitWakes, WakeLists
  <2> QED BY <2>1, <2>2, <2>3, BatonHand, OtherFacts DEF Steps
<1>3. CASE ChildBye
  BY <1>3, OtherFacts DEF ChildBye, Typed, TypeOK, Baton, Active
<1>4. CASE ParentReap
  BY <1>4, OtherFacts DEF ParentReap, shared, Typed, TypeOK, Baton, Active
<1>5. CASE UNCHANGED vars
  BY <1>5 DEF vars, shared, Baton, Active
<1> QED BY <1>1, <1>2, <1>3, <1>4, <1>5 DEF Next


-------------------------------------------------------------------------------
(* The token that Hand leaves behind is the one flag to raise.                *)
LEMMA TokenHand ==
    ASSUME Typed, Baton, NEW p \in Procs, pc[p] = "act", step # "EXIT",
           NEW next \in Steps, NEW r \in Procs, Hand(p, next, <<r>>)
    PROVE  \A q \in Procs : Token(q)' <=> q = r
<1>1. /\ ready' = ready /\ pc' = [pc EXCEPT ![p] = "post"]
      /\ wake' = [wake EXCEPT ![p] = <<r>>]
  BY DEF Hand
<1>2. \A q \in Procs : ~ready[q] /\ (q # p => pc[q] \in {"start", "spin"})
  BY OtherFacts DEF Baton, Active
<1>3. \A q \in Procs : <<r>> = <<q>> <=> q = r
  OBVIOUS
<1>4. /\ \A q \in Procs : ready'[q] = FALSE
      /\ pc'[p] = "post" /\ wake'[p] = <<r>>
      /\ \A q \in Procs : q # p => pc'[q] \in {"start", "spin"}
  BY <1>1, <1>2 DEF Typed, TypeOK
<1> QED BY <1>3, <1>4 DEF Token

(* The process inside its loop has the token, alone.                          *)
LEMMA TokenHeld ==
    ASSUME Typed, Baton, NEW p \in Procs, pc[p] = "act", step # "EXIT"
    PROVE  Token(p) /\ ~Token(Other(p))
<1>1. \A q \in Procs : ~ready[q] /\ (q # p => pc[q] \in {"start", "spin"})
  BY OtherFacts DEF Baton, Active
<1> QED BY <1>1, OtherFacts DEF Token

(* Outside of the operations the token stays where it is.                     *)
LEMMA TokenKept ==
    ASSUME Typed, Baton, step # "EXIT", NEW p \in Procs,
           Spin(p) \/ Clear(p) \/ Post(p)
    PROVE  \A q \in Procs : Token(q)' <=> Token(q)
<1>1. \A q \in Procs : q # p => pc'[q] = pc[q] /\ wake'[q] = wake[q]
  BY DEF Typed, TypeOK, Spin, Clear, Post
<1>2. CASE Spin(p)
  <2>1. pc[p] = "spin" /\ ready[p] /\ pc'[p] = "clear" /\ ready' = ready
    BY <1>2 DEF Spin, shared, Typed, TypeOK
  <2> QED BY <1>1, <2>1 DEF Token
<1>3. CASE Clear(p)
  <2>1. /\ pc[p] = "clear" /\ pc'[p] = "act"
        /\ \A q \in Procs : q # p => ready'[q] = ready[q]
        /\ ready'[p] = FALSE
    BY <1>3 DEF Clear, Typed, TypeOK
  <2> QED BY <1>1, <2>1 DEF Token
<1>4. CASE Post(p)
  <2>1. PICK r \in Procs : wake[p] = <<r>>
    BY <1>4 DEF Post, Baton, Procs
  <2>2. /\ Head(wake[p]) = r /\ Len(wake[p]) = 1
        /\ \A q \in Procs : wake[p] = <<q>> <=> q = r
    BY <2>1
  <2>3. /\ pc[p] = "post" /\ pc'[p] = "spin"
        /\ \A q \in Procs : ready'[q] = (q = r \/ ready[q])
    BY <1>4, <2>2 DEF Post, Typed, TypeOK
  <2> QED BY <1>1, <2>2, <2>3 DEF Token
<1> QED BY <1>2, <1>3, <1>4

(* No bomb has been thrown when the game begins.                              *)
LEMMA GameInit == Init => Game
<1> SUFFICES ASSUME Init PROVE Game
  OBVIOUS
<1> QED BY OtherFacts DEF Init, Game, ParentWinIsReal

(* A step that leaves the board alone and keeps the token keeps Game.         *)
LEMMA GameKept ==
    ASSUME Game, UNCHANGED <<victory, bomb_pos, position, record, bomb_flag, bomb_num>>,
           step' = step, step = "CHECK" => (Token("child") => Token("child")')
    PROVE  Game'
  BY DEF Game, ParentWinIsReal

(* Bombs, marks and the victory stay related through every step.              *)
LEMMA GameStep == Typed /\ Baton /\ Game /\ [Next]_vars => Game'
<1> SUFFICES ASSUME Typed, Baton, Game, [Next]_vars PROVE Game'
  OBVIOUS
<1>1. ASSUME NEW p \in Procs, ProcNext(p) PROVE Game'
  <2>1. CASE Start(p)
    <3>1. /\ step \in {"NONE", "BOAT"} /\ step' = "BOAT"
          /\ UNCHANGED <<victory, bomb_pos, position, record, bomb_flag, bomb_num>>
      BY <2>1 DEF Start, Baton
    <3> QED BY <3>1 DEF Game, ParentWinIsReal
  <2>2. CASE Spin(p) \/ Clear(p) \/ Post(p)
    <3>1. /\ UNCHANGED <<victory, bomb_pos, position, record, bomb_flag, bomb_num>>
          /\ step' = step
      BY <2>2 DEF Spin, Clear, Post, shared
    <3>2. step = "CHECK" => (Token("child") => Token("child")')
      BY <2>2, TokenKept, OtherFacts
    <3> QED BY <3>1, <3>2, GameKept
  <2>3. CASE GenerateBoat(p)
    <3>1. /\ step = "BOAT" /\ pc[p] = "act"
          /\ UNCHANGED <<victory, bomb_pos, record, bomb_flag, bomb_num>>
      BY <2>3 DEF GenerateBoat
    <3>2. PICK b \in Boats : position' = [position EXCEPT ![p] = b]
      BY <2>3 DEF GenerateBoat
    <3>3. step' = IF p = "parent" THEN "BOAT" ELSE "BOMB"
      BY <2>3 DEF GenerateBoat, Hand
    <3>4. p = "child" => position'["child"] \in Boats
      BY <3>2, OtherFacts DEF Typed, TypeOK
    <3>5. /\ victory = 0 /\ bomb_pos = NoCell
          /\ \A q \in Procs : record[q] = {} /\ bomb_flag[q] = {} /\ bomb_num[q] = 0
      BY <3>1 DEF Game
    <3>6. bomb_flag["child"] # {1, 2}
      BY <3>5, OtherFacts
    <3> QED BY <3>1, <3>3, <3>4, <3>5, <3>6, OtherFacts DEF Game, ParentWinIsReal
  <2>4. CASE GenerateBomb(p)
    <3>1. /\ step = "BOMB" /\ pc[p] = "act" /\ Hand(p, "CHECK", <<Other(p)>>)
          /\ UNCHANGED <<victory, position, bomb_flag>>
      BY <2>4 DEF GenerateBomb
    <3>2. PICK c \in Cells \ record[p] :
             record' = [record EXCEPT ![p] = @ \cup {c}] /\ Publish(p, c)
      BY <2>4 DEF GenerateBomb
    <3>3. /\ position["child"] \in Boats /\ bomb_flag["child"] # {1, 2}
          /\ \A i \in 1..2 : position["child"][i] \in record["parent"] => i \in bomb_flag["child"]
      BY <3>1 DEF Game
    <3>4. step' = "CHECK"
      BY <3>1 DEF Hand
    <3>5. CASE p = "parent"
      <4>1. bomb_pos' = c /\ record'["parent"] = record["parent"] \cup {c}
        BY <3>2, <3>5, OtherFacts DEF Publish, Typed, TypeOK
      <4>2. Token("child")'
        BY <3>1, <3>5, TokenHand, OtherFacts DEF Steps
      <4> QED BY <3>1, <3>3, <3>4, <4>1, <4>2 DEF Game, ParentWinIsReal
    <3>6. CASE p = "child"
      <4>1. bomb_pos' = bomb_pos /\ record'["parent"] = record["parent"]
        BY <3>2, <3>6, OtherFacts DEF Publish, Typed, TypeOK
      <4> QED BY <3>1, <3>3, <3>4, <4>1 DEF Game, ParentWinIsReal
    <3> QED BY <3>5, <3>6, OtherFacts
  <2>5. CASE CheckBomb(p)
    <3>1. /\ step = "CHECK" /\ pc[p] = "act"
          /\ bomb_flag' = [bomb_flag EXCEPT ![p] = Hits(p)]
          /\ UNCHANGED <<bomb_num, bomb_pos, position, record>>
      BY <2>5 DEF CheckBomb
    <3>2. /\ Hits(p) = {1, 2} => step' = "OVER" /\ victory' = IF p = "parent" THEN 2 ELSE 1
          /\ Hits(p) # {1, 2} => step' = "BOMB" /\ victory' = victory
      BY <2>5 DEF CheckBomb, AllHit, Hand
    <3>3. position["child"] \in Boats /\ NoCell \notin Cells
      BY <3>1, BoardAssumption DEF Game
    <3>4. position["child"][1] \in Cells /\ position["child"][2] \in Cells
      BY <3>3, BoardAssumption
    <3>5. CASE p = "child"
      <4>1. bomb_flag'["child"] = Hits("child")
        BY <3>1, <3>5, OtherFacts DEF Typed, TypeOK
      <4>2. \A i \in Hits("child") : i \in 1..2 /\ position["child"][i] \in record["parent"]
        <5>1. \A i \in bomb_flag["child"] : i \in 1..2 /\ position["child"][i] \in record["parent"]
          BY OtherFacts DEF Game, Typed, TypeOK
        <5>2. \A i \in 1..2 : position["child"][i] \in Cells
          BY <3>4
        <5>3. bomb_pos \in Cells => bomb_pos \in record["parent"]
          BY <3>3 DEF Game
        <5> QED BY <5>1, <5>2, <5>3 DEF Hits
      <4>3. \A i \in 1..2 : position["child"][i] \in record["parent"] => i \in Hits("child")
        BY <3>1 DEF Hits, Game
      <4>4. CASE Hits("child") = {1, 2}
        <5>1. position["child"][1] \in record["parent"] /\ position["child"][2] \in record["parent"]
          BY <4>2, <4>4
        <5> QED BY <3>1, <3>2, <3>3, <3>5, <4>1, <4>2, <4>4, <5>1 DEF Game, ParentWinIsReal
      <4>5. CASE Hits("child") # {1, 2}
        BY <3>1, <3>2, <3>3, <3>5, <4>1, <4>2, <4>3, <4>5 DEF Game, ParentWinIsReal
      <4> QED BY <4>4, <4>5
    <3>6. CASE p = "parent"
      <4>1. bomb_flag'["child"] = bomb_flag["child"]
        BY <3>1, <3>6, OtherFacts DEF Typed, TypeOK
      <4>2. ~Token("child")
        BY <3>1, <3>6, TokenHeld, OtherFacts
      <4>3. \A i \in 1..2 : position["child"][i] \in record["parent"] => i \in bomb_flag["child"]
        BY <3>1, <4>2 DEF Game
      <4> QED BY <3>1, <3>2, <3>3, <3>6, <4>1, <4>3 DEF Game, ParentWinIsReal
    <3> QED BY <3>5, <3>6, OtherFacts
  <2>6. CASE GameExit(p)
    <3>1. /\ UNCHANGED <<victory, bomb_pos, position, record, bomb_flag, bomb_num>>
          /\ step' = step /\ step # "CHECK"
      BY <2>6 DEF GameExit, shared
    <3> QED BY <3>1, GameKept
  <2> QED BY <1>1, <2>1, <2>2, <2>3, <2>4, <2>5, <2>6 DEF ProcNext, Operate
<1>2. CASE GameOver
  <2>1. /\ step = "OVER" /\ step' = "EXIT"
        /\ UNCHANGED <<bomb_num, victory, bomb_pos, position, record, bomb_flag>>
    BY <1>2 DEF GameOver, Hand
  <2> QED BY <2>1 DEF Game, ParentWinIsReal
<1>3. CASE ChildBye
  <2>1. step # "CHECK"
    BY <1>3, OtherFacts DEF ChildBye, Baton
  <2> QED BY <1>3, <2>1, GameKept DEF ChildBye
<1>4. CASE ParentReap
  <2>1. step # "CHECK"
    BY <1>4, OtherFacts DEF ParentReap, Baton
  <2> QED BY <1>4, <2>1, GameKept DEF ParentReap, shared
<1>5. CASE UNCHANGED vars
  <2>1. Token("child")' = Token("child")
    BY <1>5 DEF vars, shared, Token
  <2> QED BY <1>5, <2>1, GameKept DEF vars, shared
<1> QED BY <1>1, <1>2, <1>3, <1>4, <1>5 DEF Next

-------------------------------------------------------------------------------
(* Both scores are zero when the game begins.                                 *)
LEMMA ScoreInit == Init => Score
<1> SUFFICES ASSUME Init PROVE Score
  OBVIOUS
<1>1. \A p \in Procs : record[p] = {} /\ bomb_num[p] = 0
  BY DEF Init
<1>2. step = "NONE" /\ Cardinality({}) = 0
  BY FS_EmptySet DEF Init
<1> QED BY <1>1, <1>2, OtherFacts DEF Score, InTurn

(* A step that throws no bomb and gives no token keeps Score.                 *)
LEMMA ScoreKept ==
    ASSUME Score, UNCHANGED <<bomb_num, record>>,
           step' \in {"BOMB", "CHECK"} =>
             /\ step \in {"BOMB", "CHECK"}
             /\ \A q \in Procs : Token(q)' => Token(q)
    PROVE  Score'
  BY OtherFacts DEF Score, InTurn

(* A bomb thrown counts one more cell, and changes whose turn it is.          *)
LEMMA ScoreBomb ==
    ASSUME Typed, Baton, Score, NEW p \in Procs, GenerateBomb(p)
    PROVE  Score'
<1>1. /\ pc[p] = "act" /\ step = "BOMB" /\ Hand(p, "CHECK", <<Other(p)>>)
      /\ bomb_num' = [bomb_num EXCEPT ![p] = @ + 1] /\ step' = "CHECK"
  BY DEF GenerateBomb, Hand
<1>2. PICK c \in Cells \ record[p] : record' = [record EXCEPT ![p] = @ \cup {c}]
  BY DEF GenerateBomb
<1>3. IsFiniteSet(record[p])
  BY FS_Subset, BoardAssumption DEF Typed, TypeOK
<1>4. Cardinality(record[p] \cup {c}) = bomb_num[p] + 1
  BY <1>2, <1>3, FS_AddElement DEF Score
<1>5. \A q \in Procs : bomb_num'[q] = Cardinality(record'[q])
  <2>1. /\ bomb_num'[p] = bomb_num[p] + 1 /\ record'[p] = record[p] \cup {c}
        /\ \A q \in Procs : q # p => bomb_num'[q] = bomb_num[q] /\ record'[q] = record[q]
    BY <1>1, <1>2 DEF Typed, TypeOK
  <2> QED BY <2>1, <1>4 DEF Score
<1>6. Token(p) /\ \A q \in Procs : Token(q)' <=> q = Other(p)
  BY <1>1, TokenHeld, TokenHand, OtherFacts DEF Steps
<1>7. bomb_num["parent"] \in Nat /\ bomb_num["child"] \in Nat
  BY OtherFacts DEF Typed, TypeOK
<1>8. CASE p = "parent"
  <2>1. bomb_num["parent"] = bomb_num["child"]
    BY <1>1, <1>6, <1>8 DEF Score
  <2>2. bomb_num'["parent"] = bomb_num["parent"] + 1 /\ bomb_num'["child"] = bomb_num["child"]
    BY <1>1, <1>8, OtherFacts DEF Typed, TypeOK
  <2>3. ~Token("parent")'
    BY <1>6, <1>8, OtherFacts
  <2> QED BY <1>5, <1>7, <2>1, <2>2, <2>3 DEF Score, InTurn
<1>9. CASE p = "child"
  <2>1. bomb_num["parent"] = bomb_num["child"] + 1
    BY <1>1, <1>6, <1>9 DEF Score
  <2>2. bomb_num'["parent"] = bomb_num["parent"] /\ bomb_num'["child"] = bomb_num["child"] + 1
    BY <1>1, <1>9, OtherFacts DEF Typed, TypeOK
  <2>3. ~Token("child")'
    BY <1>6, <1>9, OtherFacts
  <2> QED BY <1>5, <1>7, <2>1, <2>2, <2>3 DEF Score, InTurn
<1> QED BY <1>8, <1>9, OtherFacts

(* Every step keeps the score in order.                                       *)
LEMMA ScoreStep == Typed /\ Baton /\ Game /\ Score /\ [Next]_vars => Score'
<1> SUFFICES ASSUME Typed, Baton, Game, Score, [Next]_vars PROVE Score'
  OBVIOUS
<1>1. ASSUME NEW p \in Procs, ProcNext(p) PROVE Score'
  <2>1. CASE Start(p)
    BY <2>1, ScoreKept DEF Start
  <2>2. CASE Spin(p) \/ Clear(p) \/ Post(p)
    <3>1. UNCHANGED <<bomb_num, record>> /\ step' = step
      BY <2>2 DEF Spin, Clear, Post, shared
    <3> QED BY <2>2, <3>1, ScoreKept, TokenKept
  <2>3. CASE GenerateBoat(p)
    <3>1. /\ step = "BOAT" /\ UNCHANGED <<bomb_num, record>> /\ pc[p] = "act"
          /\ Hand(p, IF p = "parent" THEN "BOAT" ELSE "BOMB", <<Other(p)>>)
      BY <2>3 DEF GenerateBoat
    <3>2. CASE p = "parent"
      BY <3>1, <3>2, ScoreKept DEF Hand
    <3>3. CASE p = "child"
      <4>1. ~Token("child")'
        BY <3>1, <3>3, TokenHand, OtherFacts DEF Steps
      <4>2. bomb_num["parent"] = 0 /\ bomb_num["child"] = 0
        BY <3>1, OtherFacts DEF Game
      <4> QED BY <3>1, <4>1, <4>2 DEF Score, InTurn
    <3> QED BY <3>2, <3>3, OtherFacts
  <2>4. CASE GenerateBomb(p)
    BY <2>4, ScoreBomb
  <2>5. CASE CheckBomb(p)
    <3>1. /\ step = "CHECK" /\ pc[p] = "act" /\ UNCHANGED <<bomb_num, record>>
          /\ Hand(p, "OVER", <<"parent">>) \/ Hand(p, "BOMB", <<p>>)
      BY <2>5 DEF CheckBomb, MissWakes
    <3>2. CASE Hand(p, "OVER", <<"parent">>)
      BY <3>1, <3>2, ScoreKept DEF Hand
    <3>3. CASE Hand(p, "BOMB", <<p>>)
      <4>1. Token(p) /\ \A q \in Procs : Token(q)' <=> q = p
        BY <3>1, <3>3, TokenHeld, TokenHand DEF Steps
      <4> QED BY <3>1, <4>1, ScoreKept
    <3> QED BY <3>1, <3>2, <3>3
  <2>6. CASE GameExit(p)
    BY <2>6, ScoreKept DEF GameExit, shared
  <2> QED BY <1>1, <2>1, <2>2, <2>3, <2>4, <2>5, <2>6 DEF ProcNext, Operate
<1>2. CASE GameOver
  BY <1>2, ScoreKept DEF GameOver, Hand
<1>3. CASE ChildBye
  <2>1. step \notin {"BOMB", "CHECK"} /\ step' = step
    BY <1>3, OtherFacts DEF ChildBye, Baton
  <2> QED BY <1>3, <2>1, ScoreKept DEF ChildBye
<1>4. CASE ParentReap
  <2>1. step \notin {"BOMB", "CHECK"} /\ step' = step
    BY <1>4, OtherFacts DEF ParentReap, shared, Baton
  <2> QED BY <1>4, <2>1, ScoreKept DEF ParentReap, shared
<1>5. CASE UNCHANGED vars
  BY <1>5, ScoreKept DEF vars, shared, Token
<1> QED BY <1>1, <1>2, <1>3, <1>4, <1>5 DEF Next

-------------------------------------------------------------------------------
(* A step that moves no token and leaves the boats alone keeps Placed.        *)
LEMMA PlacedKept ==
    ASSUME Placed, UNCHANGED position,
           \/ step' \notin {"NONE", "BOAT"} /\ pc'["parent"] # "start"
           \/ /\ step' = step
              /\ pc'["parent"] = "start" <=> pc["parent"] = "start"
              /\ \A q \in Procs : Token(q)' => Token(q)
    PROVE  Placed'
  BY OtherFacts DEF Placed

(* No process has a boat when the game begins.                                *)
LEMMA PlacedInit == Init => Placed
  BY OtherFacts DEF Init, Placed

(* Every step keeps the order in which the boats are placed.                  *)
LEMMA PlacedStep == Typed /\ Baton /\ Placed /\ [Next]_vars => Placed'
<1> SUFFICES ASSUME Typed, Baton, Placed, [Next]_vars PROVE Placed'
  OBVIOUS
<1>0. step \notin {"NONE", "BOAT"} => pc["parent"] # "start"
  BY OtherFacts DEF Baton
<1>1. ASSUME NEW p \in Procs, ProcNext(p) PROVE Placed'
  <2>1. CASE Start(p)
    <3>1. /\ pc[p] = "start" /\ step \in {"NONE", "BOAT"} /\ step' = "BOAT"
          /\ UNCHANGED <<ready, position>>
      BY <2>1 DEF Start, Baton
    <3>2. CASE p = "parent"
      <4>1. pc' = [pc EXCEPT !["parent"] = "post"] /\ wake' = [wake EXCEPT !["parent"] = <<"parent">>]
        BY <2>1, <3>2 DEF Start
      <4>2. ~Active("parent") /\ ~Active("child") /\ position["parent"] = <<NoCell, NoCell>>
        BY <3>1, <3>2 DEF Baton, Placed
      <4>3. /\ pc'["parent"] = "post" /\ wake'["parent"] = <<"parent">>
            /\ pc'["child"] = pc["child"]
        BY <4>1, OtherFacts DEF Typed, TypeOK
      <4>4. ~Token("child")'
        BY <3>1, <4>2, <4>3, OtherFacts DEF Token, Active
      <4> QED BY <3>1, <4>2, <4>3, <4>4 DEF Placed
    <3>3. CASE p = "child"
      <4>1. pc' = [pc EXCEPT !["child"] = "spin"] /\ wake' = wake
        BY <2>1, <3>3 DEF Start
      <4>2. pc'["parent"] = pc["parent"] /\ pc'["child"] = "spin"
        BY <4>1, OtherFacts DEF Typed, TypeOK
      <4>3. \A q \in Procs : Token(q)' => Token(q)
        BY <3>1, <4>1, <4>2, OtherFacts DEF Token
      <4>4. step = "NONE" => ~Token("child")
        BY OtherFacts DEF Placed, Baton, Token, Active
      <4> QED BY <3>1, <4>2, <4>3, <4>4, OtherFacts DEF Placed
    <3> QED BY <3>2, <3>3, OtherFacts
  <2>2. CASE Spin(p) \/ Clear(p) \/ Post(p)
    <3>1. UNCHANGED position /\ step' = step
      BY <2>2 DEF Spin, Clear, Post, shared
    <3>2. pc'["parent"] = "start" <=> pc["parent"] = "start"
      BY <2>2, OtherFacts DEF Spin, Clear, Post, Typed, TypeOK
    <3>3. CASE step = "EXIT"
      BY <1>0, <3>1, <3>2, <3>3, PlacedKept
    <3>4. CASE step # "EXIT"
      BY <2>2, <3>1, <3>2, <3>4, TokenKept, PlacedKept
    <3> QED BY <3>3, <3>4
  <2>3. CASE GenerateBoat(p)
    <3>1. /\ step = "BOAT" /\ pc[p] = "act"
          /\ Hand(p, IF p = "parent" THEN "BOAT" ELSE "BOMB", <<Other(p)>>)
      BY <2>3 DEF GenerateBoat
    <3>2. PICK b \in Boats : position' = [position EXCEPT ![p] = b]
      BY <2>3 DEF GenerateBoat
    <3>3. pc'["parent"] # "start"
      BY <3>1, OtherFacts DEF Hand, Placed, Baton, Active, Typed, TypeOK
    <3>4. CASE p = "parent"
      <4>1. /\ step' = "BOAT" /\ position'["parent"] = b
            /\ position'["child"] = position["child"]
        BY <3>1, <3>2, <3>4, OtherFacts DEF Hand, Typed, TypeOK
      <4>2. ~Token("parent")'
        BY <3>1, <3>4, TokenHand, OtherFacts DEF Steps
      <4> QED BY <3>1, <3>3, <4>1, <4>2 DEF Placed
    <3>5. CASE p = "child"
      BY <3>1, <3>3, <3>5, OtherFacts DEF Placed, Hand
    <3> QED BY <3>4, <3>5, OtherFacts
  <2>4. CASE GenerateBomb(p) \/ CheckBomb(p) \/ GameExit(p)
    <3>1. /\ step \notin {"NONE", "BOAT"} /\ step' \notin {"NONE", "BOAT"}
          /\ pc'["parent"] # "start" /\ UNCHANGED position
      BY <1>0, <2>4, OtherFacts
         DEF GenerateBomb, CheckBomb, GameExit, Hand, shared, Typed, TypeOK
    <3> QED BY <3>1, PlacedKept
  <2> QED BY <1>1, <2>1, <2>2, <2>3, <2>4 DEF ProcNext, Operate
<1>2. CASE GameOver
  <2>1. step' = "EXIT" /\ pc'["parent"] # "start" /\ UNCHANGED position
    BY <1>0, <1>2, OtherFacts DEF GameOver, Hand, Typed, TypeOK
  <2> QED BY <2>1, PlacedKept
<1>3. CASE ChildBye \/ ParentReap
  <2>1. step = "EXIT" /\ step' = step /\ UNCHANGED position
    BY <1>3, OtherFacts DEF ChildBye, ParentReap, shared, Baton
  <2>2. pc'["parent"] # "start"
    BY <1>0, <1>3, <2>1, OtherFacts DEF ChildBye, ParentReap, Typed, TypeOK
  <2> QED BY <2>1, <2>2, PlacedKept
<1>4. CASE UNCHANGED vars
  BY <1>4 DEF vars, shared, Placed, Token
<1> QED BY <1>1, <1>2, <1>3, <1>4 DEF Next

-------------------------------------------------------------------------------
(* The inductive invariant of the game.                                       *)
Inv == Typed /\ Baton /\ Placed /\ Game /\ Score

(* Inv holds in every reachable state.                                        *)
LEMMA InvCorrect == Spec => []Inv
<1>1. Init => Inv
  BY TypedInit, BatonInit, PlacedInit, GameInit, ScoreInit DEF Inv
<1>2. Inv /\ [Next]_vars => Inv'
  BY TypedStep, BatonStep, PlacedStep, GameStep, ScoreStep DEF Inv
<1> QED BY <1>1, <1>2, PTL DEF Spec

(* The shared record and the local state keep their types.                    *)
THEOREM TypeCorrect == Spec => []TypeOK
<1>1. Inv => TypeOK
  BY DEF Inv, Typed
<1> QED BY <1>1, InvCorrect, PTL

(* The two processes never play at the same time, whatever their speeds.      *)
THEOREM OneBatonCorrect == Spec => []OneBaton
<1>1. Inv => OneBaton
  BY OtherFacts DEF Inv, Baton, OneBaton
<1> QED BY <1>1, InvCorrect, PTL

(* The players bomb in turn.                                                  *)
THEOREM InTurnCorrect == Spec => []InTurn
<1>1. Inv => InTurn
  BY DEF Inv, Score
<1> QED BY <1>1, InvCorrect, PTL

(* No player is asked for a bomb when every cell is used: the parent has an   *)
(* end of the child's boat left, the child has thrown fewer than the parent.  *)
THEOREM BombLeftCorrect == Spec => []BombLeft
<1>1. Inv => BombLeft
  <2> SUFFICES ASSUME Inv, NEW p \in Procs, pc[p] = "act", step = "BOMB"
               PROVE  Cells \ record[p] # {}
    BY DEF BombLeft
  <2>1. Token(p)
    BY TokenHeld DEF Inv
  <2>2. CASE p = "parent"
    <3>1. /\ position["child"] \in Boats
          /\ bomb_flag["child"] \subseteq 1..2 /\ bomb_flag["child"] # {1, 2}
          /\ \A i \in 1..2 : position["child"][i] \in record["parent"] => i \in bomb_flag["child"]
      BY OtherFacts DEF Inv, Game, Typed, TypeOK
    <3>2. PICK i \in 1..2 : i \notin bomb_flag["child"]
      BY <3>1
    <3>3. position["child"][i] \in Cells \ record["parent"]
      BY <3>1, <3>2, BoardAssumption
    <3> QED BY <2>2, <3>3
  <2>3. CASE p = "child"
    <3>1. Cardinality(record["parent"]) = Cardinality(record["child"]) + 1
      BY <2>1, <2>3, OtherFacts DEF Inv, Score
    <3>2. IsFiniteSet(Cells) /\ record["parent"] \subseteq Cells /\ record["child"] \subseteq Cells
      BY BoardAssumption, OtherFacts DEF Inv, Typed, TypeOK
    <3>3. Cardinality(record["parent"]) <= Cardinality(Cells)
      BY <3>2, FS_Subset
    <3>4. Cardinality(record["child"]) \in Nat /\ Cardinality(Cells) \in Nat
      BY <3>2, FS_Subset, FS_CardinalityType
    <3>5. record["child"] # Cells
      BY <3>1, <3>3, <3>4
    <3> QED BY <2>3, <3>2, <3>5
  <2> QED BY <2>2, <2>3, OtherFacts
<1> QED BY <1>1, InvCorrect, PTL

(* The parent only wins when its bombs hit both ends of the child's boat.     *)
THEOREM ParentWinCorrect == Spec => []ParentWinIsReal
<1>1. Inv => ParentWinIsReal
  BY DEF Inv, Game
<1> QED BY <1>1, InvCorrect, PTL

-------------------------------------------------------------------------------
(* The phase of the abstract game is the step's.                              *)
LEMMA PhaseFacts ==
    /\ step \in {"NONE", "BOAT"} => Phase = "place"
    /\ step = "BOMB" => Phase = "throw"
    /\ step = "CHECK" => Phase = "judge"
    /\ step \in {"OVER", "EXIT"} => Phase = "over"
  BY DEF Phase

(* The abstract game has begun when the concrete one has.                     *)
LEMMA PlayInit == Init => Play!Init
<1> SUFFICES ASSUME Init PROVE Play!Init
  OBVIOUS
<1>1. Phase = "place" /\ victory = 0
  BY PhaseFacts DEF Init
<1> QED BY <1>1 DEF Init, Play!Init, Play!Players, Procs

(* The abstract game compares the numbers of cells, the concrete one scores.  *)
LEMMA EvenFacts == Score => (Play!Even <=> bomb_num["parent"] = bomb_num["child"])
<1>1. \A S : Play!Cardinality(S) = Cardinality(S)
  BY DEF Play!Cardinality, Cardinality
<1> QED BY <1>1, OtherFacts DEF Score, Play!Even

(* A step that changes neither phase nor board is none of the abstract game.  *)
LEMMA PlayKept ==
    ASSUME Typed, UNCHANGED <<position, record, victory>>,
           \/ step' = step
           \/ {step, step'} \subseteq {"NONE", "BOAT"}
           \/ {step, step'} \subseteq {"OVER", "EXIT"}
    PROVE  UNCHANGED Play!game
<1>1. Phase' = Phase
  BY DEF Phase
<1> QED BY <1>1 DEF Play!game

(* generate_boat_position places a boat.                                      *)
LEMMA PlayPlace ==
    ASSUME Inv, NEW p \in Procs, GenerateBoat(p)
    PROVE  Play!Next
<1>1. /\ step = "BOAT" /\ pc[p] = "act" /\ UNCHANGED <<victory, record>>
      /\ step' = IF p = "parent" THEN "BOAT" ELSE "BOMB"
  BY DEF GenerateBoat, Hand
<1>2. PICK b \in Boats : position' = [position EXCEPT ![p] = b]
  BY DEF GenerateBoat
<1>3. Token(p)
  BY <1>1, TokenHeld DEF Inv
<1>4. position[p] = <<NoCell, NoCell>> /\ (p = "child" => position["parent"] \in Boats)
  BY <1>1, <1>3, OtherFacts DEF Inv, Placed
<1>5. Phase = "place" /\ Phase' = IF p = "parent" THEN "place" ELSE "throw"
  BY <1>1 DEF Phase
<1>6. Play!Place(p, b)
  BY <1>1, <1>2, <1>4, <1>5 DEF Play!Place
<1> QED BY <1>6 DEF Play!Next, Play!Players, Procs

(* generate_bomb_position throws a bomb, and it is the right player's turn.   *)
LEMMA PlayThrow ==
    ASSUME Inv, NEW p \in Procs, GenerateBomb(p)
    PROVE  Play!Next
<1>1. /\ step = "BOMB" /\ pc[p] = "act" /\ UNCHANGED <<victory, position>>
      /\ step' = "CHECK"
  BY DEF GenerateBomb, Hand
<1>2. PICK c \in Cells \ record[p] : record' = [record EXCEPT ![p] = @ \cup {c}]
  BY DEF GenerateBomb
<1>3. Token(p)
  BY <1>1, TokenHeld DEF Inv
<1>4. p = "parent" <=> Play!Even
  <2>1. bomb_num["parent"] \in Nat /\ bomb_num["child"] \in Nat
    BY OtherFacts DEF Inv, Typed, TypeOK
  <2>2. p = "parent" <=> bomb_num["parent"] = bomb_num["child"]
    BY <1>1, <1>3, <2>1, OtherFacts DEF Inv, Score
  <2> QED BY <2>2, EvenFacts DEF Inv
<1>5. Phase = "throw" /\ Phase' = "judge"
  BY <1>1 DEF Phase
<1>6. Play!Throw(p, c)
  BY <1>1, <1>2, <1>4, <1>5 DEF Play!Throw
<1> QED BY <1>2, <1>6 DEF Play!Next, Play!Players, Procs

(* The comparison with the boat judges the bomb thrown last: the child sees   *)
(* exactly whether both ends of its boat have been hit.                       *)
LEMMA PlayJudge ==
    ASSUME Inv, NEW p \in Procs, CheckBomb(p)
    PROVE  Play!Next
<1>1. /\ step = "CHECK" /\ pc[p] = "act" /\ UNCHANGED <<position, record>>
      /\ AllHit(p) => step' = "OVER" /\ victory' = IF p = "parent" THEN 2 ELSE 1
      /\ ~AllHit(p) => step' = "BOMB" /\ victory' = victory
  BY DEF CheckBomb, Hand
<1>2. Token(p) /\ ~Token(Other(p))
  BY <1>1, TokenHeld DEF Inv
<1>3. p = "parent" <=> Play!Even
  <2>1. bomb_num["parent"] \in Nat /\ bomb_num["child"] \in Nat
    BY OtherFacts DEF Inv, Typed, TypeOK
  <2>2. p = "parent" <=> bomb_num["parent"] = bomb_num["child"]
    BY <1>1, <1>2, <2>1, OtherFacts DEF Inv, Score
  <2> QED BY <2>2, EvenFacts DEF Inv
<1>4. /\ Phase = "judge"
      /\ AllHit(p) => Phase' = "over"
      /\ ~AllHit(p) => Phase' = "throw"
  BY <1>1 DEF Phase
<1>5. Play!Sunk <=> \A i \in 1..2 : position["child"][i] \in record["parent"]
  BY DEF Play!Sunk, Play!Ends
<1>6. CASE p = "child"
  <2>1. AllHit(p) <=> Play!Sunk
    <3>1. \A i \in 1..2 : position["child"][i] \in record["parent"] => i \in Hits("child")
      BY <1>1 DEF Inv, Game, Hits
    <3>2. \A i \in Hits("child") : i \in 1..2 /\ position["child"][i] \in record["parent"]
      <4>1. bomb_flag["child"] \subseteq 1..2
        BY OtherFacts DEF Inv, Typed, TypeOK
      <4>2. \A i \in 1..2 : position["child"][i] \in Cells
        BY <1>1, BoardAssumption DEF Inv, Game
      <4>3. bomb_pos \in Cells => bomb_pos \in record["parent"]
        BY BoardAssumption DEF Inv, Game
      <4>4. \A i \in bomb_flag["child"] : position["child"][i] \in record["parent"]
        BY DEF Inv, Game
      <4> QED BY <4>1, <4>2, <4>3, <4>4 DEF Hits
    <3>3. AllHit("child") <=> \A i \in 1..2 : i \in Hits("child")
      BY <3>2 DEF AllHit
    <3> QED BY <1>5, <1>6, <3>1, <3>2, <3>3
  <2>2. ~Play!Even
    BY <1>3, <1>6
  <2>3. CASE Play!Sunk
    BY <1>1, <1>4, <1>6, <2>1, <2>2, <2>3 DEF Play!Next, Play!FirstWins
  <2>4. CASE ~Play!Sunk
    BY <1>1, <1>4, <2>1, <2>4 DEF Play!Next, Play!GoesOn
  <2> QED BY <2>3, <2>4
<1>7. CASE p = "parent"
  <2>1. ~Play!Sunk
    <3>1. ~Token("child")
      BY <1>2, <1>7, OtherFacts
    <3>2. bomb_flag["child"] # {1, 2} /\ bomb_flag["child"] \subseteq 1..2
      BY <1>1, OtherFacts DEF Inv, Game, Typed, TypeOK
    <3>3. \A i \in 1..2 : position["child"][i] \in record["parent"] => i \in bomb_flag["child"]
      BY <1>1, <3>1 DEF Inv, Game
    <3> QED BY <1>5, <3>2, <3>3
  <2>2. CASE AllHit(p)
    BY <1>1, <1>3, <1>4, <1>7, <2>1, <2>2 DEF Play!Next, Play!SecondWins
  <2>3. CASE ~AllHit(p)
    BY <1>1, <1>4, <2>1, <2>3 DEF Play!Next, Play!GoesOn
  <2> QED BY <2>2, <2>3
<1> QED BY <1>6, <1>7, OtherFacts

(* Every step of the two processes is a move of the game or none at all.      *)
LEMMA PlayStep == Inv /\ [Next]_vars => [Play!Next]_(Play!game)
<1> SUFFICES ASSUME Inv, [Next]_vars PROVE Play!Next \/ UNCHANGED Play!game
  OBVIOUS
<1>1. ASSUME NEW p \in Procs, ProcNext(p) PROVE Play!Next \/ UNCHANGED Play!game
  <2>1. CASE Start(p)
    <3>1. step \in {"NONE", "BOAT"} /\ step' = "BOAT" /\ UNCHANGED <<position, record, victory>>
      BY <2>1 DEF Start, Inv, Baton
    <3> QED BY <3>1, PlayKept DEF Inv
  <2>2. CASE Spin(p) \/ Clear(p) \/ Post(p) \/ GameExit(p)
    <3>1. step' = step /\ UNCHANGED <<position, record, victory>>
      BY <2>2 DEF Spin, Clear, Post, GameExit, shared
    <3> QED BY <3>1, PlayKept DEF Inv
  <2>3. CASE Operate(p)
    BY <2>3, PlayPlace, PlayThrow, PlayJudge DEF Operate
  <2> QED BY <1>1, <2>1, <2>2, <2>3 DEF ProcNext
<1>2. CASE GameOver
  <2>1. /\ step = "OVER" /\ step' = "EXIT" /\ UNCHANGED <<position, record, victory>>
    BY <1>2 DEF GameOver, Hand
  <2> QED BY <2>1, PlayKept DEF Inv
<1>3. CASE ChildBye \/ ParentReap
  BY <1>3, PlayKept DEF ChildBye, ParentReap, shared, Inv
<1>4. CASE UNCHANGED vars
  BY <1>4, PlayKept DEF vars, shared, Inv
<1> QED BY <1>1, <1>2, <1>3, <1>4 DEF Next

(* The two processes implement the game of two players in turn, with a winner *)
(* as soon as the parent has hit both ends of the child's boat.               *)
THEOREM GameCorrect == Spec => GameSpec
<1>1. Init => Play!Init
  BY PlayInit
<1>2. Inv /\ [Next]_vars => [Play!Next]_(Play!game)
  BY PlayStep
<1> QED
  BY <1>1, <1>2, InvCorrect, PTL DEF Spec, GameSpec, Play!Spec

-------------------------------------------------------------------------------
(* The game is short: nobody gets stuck, and every step counts. *)

(* The last steps: whoever spins has its flag up or somebody left who will    *)
(* raise it.                                                                  *)
Ending ==
    /\ pc["child"] \in {"spin", "clear", "act", "bye", "exited"}
    /\ pc["parent"] \in {"spin", "clear", "act", "post", "reap", "exited"}
    /\ pc["parent"] = "post" =>
         pc["child"] = "spin" /\ ~ready["child"] /\ wake["parent"] # <<"parent">>
    /\ pc["child"] = "spin" => pc["parent"] = "post" \/ ready["child"]
    /\ pc["parent"] = "spin" => ready["parent"] \/ pc["child"] # "exited"
    /\ pc["parent"] = "exited" => pc["child"] = "exited"

(* The baton is never lost, and the end of the game is the parent's to        *)
(* announce.                                                                  *)
Onward ==
    /\ step # "EXIT" => pc["parent"] = "start" \/ Active("parent") \/ Active("child")
    /\ step = "NONE" => \A p \in Procs : pc[p] = "start"
    /\ step = "OVER" => victory \in {1, 2} /\ ~Token("child")
    /\ step = "EXIT" => Ending

(* Nobody has started.                                                        *)
LEMMA OnwardInit == Init => Onward
  BY OtherFacts DEF Init, Onward

(* Hand leaves the process that calls it active, with a flag to raise.        *)
LEMMA OnwardHand ==
    ASSUME Typed, Baton, NEW p \in Procs, pc[p] = "act", step # "EXIT",
           NEW next \in {"BOAT", "BOMB", "CHECK"}, NEW r \in Procs, Hand(p, next, <<r>>)
    PROVE  Onward'
<1>1. pc'[p] = "post" /\ step' = next
  BY DEF Hand, Typed, TypeOK
<1> QED BY <1>1, OtherFacts DEF Onward, Active

(* Every step keeps the baton, or the end of the game, going.                 *)
LEMMA OnwardStep == Typed /\ Baton /\ Onward /\ [Next]_vars => Onward'
<1> SUFFICES ASSUME Typed, Baton, Onward, [Next]_vars PROVE Onward'
  OBVIOUS
<1>0. /\ pc \in [Procs -> Places] /\ ready \in [Procs -> BOOLEAN]
      /\ wake \in [Procs -> Seq(Procs)]
      /\ \A q \in Procs : pc[q] = "post" => wake[q] \in WakeLists
  BY DEF Typed, TypeOK
<1>1. ASSUME NEW p \in Procs, Start(p) PROVE Onward'
  <2>1. pc[p] = "start" /\ step \in {"NONE", "BOAT"} /\ step' = "BOAT" /\ ready' = ready
    BY <1>1 DEF Start, Baton
  <2>2. CASE p = "parent"
    <3>1. pc'["parent"] = "post"
      BY <1>0, <1>1, <2>2, OtherFacts DEF Start
    <3> QED BY <2>1, <3>1 DEF Onward, Active
  <2>3. CASE p = "child"
    <3>1. pc' = [pc EXCEPT !["child"] = "spin"]
      BY <1>1, <2>3 DEF Start
    <3> QED BY <1>0, <2>1, <2>3, <3>1, OtherFacts DEF Onward, Active
  <2> QED BY <2>2, <2>3, OtherFacts
<1>2. ASSUME NEW p \in Procs, Spin(p) \/ Clear(p) \/ Post(p) PROVE Onward'
  <2>1. /\ UNCHANGED <<step, victory>>
        /\ \A q \in Procs : q # p => pc'[q] = pc[q] /\ wake'[q] = wake[q]
    BY <1>0, <1>2 DEF Spin, Clear, Post, shared
  <2>2. CASE step = "EXIT"
    <3>1. CASE Spin(p)
      <4>1. pc'[p] = "clear" /\ ready' = ready /\ wake' = wake /\ pc[p] = "spin" /\ ready[p]
        BY <1>0, <3>1 DEF Spin, shared
      <4>2. Ending
        BY <2>2 DEF Onward
      <4>3. ASSUME p = "parent" PROVE Ending'
        BY <2>1, <4>1, <4>2, <4>3, OtherFacts DEF Ending
      <4>4. ASSUME p = "child" PROVE Ending'
        BY <2>1, <4>1, <4>2, <4>4, OtherFacts DEF Ending
      <4>5. Ending'
        BY <4>3, <4>4, OtherFacts
      <4> QED BY <2>1, <2>2, <4>5 DEF Onward
    <3>2. CASE Clear(p)
      BY <1>0, <2>1, <2>2, <3>2, OtherFacts DEF Clear, Onward, Ending
    <3>3. CASE Post(p)
      <4>1. p = "parent" /\ pc["parent"] = "post" /\ pc["child"] = "spin"
        BY <2>2, <3>3, OtherFacts DEF Post, Onward, Ending
      <4>2. CASE wake["parent"] = <<"child">>
        <5>1. pc'["parent"] = "spin" /\ ready'["child"] = TRUE /\ pc'["child"] = "spin"
          BY <1>0, <2>1, <3>3, <4>1, <4>2, WakeFacts, OtherFacts DEF Post
        <5> QED BY <2>1, <2>2, <5>1, OtherFacts DEF Onward, Ending
      <4>3. CASE wake["parent"] = <<"parent", "child">>
        <5>1. /\ pc'["parent"] = "post" /\ pc'["child"] = "spin"
              /\ wake'["parent"] = <<"child">> /\ ready'["child"] = ready["child"]
          BY <1>0, <2>1, <3>3, <4>1, <4>3, WakeFacts, OtherFacts DEF Post
        <5>2. <<"child">> # <<"parent">>
          OBVIOUS
        <5> QED BY <2>1, <2>2, <4>1, <5>1, <5>2, OtherFacts DEF Onward, Ending
      <4> QED BY <1>0, <2>2, <4>1, <4>2, <4>3, OtherFacts DEF WakeLists, Onward, Ending
    <3> QED BY <1>2, <3>1, <3>2, <3>3
  <2>3. CASE step # "EXIT"
    <3>1. \A q \in Procs : Token(q)' <=> Token(q)
      BY <1>2, <2>3, TokenKept
    <3>2. Active("parent")' \/ Active("child")'
      <4>1. CASE Spin(p) \/ Clear(p)
        <5>1. pc'[p] \in {"clear", "act"}
          BY <1>0, <4>1 DEF Spin, Clear
        <5> QED BY <5>1, OtherFacts DEF Active
      <4>2. CASE Post(p)
        <5>1. PICK q \in Procs : wake[p] = <<q>>
          BY <2>3, <4>2 DEF Post, Baton, Procs
        <5>2. ready'[q] = TRUE
          BY <1>0, <4>2, <5>1 DEF Post
        <5> QED BY <5>2, OtherFacts DEF Active
      <4> QED BY <1>2, <4>1, <4>2
    <3>3. step # "NONE"
      BY <1>2 DEF Onward, Spin, Clear, Post
    <3>4. step' = "OVER" => victory' \in {1, 2} /\ ~Token("child")'
      BY <2>1, <3>1, OtherFacts DEF Onward
    <3> QED BY <2>1, <2>3, <3>2, <3>3, <3>4 DEF Onward
  <2> QED BY <2>2, <2>3
<1>3. ASSUME NEW p \in Procs, Operate(p) PROVE Onward'
  <2>1. CASE GenerateBoat(p)
    <3>1. /\ pc[p] = "act" /\ step # "EXIT"
          /\ Hand(p, IF p = "parent" THEN "BOAT" ELSE "BOMB", <<Other(p)>>)
      BY <2>1 DEF GenerateBoat
    <3> QED BY <3>1, OnwardHand, OtherFacts
  <2>2. CASE GenerateBomb(p)
    <3>1. pc[p] = "act" /\ step # "EXIT" /\ Hand(p, "CHECK", <<Other(p)>>)
      BY <2>2 DEF GenerateBomb
    <3> QED BY <3>1, OnwardHand, OtherFacts
  <2>3. CASE CheckBomb(p) /\ ~AllHit(p)
    <3>1. pc[p] = "act" /\ step # "EXIT" /\ Hand(p, "BOMB", <<p>>)
      BY <2>3 DEF CheckBomb, MissWakes
    <3> QED BY <3>1, OnwardHand
  <2>4. CASE CheckBomb(p) /\ AllHit(p)
    <3>1. /\ pc[p] = "act" /\ step # "EXIT" /\ Hand(p, "OVER", <<"parent">>)
          /\ victory' \in {1, 2}
      BY <2>4 DEF CheckBomb
    <3>2. ~Token("child")'
      BY <3>1, TokenHand, OtherFacts DEF Steps
    <3>3. pc'[p] = "post" /\ step' = "OVER"
      BY <1>0, <3>1 DEF Hand
    <3> QED BY <3>1, <3>2, <3>3, OtherFacts DEF Onward, Active
  <2> QED BY <1>3, <2>1, <2>2, <2>3, <2>4 DEF Operate
<1>4. CASE GameOver
  <2>1. pc["parent"] = "act" /\ step = "OVER" /\ Hand("parent", "EXIT", ExitWakes)
    BY <1>4 DEF GameOver
  <2>2. pc["child"] = "spin" /\ ~ready["child"] /\ ready' = ready
    BY <2>1, OtherFacts DEF Baton, Active, Hand
  <2>3. ExitWakes # <<"parent">>
    BY DEF ExitWakes
  <2>4. /\ step' = "EXIT" /\ pc'["parent"] = "post" /\ pc'["child"] = "spin"
        /\ wake'["parent"] = ExitWakes
    BY <1>0, <2>1, <2>2, OtherFacts DEF Hand
  <2> QED BY <2>2, <2>3, <2>4 DEF Onward, Ending
<1>5. ASSUME NEW p \in Procs, GameExit(p) PROVE Onward'
  BY <1>0, <1>5, OtherFacts DEF GameExit, shared, Onward, Ending
<1>6. CASE ChildBye
  <2>1. step = "EXIT"
    BY <1>6, OtherFacts DEF ChildBye, Baton
  <2> QED BY <1>0, <1>6, <2>1, OtherFacts DEF ChildBye, Onward, Ending
<1>7. CASE ParentReap
  <2>1. step = "EXIT"
    BY <1>7, OtherFacts DEF ParentReap, Baton
  <2> QED BY <1>0, <1>7, <2>1, OtherFacts DEF ParentReap, shared, Onward, Ending
<1>8. CASE UNCHANGED vars
  BY <1>8 DEF vars, shared, Onward, Ending, Active, Token
<1> QED BY <1>1, <1>2, <1>3, <1>4, <1>5, <1>6, <1>7, <1>8 DEF Next, ProcNext

(* Somebody can always go on until both have exited.                          *)
LEMMA SomebodyMoves == Inv /\ BombLeft /\ Onward => NeverStuck
<1> SUFFICES ASSUME Inv, BombLeft, Onward, \E p \in Procs : pc[p] # "exited"
             PROVE  \E p \in Procs : CanMove(p)
  BY DEF NeverStuck
<1> USE OtherFacts
<1>1. CASE step = "EXIT"
  BY <1>1 DEF Onward, Ending, CanMove
<1>2. CASE step # "EXIT" /\ pc["parent"] = "start"
  BY <1>2 DEF CanMove
<1>3. ASSUME step # "EXIT", NEW p \in Procs, Active(p) PROVE CanMove(p)
  <2>1. CASE pc[p] # "act"
    BY <1>3, <2>1 DEF Inv, Baton, Active, CanMove
  <2>2. CASE pc[p] = "act"
    <3>1. Token(p)
      BY <1>3, <2>2, TokenHeld DEF Inv
    <3>2. step \in {"BOAT", "BOMB", "CHECK", "OVER"}
      BY <1>3, <2>2 DEF Inv, Typed, TypeOK, Steps, Onward
    <3>3. CASE step = "BOMB"
      BY <2>2, <3>3 DEF BombLeft, CanMove
    <3>4. CASE step = "OVER"
      BY <2>2, <3>1, <3>4 DEF Onward, CanMove
    <3> QED BY <2>2, <3>2, <3>3, <3>4 DEF CanMove
  <2> QED BY <2>1, <2>2
<1> QED BY <1>1, <1>2, <1>3 DEF Onward

-------------------------------------------------------------------------------
(* What the bound counts is finite.                                           *)
Counted ==
    /\ IsFiniteSet(Unplaced) /\ Cardinality(Unplaced) \in Nat
    /\ \A p \in Procs :
         IsFiniteSet(Cells \ record[p]) /\ Cardinality(Cells \ record[p]) \in Nat
    /\ StepLeft \in Nat
    /\ \A p \in Procs : RoundLeft(p) \in Nat
    /\ OperationsLeft \in Nat /\ StepsLeft \in Nat

LEMMA LeftNat == Typed => Counted
<1> SUFFICES ASSUME Typed PROVE Counted
  OBVIOUS
<1>1. IsFiniteSet(Procs)
  <2>1. IsFiniteSet({"parent"})
    BY FS_Singleton
  <2>2. Procs = {"parent"} \cup {"child"}
    BY DEF Procs
  <2> QED BY <2>1, <2>2, FS_AddElement
<1>2. IsFiniteSet(Unplaced) /\ Cardinality(Unplaced) \in Nat
  BY <1>1, FS_Subset, FS_CardinalityType DEF Unplaced
<1>3. ASSUME NEW p \in Procs
      PROVE  IsFiniteSet(Cells \ record[p]) /\ Cardinality(Cells \ record[p]) \in Nat
  BY BoardAssumption, FS_Subset, FS_CardinalityType
<1>4. StepLeft \in Nat
  BY DEF StepLeft, Typed, TypeOK, Steps
<1>5. ASSUME NEW p \in Procs PROVE RoundLeft(p) \in Nat
  <2>1. pc[p] \in Places /\ Len(wake[p]) \in Nat
    BY LenProperties DEF Typed, TypeOK
  <2> QED BY <2>1 DEF RoundLeft, Places
<1>6. OperationsLeft \in Nat
  BY <1>2, <1>3, <1>4, OtherFacts DEF OperationsLeft, BombsLeft
<1>7. StepsLeft \in Nat
  BY <1>5, <1>6, OtherFacts DEF StepsLeft
<1> QED BY <1>2, <1>3, <1>4, <1>5, <1>6, <1>7 DEF Counted

(* A step of one process: it either has less left of its round, or ends the   *)
(* round with an operation.                                                   *)
LEMMA Fewer ==
    ASSUME Typed, Typed', NEW p \in Procs,
           \A q \in Procs : q # p => pc'[q] = pc[q] /\ wake'[q] = wake[q],
           \/ OperationsLeft' = OperationsLeft /\ RoundLeft(p)' < RoundLeft(p)
           \/ OperationsLeft' < OperationsLeft /\ pc[p] = "act" /\ pc'[p] = "post"
    PROVE  StepsLeft' < StepsLeft
<1> DEFINE q == Other(p)
<1>1. /\ OperationsLeft \in Nat /\ OperationsLeft' \in Nat
      /\ \A r \in Procs : RoundLeft(r) \in Nat /\ RoundLeft(r)' \in Nat
  <2>1. Counted /\ Counted'
    BY LeftNat, PTL
  <2> QED BY <2>1 DEF Counted
<1>2. RoundLeft(q)' = RoundLeft(q)
  BY OtherFacts DEF RoundLeft
<1>3. q \in Procs /\ StepsLeft = 5 * OperationsLeft + RoundLeft(p) + RoundLeft(q)
      /\ StepsLeft' = 5 * OperationsLeft' + RoundLeft(p)' + RoundLeft(q)'
  BY <1>1, OtherFacts DEF StepsLeft
<1>4. CASE OperationsLeft' = OperationsLeft /\ RoundLeft(p)' < RoundLeft(p)
  BY <1>1, <1>2, <1>3, <1>4
<1>5. CASE OperationsLeft' < OperationsLeft /\ pc[p] = "act" /\ pc'[p] = "post"
  <2>1. RoundLeft(p) = 2
    BY <1>5 DEF RoundLeft
  <2>2. wake'[p] \in WakeLists
    BY <1>5 DEF Typed
  <2>3. Len(wake'[p]) \in {1, 2}
    BY <2>2 DEF WakeLists
  <2>4. RoundLeft(p)' \in {5, 6}
    <3>1. CASE Len(wake'[p]) = 1
      BY <1>5, <3>1 DEF RoundLeft
    <3>2. CASE Len(wake'[p]) = 2
      BY <1>5, <3>2 DEF RoundLeft
    <3> QED BY <2>3, <3>1, <3>2
  <2> QED BY <1>1, <1>2, <1>3, <1>5, <2>1, <2>4
<1> QED BY <1>4, <1>5

(* The rest of a round: each step takes it down by one, or by two at the end  *)
(* of the parent's last raising of flags.                                     *)
LEMMA RoundShrinks ==
    ASSUME Typed, Typed', NEW p \in Procs, UNCHANGED <<step, position, record>>,
           \A q \in Procs : q # p => pc'[q] = pc[q] /\ wake'[q] = wake[q],
           RoundLeft(p)' < RoundLeft(p)
    PROVE  StepsLeft' < StepsLeft
<1>1. OperationsLeft' = OperationsLeft
  BY DEF OperationsLeft, Unplaced, BombsLeft, StepLeft
<1> QED BY <1>1, Fewer

(* An operation: the caller of Hand ends its round.                           *)
LEMMA OperationShrinks ==
    ASSUME Typed, Typed', NEW p \in Procs, pc[p] = "act", NEW next, NEW w,
           Hand(p, next, w), OperationsLeft' < OperationsLeft
    PROVE  StepsLeft' < StepsLeft
<1>1. /\ pc'[p] = "post"
      /\ \A q \in Procs : q # p => pc'[q] = pc[q] /\ wake'[q] = wake[q]
  BY DEF Hand, Typed, TypeOK
<1> QED BY <1>1, Fewer

(* A boat placed is one operation less; the throws begin with the child's.    *)
LEMMA BoatShrinks ==
    ASSUME Inv, Inv', NEW p \in Procs, GenerateBoat(p)
    PROVE  OperationsLeft' < OperationsLeft
<1>1. /\ pc[p] = "act" /\ step = "BOAT" /\ step' \in {"BOAT", "BOMB"} /\ record' = record
      /\ \E b \in Boats : position' = [position EXCEPT ![p] = b]
  BY DEF GenerateBoat, Hand
<1>2. PICK b \in Boats : position' = [position EXCEPT ![p] = b]
  BY <1>1
<1>3. b # <<NoCell, NoCell>>
  BY BoardAssumption
<1>4. position[p] = <<NoCell, NoCell>>
  BY <1>1, TokenHeld, OtherFacts DEF Inv, Placed
<1>5. Unplaced' = Unplaced \ {p} /\ p \in Unplaced
  BY <1>2, <1>3, <1>4 DEF Unplaced, Inv, Typed, TypeOK
<1>6. Counted /\ Counted'
  BY LeftNat, PTL DEF Inv
<1>7. Cardinality(Unplaced') = Cardinality(Unplaced) - 1
  BY <1>5, <1>6, FS_RemoveElement DEF Counted
<1>8. BombsLeft' = BombsLeft /\ BombsLeft \in Nat
  BY <1>1, <1>6, OtherFacts DEF BombsLeft, Counted
<1>9. StepLeft' = StepLeft
  BY <1>1 DEF StepLeft
<1> QED BY <1>6, <1>7, <1>8, <1>9 DEF OperationsLeft, Counted

(* A bomb thrown uses up a cell, which makes up for the check to come.        *)
LEMMA BombShrinks ==
    ASSUME Inv, Inv', NEW p \in Procs, GenerateBomb(p)
    PROVE  OperationsLeft' < OperationsLeft
<1>1. pc[p] = "act" /\ step = "BOMB" /\ step' = "CHECK" /\ position' = position
  BY DEF GenerateBomb, Hand
<1>2. PICK c \in Cells \ record[p] : record' = [record EXCEPT ![p] = @ \cup {c}]
  BY DEF GenerateBomb
<1>3. Counted /\ Counted'
  BY LeftNat, PTL DEF Inv
<1> DEFINE q == Other(p)
<1>4. q \in Procs /\ q # p
  BY OtherFacts
<1>5. Cells \ record'[p] = (Cells \ record[p]) \ {c} /\ record'[q] = record[q]
  BY <1>2, <1>4 DEF Inv, Typed, TypeOK
<1>6. Cardinality(Cells \ record'[p]) = Cardinality(Cells \ record[p]) - 1
  <2>1. IsFiniteSet(Cells \ record[p]) /\ c \in Cells \ record[p]
    BY <1>2, <1>3 DEF Counted
  <2>2. Cardinality((Cells \ record[p]) \ {c}) = Cardinality(Cells \ record[p]) - 1
    BY <2>1, FS_RemoveElement
  <2> QED BY <1>5, <2>2
<1>7. /\ Cardinality(Cells \ record[p]) \in Nat /\ Cardinality(Cells \ record[q]) \in Nat
      /\ Cardinality(Cells \ record'[q]) = Cardinality(Cells \ record[q])
  BY <1>3, <1>4, <1>5 DEF Counted
<1>8. /\ BombsLeft = Cardinality(Cells \ record[p]) + Cardinality(Cells \ record[q])
      /\ BombsLeft' = Cardinality(Cells \ record'[p]) + Cardinality(Cells \ record'[q])
  <2>1. /\ Cardinality(Cells \ record["parent"]) \in Nat
        /\ Cardinality(Cells \ record["child"]) \in Nat
        /\ Cardinality(Cells \ record'["parent"]) \in Nat
        /\ Cardinality(Cells \ record'["child"]) \in Nat
    BY <1>3, OtherFacts DEF Counted
  <2>2. CASE p = "parent"
    BY <2>2, OtherFacts DEF BombsLeft
  <2>3. CASE p = "child"
    <3>1. q = "parent"
      BY <2>3, OtherFacts
    <3>2. BombsLeft = Cardinality(Cells \ record["child"]) + Cardinality(Cells \ record["parent"])
      BY <2>1 DEF BombsLeft
    <3>3. BombsLeft' = Cardinality(Cells \ record'["child"]) + Cardinality(Cells \ record'["parent"])
      BY <2>1 DEF BombsLeft
    <3> QED BY <2>3, <3>1, <3>2, <3>3
  <2> QED BY <2>2, <2>3, OtherFacts
<1>9. BombsLeft \in Nat /\ BombsLeft' = BombsLeft - 1
  BY <1>6, <1>7, <1>8
<1>10. StepLeft = 2 /\ StepLeft' = 3 /\ Unplaced' = Unplaced /\ Cardinality(Unplaced) \in Nat
  BY <1>1, <1>3 DEF StepLeft, Unplaced, Counted
<1> QED BY <1>9, <1>10 DEF OperationsLeft

(* A check, or the announcement, takes the present step down.                 *)
LEMMA StepShrinks ==
    ASSUME Inv, UNCHANGED <<position, record>>, StepLeft' \in Nat, StepLeft' < StepLeft
    PROVE  OperationsLeft' < OperationsLeft
<1>1. Unplaced' = Unplaced /\ BombsLeft' = BombsLeft
  BY DEF Unplaced, BombsLeft
<1>2. Counted
  BY LeftNat DEF Inv
<1>3. Cardinality(Unplaced) \in Nat /\ BombsLeft \in Nat /\ StepLeft \in Nat
  BY <1>2, OtherFacts DEF Counted, BombsLeft
<1> QED BY <1>1, <1>3 DEF OperationsLeft

(* Every step of either process leaves fewer steps to take.                   *)
LEMMA EveryStepCounts == Inv /\ Inv' /\ Next => StepsLeft' < StepsLeft
<1> SUFFICES ASSUME Inv, Inv', Next PROVE StepsLeft' < StepsLeft
  OBVIOUS
<1>0. /\ Typed /\ Typed' /\ Baton
      /\ pc \in [Procs -> Places] /\ wake \in [Procs -> Seq(Procs)]
      /\ \A q \in Procs : pc[q] = "post" => wake[q] \in WakeLists
  BY DEF Inv, Typed, TypeOK
<1>1. ASSUME NEW p \in Procs, Start(p) PROVE StepsLeft' < StepsLeft
  <2>1. /\ pc[p] = "start" /\ step \in {"NONE", "BOAT"} /\ step' = "BOAT"
        /\ UNCHANGED <<position, record>>
    BY <1>0, <1>1 DEF Start, Baton
  <2>2. OperationsLeft' = OperationsLeft
    BY <2>1 DEF OperationsLeft, Unplaced, BombsLeft, StepLeft
  <2>3. RoundLeft(p) = 6
    BY <2>1 DEF RoundLeft
  <2>4. RoundLeft(p)' \in {4, 5}
    <3>1. CASE p = "parent"
      <4>1. pc'[p] = "post" /\ wake'[p] = <<"parent">>
        BY <1>0, <1>1, <3>1 DEF Start
      <4>2. Len(wake'[p]) = 1
        BY <4>1
      <4> QED BY <4>1, <4>2 DEF RoundLeft
    <3>2. CASE p # "parent"
      <4>1. pc'[p] = "spin"
        BY <1>0, <1>1, <3>2 DEF Start
      <4> QED BY <4>1 DEF RoundLeft
    <3> QED BY <3>1, <3>2
  <2>5. \A q \in Procs : q # p => pc'[q] = pc[q] /\ wake'[q] = wake[q]
    BY <1>0, <1>1 DEF Start
  <2> QED BY <1>0, <2>2, <2>3, <2>4, <2>5, Fewer
<1>2. ASSUME NEW p \in Procs, Spin(p) \/ Clear(p) \/ GameExit(p)
      PROVE  StepsLeft' < StepsLeft
  <2>1. /\ UNCHANGED <<step, position, record>>
        /\ \A q \in Procs : q # p => pc'[q] = pc[q] /\ wake'[q] = wake[q]
    BY <1>0, <1>2 DEF Spin, Clear, GameExit, shared
  <2>2. \/ pc[p] = "spin" /\ pc'[p] = "clear"
        \/ pc[p] = "clear" /\ pc'[p] = "act"
        \/ pc[p] = "act" /\ pc'[p] \in {"bye", "reap"}
    BY <1>0, <1>2 DEF Spin, Clear, GameExit
  <2>3. RoundLeft(p)' < RoundLeft(p)
    BY <2>2 DEF RoundLeft
  <2> QED BY <1>0, <2>1, <2>3, RoundShrinks
<1>3. ASSUME NEW p \in Procs, Post(p) PROVE StepsLeft' < StepsLeft
  <2>1. /\ UNCHANGED <<step, position, record>>
        /\ \A q \in Procs : q # p => pc'[q] = pc[q] /\ wake'[q] = wake[q]
        /\ pc[p] = "post" /\ wake[p] \in WakeLists
    BY <1>0, <1>3 DEF Post
  <2>2. CASE Len(wake[p]) = 1
    <3>1. pc'[p] = "spin"
      BY <1>0, <1>3, <2>2 DEF Post
    <3>2. RoundLeft(p) = 5 /\ RoundLeft(p)' = 4
      BY <2>1, <2>2, <3>1 DEF RoundLeft
    <3> QED BY <1>0, <2>1, <3>2, RoundShrinks
  <2>3. CASE Len(wake[p]) # 1
    <3>1. wake[p] = <<"parent", "child">>
      BY <2>1, <2>3 DEF WakeLists
    <3>2. /\ Len(wake[p]) = 2 /\ pc'[p] = "post" /\ wake'[p] = <<"child">>
      BY <1>0, <1>3, <2>3, <3>1, WakeFacts DEF Post
    <3>3. Len(wake'[p]) = 1
      BY <3>2
    <3>4. RoundLeft(p) = 6 /\ RoundLeft(p)' = 5
      BY <2>1, <3>2, <3>3 DEF RoundLeft
    <3> QED BY <1>0, <2>1, <3>4, RoundShrinks
  <2> QED BY <2>2, <2>3
<1>4. ASSUME NEW p \in Procs, Operate(p) PROVE StepsLeft' < StepsLeft
  <2>1. CASE GenerateBoat(p)
    <3>1. OperationsLeft' < OperationsLeft
      BY <2>1, BoatShrinks
    <3>2. pc[p] = "act" /\ Hand(p, IF p = "parent" THEN "BOAT" ELSE "BOMB", <<Other(p)>>)
      BY <2>1 DEF GenerateBoat
    <3> QED BY <1>0, <3>1, <3>2, OperationShrinks
  <2>2. CASE GenerateBomb(p)
    <3>1. OperationsLeft' < OperationsLeft
      BY <2>2, BombShrinks
    <3>2. pc[p] = "act" /\ Hand(p, "CHECK", <<Other(p)>>)
      BY <2>2 DEF GenerateBomb
    <3> QED BY <1>0, <3>1, <3>2, OperationShrinks
  <2>3. CASE CheckBomb(p)
    <3>1. /\ pc[p] = "act" /\ step = "CHECK" /\ step' \in {"OVER", "BOMB"}
          /\ UNCHANGED <<position, record>>
      BY <2>3 DEF CheckBomb, Hand
    <3>2. StepLeft = 3 /\ StepLeft' \in {1, 2}
      BY <3>1 DEF StepLeft
    <3>3. OperationsLeft' < OperationsLeft
      BY <3>1, <3>2, StepShrinks
    <3>4. Hand(p, "OVER", <<"parent">>) \/ Hand(p, "BOMB", <<MissWakes(p)>>)
      BY <2>3 DEF CheckBomb
    <3> QED BY <1>0, <3>1, <3>3, <3>4, OperationShrinks
  <2> QED BY <1>4, <2>1, <2>2, <2>3 DEF Operate
<1>5. CASE GameOver
  <2>1. /\ pc["parent"] = "act" /\ step = "OVER" /\ step' = "EXIT"
        /\ Hand("parent", "EXIT", ExitWakes) /\ UNCHANGED <<position, record>>
    BY <1>5 DEF GameOver, Hand
  <2>2. StepLeft = 1 /\ StepLeft' = 0
    BY <2>1 DEF StepLeft
  <2>3. OperationsLeft' < OperationsLeft
    BY <2>1, <2>2, StepShrinks
  <2> QED BY <1>0, <2>1, <2>3, OperationShrinks, OtherFacts
<1>6. ASSUME NEW p \in Procs, pc[p] \in {"bye", "reap"}, pc' = [pc EXCEPT ![p] = "exited"],
             UNCHANGED <<step, position, record, wake>>
      PROVE  StepsLeft' < StepsLeft
  <2>1. pc'[p] = "exited" /\ \A q \in Procs : q # p => pc'[q] = pc[q] /\ wake'[q] = wake[q]
    BY <1>0, <1>6
  <2>2. RoundLeft(p) = 1 /\ RoundLeft(p)' = 0
    BY <1>6, <2>1 DEF RoundLeft
  <2> QED BY <1>0, <1>6, <2>1, <2>2, RoundShrinks
<1>7. CASE ChildBye
  BY <1>6, <1>7, OtherFacts DEF ChildBye
<1>8. CASE ParentReap
  BY <1>6, <1>8, OtherFacts DEF ParentReap, shared
<1> QED BY <1>1, <1>2, <1>3, <1>4, <1>5, <1>7, <1>8 DEF Next, ProcNext

(* On every board the game goes on until both processes have exited, and it   *)
(* takes no more steps than StepsLeft says at its beginning.                  *)
THEOREM GameShortCorrect == Spec => GameIsShort
<1>1. Init => Inv /\ Onward
  BY TypedInit, BatonInit, PlacedInit, GameInit, ScoreInit, OnwardInit DEF Inv
<1>2. Inv /\ Onward /\ [Next]_vars => Inv' /\ Onward'
  BY TypedStep, BatonStep, PlacedStep, GameStep, ScoreStep, OnwardStep DEF Inv
<1>3. Inv /\ BombLeft /\ Onward => NeverStuck /\ StepsLeft \in Nat
  BY SomebodyMoves, LeftNat DEF Inv, Counted
<1>4. Inv /\ Inv' /\ [Next]_vars => [StepsLeft' < StepsLeft]_vars
  BY EveryStepCounts
<1> QED
  BY <1>1, <1>2, <1>3, <1>4, BombLeftCorrect, PTL DEF Spec, GameIsShort
===============================================================================
