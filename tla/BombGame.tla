-------------------------------- MODULE BombGame --------------------------------
(***************************************************************************)
(* The game that the two processes of project/BattleShip play: each places *)
(* a boat, then they bomb a cell in turn, never one of their own twice,    *)
(* and each bomb is judged before the next is thrown.  The first player    *)
(* wins with the bomb that completes the hits on the second player's boat, *)
(* and not before.  Nothing is promised about when the second player wins, *)
(* except that it has just bombed: its bombs never reach the other process.*)
(***************************************************************************)
EXTENDS Naturals, FiniteSets

CONSTANTS
    Cells,            \* what can be bombed
    Boats,            \* pairs of cells
    NoBoat,           \* not a boat
    First, Second     \* the players, in the order of play

VARIABLES
    phase,            \* "place", "throw", "judge" or "over"
    boat,             \* each player's boat
    bombs,            \* the cells each player has bombed
    winner            \* 0 while there is none, 1 or 2

game == <<phase, boat, bombs, winner>>

Players == {First, Second}
Even == Cardinality(bombs[First]) = Cardinality(bombs[Second])
Ends(b) == {b[1], b[2]}

Init ==
    /\ phase = "place"
    /\ boat = [p \in Players |-> NoBoat]
    /\ bombs = [p \in Players |-> {}]
    /\ winner = 0

Place(p, b) ==
    /\ phase = "place" /\ boat[p] = NoBoat
    /\ p = Second => boat[First] \in Boats
    /\ boat' = [boat EXCEPT ![p] = b]
    /\ phase' = IF p = First THEN "place" ELSE "throw"
    /\ UNCHANGED <<bombs, winner>>

Throw(p, c) ==
    /\ phase = "throw"
    /\ p = First <=> Even
    /\ c \notin bombs[p]
    /\ bombs' = [bombs EXCEPT ![p] = @ \cup {c}]
    /\ phase' = "judge"
    /\ UNCHANGED <<boat, winner>>

Sunk == Ends(boat[Second]) \subseteq bombs[First]

(* Even means that the second player has just thrown. *)
GoesOn ==
    /\ phase = "judge" /\ ~Sunk
    /\ phase' = "throw"
    /\ UNCHANGED <<boat, bombs, winner>>

FirstWins ==
    /\ phase = "judge" /\ ~Even /\ Sunk
    /\ phase' = "over"
    /\ winner' = 1
    /\ UNCHANGED <<boat, bombs>>

SecondWins ==
    /\ phase = "judge" /\ Even /\ ~Sunk
    /\ phase' = "over"
    /\ winner' = 2
    /\ UNCHANGED <<boat, bombs>>

Next ==
    \/ \E p \in Players : \/ \E b \in Boats : Place(p, b)
                          \/ \E c \in Cells : Throw(p, c)
    \/ GoesOn \/ FirstWins \/ SecondWins

Spec == Init /\ [][Next]_game
===============================================================================
