---------------------------- MODULE KeyChannel ------------------------------
(***************************************************************************)
(* What the key queue promises for one key: presses and releases           *)
(* alternate, and each reaches the game once, unless the game hears        *)
(* nothing when its turn comes; one at a time and in the order they were   *)
(* asked for, unless two threads hand them over.                           *)
(***************************************************************************)
EXTENDS Sequences, Naturals, FiniteSets

VARIABLES
  oneHand,   \* whether one thread at a time hands over
  heard,     \* whether the game takes keys at present
  held,      \* what the mod asked for last
  underway,  \* asked for and not yet seen by the game
  game       \* what the game sees

vars == <<oneHand, heard, held, underway, game>>

Init == oneHand \in BOOLEAN /\ heard \in BOOLEAN
        /\ held = FALSE /\ underway = << >> /\ game = FALSE

Ask == /\ held' = ~held
       /\ underway' = Append(underway, held')
       /\ UNCHANGED <<oneHand, heard, game>>

(* To a game that hears nothing a transition is lost. *)
Arrive == /\ underway # << >>
          /\ game' = IF heard THEN Head(underway) ELSE game
          /\ underway' = Tail(underway)
          /\ UNCHANGED <<oneHand, heard, held>>

Listen == heard' = ~heard /\ UNCHANGED <<oneHand, held, underway, game>>

Counted(transitions, down) == Cardinality({i \in DOMAIN transitions : transitions[i] = down})

(* With two hands at it, what is underway may be overtaken but not lost. *)
Overtake == /\ ~oneHand
            /\ \A down \in BOOLEAN : Counted(underway', down) = Counted(underway, down)
            /\ UNCHANGED <<oneHand, heard, held, game>>

ArriveAnywhere == /\ ~oneHand
                  /\ \E i \in DOMAIN underway :
                       /\ game' = IF heard THEN underway[i] ELSE game
                       /\ underway' = SubSeq(underway, 1, i - 1)
                                        \o SubSeq(underway, i + 1, Len(underway))
                  /\ UNCHANGED <<oneHand, heard, held>>

Spec == Init /\ [][Ask \/ Arrive \/ Listen \/ Overtake \/ ArriveAnywhere]_vars
=============================================================================
