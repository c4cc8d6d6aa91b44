--------------------------- MODULE MCStatusReport ---------------------------
(* StatusReport on the instance MCHeartbeat describes, with a module that drives
   itself and one that starts again with every hit. *)
EXTENDS StatusReport

CONSTANTS space, f

Fixed(n) == [min |-> n, max |-> n]

MCKeys == {space, f}
MCJumpKeys == {space}

Driving == [enabled |-> TRUE, chance |-> 100, delay |-> [min |-> 0, max |-> 1], hold |-> Fixed(1),
            release |-> Fixed(1), repeats |-> Fixed(1), cooldown |-> Fixed(1),
            key |-> space, cancel |-> FALSE, debugKey |-> f, autoFireMs |-> 1,
            mode |-> "events_and_states"]

Cancelling == [Driving EXCEPT !.chance = 50, !.cancel = TRUE, !.autoFireMs = 0]

DrivenConfigs == {Driving, Cancelling}

MCTriggers     == {f}
GoodActivities == {"none", "both"}
=============================================================================
