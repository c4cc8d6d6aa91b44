---------------------------- MODULE MCHeartbeat -----------------------------
(* Small instances of Heartbeat: two jump keys, one trigger key, configs one
   edit apart. *)
EXTENDS Heartbeat

CONSTANTS space, w, f

Fixed(n) == [min |-> n, max |-> n]
Span(a, b) == [min |-> a, max |-> b]

MCKeys == {space, w, f}
MCJumpKeys == {space, w}

Base == [enabled |-> TRUE, chance |-> 50, delay |-> Span(0, 1), hold |-> Fixed(2),
         release |-> Fixed(1), repeats |-> Span(0, 2), cooldown |-> Fixed(2),
         key |-> space, cancel |-> FALSE, debugKey |-> NoKey, autoFireMs |-> 0,
         mode |-> "events_and_states"]

Off        == [Base EXCEPT !.enabled = FALSE]
OtherKey   == [Base EXCEPT !.key = w]
StatesOnly == [Base EXCEPT !.mode = "states_only"]
EventsOnly == [Base EXCEPT !.mode = "events_only"]
AutoFiring == [Base EXCEPT !.autoFireMs = 2]

Echoing    == [Base EXCEPT !.debugKey = space]

PatientConfigs == {Base, Off, OtherKey, StatesOnly, EventsOnly, AutoFiring, Echoing}

(* All of Next that can happen where the game tick is hooked from the start, the
   objects are exported and no finger is on a key. *)
ASSUME FramesAssumption == GameTickHook /\ Backend = "DirectSymbols" /\ PlayerKeys = {}

FramesNext == GamePump \/ Hurt \/ Shutdown \/ Elapse

FramesSpec == Init /\ [][FramesNext]_vars /\ Fairness
=============================================================================
