------------------------------ MODULE Keyboard ------------------------------
(***************************************************************************)
(* The key queue of keyboard.cpp and the two ways it reaches the game      *)
(* (exported Keyboard objects, or the captured GameActivity), as operators *)
(* on one record.  The modules that own a variable `kb` apply them in      *)
(* their actions.                                                          *)
(*                                                                         *)
(* gPending is kept as one FIFO per key: flush() hands the batch over in   *)
(* order, and nothing the game or the mod reads compares two keys.         *)
(***************************************************************************)
EXTENDS Naturals, Sequences, FiniteSets

CONSTANTS
  Keys,         \* the key codes of this instance, the player's included
  Injectable,   \* those in 1..0xff; queue() and gameKeyDown() refuse the rest
  AndroidKeys,  \* those androidKeyCode() has a translation for
  Backend,      \* what keyboard::init() settled on
  KeyCallback   \* whether the launcher's keyboard callback got registered

Backends  == {"None", "DirectSymbols", "GameActivity"}
Modes     == {"events_and_states", "states_only", "events_only"}
Callbacks == {"none", "down_only", "both"}   \* gActivity->callbacks

ASSUME KeysAssumption == /\ Injectable \subseteq Keys
                         /\ AndroidKeys \subseteq Keys
ASSUME BackendAssumption == Backend \in Backends /\ KeyCallback \in BOOLEAN

(***************************************************************************)
(* held and pending are gHeld and gPending; states is Keyboard::_states,   *)
(* events the last transition the game got for the key (_inputs, or        *)
(* onKeyDown/onKeyUp), real what the player's own finger does; sent is a   *)
(* history of the current pump: what was handed over since it began.       *)
(***************************************************************************)
KeyboardState ==
  [held: [Keys -> BOOLEAN], pending: [Keys -> Seq(BOOLEAN)], mode: Modes,
   states: [Keys -> BOOLEAN], events: [Keys -> BOOLEAN],
   callbacks: Callbacks, real: [Keys -> BOOLEAN], sent: [Keys -> Seq(BOOLEAN)]]

AllUp     == [k \in Keys |-> FALSE]
NoBatches == [k \in Keys |-> << >>]

InitialKeyboard(mode) ==
  [held |-> AllUp, pending |-> NoBatches, mode |-> mode, states |-> AllUp,
   events |-> AllUp, callbacks |-> "none", real |-> AllUp, sent |-> NoBatches]

(* queue(): refuses a code out of range and a state the key is already in. *)
Queue(kb, k, down) ==
  IF k \notin Injectable \/ kb.held[k] = down
  THEN kb
  ELSE [kb EXCEPT !.held[k] = down, !.pending[k] = Append(@, down)]

Press(kb, k)   == Queue(kb, k, TRUE)
Release(kb, k) == Queue(kb, k, FALSE)

(* ready() and gameactivity::live(): onKeyUp is not looked at. *)
Live(kb)  == kb.callbacks # "none"
Ready(kb) == \/ Backend = "DirectSymbols"
             \/ Backend = "GameActivity" /\ Live(kb)

(* gameKeyDown(): _states when there is one, else the launcher's callback. *)
GameKeyDown(kb, k) ==
  /\ k \in Injectable
  /\ IF Backend = "DirectSymbols" THEN kb.states[k] ELSE KeyCallback /\ kb.real[k]

Presses(batch) == [i \in 1 .. Cardinality({j \in DOMAIN batch : batch[j]}) |-> TRUE]

(* What of a batch gets through: gameactivity::send() drops a key it has no
   Android code for, and a release the activity has no handler for. *)
Accepted(kb, k) ==
  IF Backend # "GameActivity" THEN kb.pending[k]
  ELSE IF k \notin AndroidKeys THEN << >>
  ELSE IF kb.callbacks = "both" THEN kb.pending[k] ELSE Presses(kb.pending[k])

WritesStates(kb) == Backend = "DirectSymbols" /\ kb.mode # "events_only"
SendsEvents(kb)  == Backend = "GameActivity" \/ kb.mode # "states_only"

After(batch, before) == IF batch = << >> THEN before ELSE batch[Len(batch)]

Flush(kb) ==
  IF ~Ready(kb) THEN kb
  ELSE [kb EXCEPT
         !.pending = NoBatches,
         !.states  = IF WritesStates(kb) THEN [k \in Keys |-> After(Accepted(kb, k), @[k])] ELSE @,
         !.events  = IF SendsEvents(kb) THEN [k \in Keys |-> After(Accepted(kb, k), @[k])] ELSE @,
         !.sent    = [k \in Keys |-> @[k] \o Accepted(kb, k)]]

(* Fault: the releases are queued but nothing hands them over. *)
ReleaseAllQuietly(kb) ==
  [kb EXCEPT !.held    = AllUp,
             !.pending = [k \in Keys |-> IF kb.held[k] THEN Append(@[k], FALSE) ELSE @[k]]]

ReleaseAll(kb) ==
  Flush([kb EXCEPT !.held    = AllUp,
                   !.pending = [k \in Keys |-> IF kb.held[k] THEN Append(@[k], FALSE)
                                               ELSE @[k]]])

(* Fault: the new mode is in force before the keys are let go. *)
SetInjectModeFirst(kb, mode) ==
  IF kb.mode = mode THEN kb ELSE ReleaseAll([kb EXCEPT !.mode = mode])

(* What is held is let go under the old mode, which is the one it went down
   under. *)
SetInjectMode(kb, mode) ==
  IF kb.mode = mode THEN kb ELSE [ReleaseAll(kb) EXCEPT !.mode = mode]

(* onCreateHook(): the game filled in this callbacks table. *)
Captured(kb, callbacks) == [kb EXCEPT !.callbacks = callbacks]

(* The player's own finger: the launcher feeds the game the same way the mod
   does, and tells the mod through onKeyboard. *)
Touched(kb, k, down) ==
  LET direct == Backend = "DirectSymbols"
  IN  [kb EXCEPT !.real[k]   = down,
                 !.states[k] = IF direct THEN down ELSE @,
                 !.events[k] = down]

NewPump(kb) == [kb EXCEPT !.sent = NoBatches]

(* What the game believes: _states for whoever samples it, the last event for
   whoever listens. *)
GameSees(kb, k) == kb.states[k] \/ kb.events[k]

(* Once the queue is drained the game is where gHeld says, in each of the two
   places it looks that the mode feeds; the other one stays up. *)
Agrees(kb, k) ==
  /\ IF WritesStates(kb) THEN After(kb.pending[k], kb.states[k]) = kb.held[k]
                         ELSE ~kb.states[k]
  /\ IF SendsEvents(kb)  THEN After(kb.pending[k], kb.events[k]) = kb.held[k]
                         ELSE ~kb.events[k]
=============================================================================
