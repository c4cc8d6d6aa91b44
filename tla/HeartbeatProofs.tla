-------------------------- MODULE HeartbeatProofs ---------------------------
(***************************************************************************)
(* No key is ever left stuck: for every set of keys, every config file and *)
(* every order of ticks, hits, reloads, key presses and shutdown.  Each    *)
(* handler preserves WorldInv; the actions only compose handlers.          *)
(*                                                                         *)
(* In this order: what the operators of the key queue return, preserve and *)
(* agree on; what the handlers preserve, and the theorems that follow; the *)
(* cooldown; the frames that tell a press from its release; how long a     *)
(* hold lasts; and that none of it changes when the status report watches. *)
(***************************************************************************)
EXTENDS StatusReport, SequenceTheorems, FiniteSetTheorems, TLAPS

-----------------------------------------------------------------------------
(* Everything a handler does to the queue leaves a well-typed queue. *)

LEMMA QueueType ==
  ASSUME NEW b \in KeyboardState, NEW k \in Keys, NEW down \in BOOLEAN
  PROVE  Queue(b, k, down) \in KeyboardState
<1>1. Append(b.pending[k], down) \in Seq(BOOLEAN)
  BY AppendProperties DEF KeyboardState
<1> QED
  BY <1>1 DEF Queue, KeyboardState

LEMMA PressesType ==
  ASSUME NEW batch \in Seq(BOOLEAN)
  PROVE  Presses(batch) \in Seq(BOOLEAN)
<1> DEFINE Downs == {j \in DOMAIN batch : batch[j]}
<1>1. DOMAIN batch = 1 .. Len(batch) /\ Len(batch) \in Nat
  BY LenProperties
<1>2. IsFiniteSet(1 .. Len(batch))
  BY <1>1, FS_Interval
<1>3. IsFiniteSet(Downs)
  BY <1>1, <1>2, FS_Subset
<1>4. Cardinality(Downs) \in Nat
  BY <1>3, FS_CardinalityType
<1>5. [i \in 1 .. Cardinality(Downs) |-> TRUE] \in [1 .. Cardinality(Downs) -> BOOLEAN]
  OBVIOUS
<1> HIDE DEF Downs
<1>6. [i \in 1 .. Cardinality(Downs) |-> TRUE] \in Seq(BOOLEAN)
  BY <1>4, <1>5, SeqDef
<1> QED
  BY <1>6 DEF Presses, Downs

LEMMA AcceptedType ==
  ASSUME NEW b \in KeyboardState, NEW k \in Keys
  PROVE  Accepted(b, k) \in Seq(BOOLEAN)
<1>1. b.pending[k] \in Seq(BOOLEAN)
  BY DEF KeyboardState
<1>2. << >> \in Seq(BOOLEAN)
  BY EmptySeq
<1> QED
  BY <1>1, <1>2, PressesType DEF Accepted

LEMMA AfterType ==
  ASSUME NEW batch \in Seq(BOOLEAN), NEW before \in BOOLEAN
  PROVE  After(batch, before) \in BOOLEAN
BY LenProperties, EmptySeq, ElementOfSeq DEF After

LEMMA FlushType ==
  ASSUME NEW b \in KeyboardState
  PROVE  Flush(b) \in KeyboardState
<1>1. NoBatches \in [Keys -> Seq(BOOLEAN)]
  BY EmptySeq DEF NoBatches
<1>2. [k \in Keys |-> After(Accepted(b, k), b.states[k])] \in [Keys -> BOOLEAN]
  BY AcceptedType, AfterType DEF KeyboardState
<1>3. [k \in Keys |-> After(Accepted(b, k), b.events[k])] \in [Keys -> BOOLEAN]
  BY AcceptedType, AfterType DEF KeyboardState
<1>4. [k \in Keys |-> b.sent[k] \o Accepted(b, k)] \in [Keys -> Seq(BOOLEAN)]
  <2>1. ASSUME NEW k \in Keys PROVE b.sent[k] \o Accepted(b, k) \in Seq(BOOLEAN)
    BY AcceptedType, ConcatProperties DEF KeyboardState
  <2> QED
    BY <2>1
<1> QED
  BY <1>1, <1>2, <1>3, <1>4 DEF Flush, KeyboardState

LEMMA ReleaseAllType ==
  ASSUME NEW b \in KeyboardState
  PROVE  ReleaseAll(b) \in KeyboardState
<1>1. [k \in Keys |-> IF b.held[k] THEN Append(b.pending[k], FALSE) ELSE b.pending[k]]
        \in [Keys -> Seq(BOOLEAN)]
  BY AppendProperties DEF KeyboardState
<1>2. AllUp \in [Keys -> BOOLEAN]
  BY DEF AllUp
<1>3. [b EXCEPT !.held    = AllUp,
                !.pending = [k \in Keys |-> IF b.held[k] THEN Append(b.pending[k], FALSE)
                                            ELSE b.pending[k]]] \in KeyboardState
  BY <1>1, <1>2 DEF KeyboardState
<1> QED
  BY <1>3, FlushType DEF ReleaseAll, KeyboardState

LEMMA SetInjectModeType ==
  ASSUME NEW b \in KeyboardState, NEW mode \in Modes
  PROVE  SetInjectMode(b, mode) \in KeyboardState
<1>1. ReleaseAll(b) \in KeyboardState
  BY ReleaseAllType
<1> QED
  BY <1>1 DEF SetInjectMode, KeyboardState

(* What each operator does to gHeld. *)

LEMMA QueueHeld ==
  ASSUME NEW b \in KeyboardState, NEW k \in Keys, NEW down \in BOOLEAN
  PROVE  /\ \A j \in Keys : j # k => Queue(b, k, down).held[j] = b.held[j]
         /\ Queue(b, k, down).held[k] = (IF k \in Injectable THEN down ELSE b.held[k])
BY DEF Queue, KeyboardState

LEMMA QueuePends ==
  ASSUME NEW b \in KeyboardState, NEW k \in Injectable, NEW down \in BOOLEAN,
         b.held[k] # down
  PROVE  Queue(b, k, down).pending[k] = Append(b.pending[k], down)
<1>1. Queue(b, k, down) = [b EXCEPT !.held[k] = down, !.pending[k] = Append(@, down)]
  BY DEF Queue
<1>2. "pending" \in DOMAIN b /\ k \in DOMAIN b.pending
  BY KeysAssumption DEF KeyboardState
<1> QED
  BY <1>1, <1>2

LEMMA FlushHeld ==
  ASSUME NEW b \in KeyboardState
  PROVE  Flush(b).held = b.held
BY DEF Flush, KeyboardState

LEMMA ReleaseAllHeld ==
  ASSUME NEW b \in KeyboardState
  PROVE  ReleaseAll(b).held = AllUp
BY DEF ReleaseAll, Flush, KeyboardState

LEMMA SetInjectModeHeld ==
  ASSUME NEW b \in KeyboardState, NEW mode \in Modes, NEW k \in Keys,
         SetInjectMode(b, mode).held[k]
  PROVE  b.held[k]
<1>1. ReleaseAll(b) \in KeyboardState
  BY ReleaseAllType
<1>2. [ReleaseAll(b) EXCEPT !.mode = mode].held = AllUp
  BY <1>1, ReleaseAllHeld DEF KeyboardState
<1> QED
  BY <1>2 DEF SetInjectMode, AllUp

-----------------------------------------------------------------------------
(* With the exported Keyboard objects every operator keeps the game's view and
   gHeld in step, whatever key and whatever mode. *)

LEMMA AfterAppend ==
  ASSUME NEW batch \in Seq(BOOLEAN), NEW down \in BOOLEAN, NEW before \in BOOLEAN
  PROVE  After(Append(batch, down), before) = down
<1>1. /\ Append(batch, down) \in Seq(BOOLEAN)
      /\ Len(Append(batch, down)) = Len(batch) + 1
      /\ Append(batch, down)[Len(batch) + 1] = down
  BY AppendProperties
<1>2. Append(batch, down) # << >>
  BY <1>1, LenProperties, EmptySeq
<1> QED
  BY <1>1, <1>2 DEF After

LEMMA QueueAgrees ==
  ASSUME NEW b \in KeyboardState, NEW k \in Keys, NEW down \in BOOLEAN,
         NEW j \in Keys, Agrees(b, j)
  PROVE  Agrees(Queue(b, k, down), j)
<1> DEFINE q == Queue(b, k, down)
<1>1. CASE k \notin Injectable \/ b.held[k] = down
  BY <1>1 DEF Queue
<1>2. CASE ~(k \notin Injectable \/ b.held[k] = down)
  <2>1. /\ q.mode = b.mode /\ q.states = b.states /\ q.events = b.events
        /\ q.held = [b.held EXCEPT ![k] = down]
        /\ q.pending = [b.pending EXCEPT ![k] = Append(@, down)]
    BY <1>2 DEF Queue, KeyboardState
  <2>2. WritesStates(q) = WritesStates(b) /\ SendsEvents(q) = SendsEvents(b)
    BY <2>1 DEF WritesStates, SendsEvents
  <2>3. CASE j = k
    <3>1. q.held[k] = down /\ q.pending[k] = Append(b.pending[k], down)
      BY <2>1 DEF KeyboardState
    <3>2. b.pending[k] \in Seq(BOOLEAN) /\ b.states[k] \in BOOLEAN /\ b.events[k] \in BOOLEAN
      BY DEF KeyboardState
    <3>3. /\ After(q.pending[k], q.states[k]) = down
          /\ After(q.pending[k], q.events[k]) = down
      BY <2>1, <3>1, <3>2, AfterAppend
    <3> QED
      BY <2>1, <2>2, <2>3, <3>1, <3>3 DEF Agrees
  <2>4. CASE j # k
    <3>1. q.held[j] = b.held[j] /\ q.pending[j] = b.pending[j]
      BY <2>1, <2>4 DEF KeyboardState
    <3> QED
      BY <2>1, <2>2, <3>1 DEF Agrees
  <2> QED
    BY <2>3, <2>4
<1> QED
  BY <1>1, <1>2

LEMMA FlushAgrees ==
  ASSUME NEW b \in KeyboardState, NEW j \in Keys, Agrees(b, j),
         Ready(b), Accepted(b, j) = b.pending[j]
  PROVE  /\ Agrees(Flush(b), j)
         /\ Flush(b).pending[j] = << >>
<1> DEFINE q == Flush(b)
<1>1. /\ q.mode = b.mode /\ q.held = b.held /\ q.pending = NoBatches
      /\ q.states[j] = IF WritesStates(b) THEN After(b.pending[j], b.states[j]) ELSE b.states[j]
      /\ q.events[j] = IF SendsEvents(b) THEN After(b.pending[j], b.events[j]) ELSE b.events[j]
  BY DEF Flush, KeyboardState
<1>2. WritesStates(q) = WritesStates(b) /\ SendsEvents(q) = SendsEvents(b)
  BY <1>1 DEF WritesStates, SendsEvents
<1>3. q.pending[j] = << >>
  BY <1>1 DEF NoBatches
<1>4. /\ After(q.pending[j], q.states[j]) = q.states[j]
      /\ After(q.pending[j], q.events[j]) = q.events[j]
  BY <1>3 DEF After
<1> QED
  BY <1>1, <1>2, <1>3, <1>4 DEF Agrees

(* Whether the game can be told of a key, and what it knows of it: what gHeld says once
   the queue is handed over, or nothing at all. *)
Told(k) == Backend = "DirectSymbols" \/ (Backend = "GameActivity" /\ k \in AndroidKeys)

Tracks(b, k) == IF Told(k) THEN Agrees(b, k) ELSE ~b.states[k] /\ ~b.events[k]

LEMMA CallbacksKept ==
  ASSUME NEW b \in KeyboardState
  PROVE  /\ \A k, down : Queue(b, k, down).callbacks = b.callbacks
         /\ Flush(b).callbacks = b.callbacks
         /\ ReleaseAll(b).callbacks = b.callbacks
         /\ \A mode \in Modes : SetInjectMode(b, mode).callbacks = b.callbacks
<1>1. /\ Flush(b).callbacks = b.callbacks /\ ReleaseAll(b).callbacks = b.callbacks
      /\ ReleaseAll(b) \in KeyboardState
  BY ReleaseAllType DEF ReleaseAll, Flush, KeyboardState
<1>2. \A k, down : Queue(b, k, down).callbacks = b.callbacks
  BY DEF Queue, KeyboardState
<1>3. \A mode \in Modes : SetInjectMode(b, mode).callbacks = b.callbacks
  BY <1>1 DEF SetInjectMode, KeyboardState
<1> QED
  BY <1>1, <1>2, <1>3

LEMMA QueueTracks ==
  ASSUME NEW b \in KeyboardState, NEW k \in Keys, NEW down \in BOOLEAN,
         NEW j \in Keys, Tracks(b, j)
  PROVE  Tracks(Queue(b, k, down), j)
<1>1. Queue(b, k, down).states = b.states /\ Queue(b, k, down).events = b.events
  BY DEF Queue, KeyboardState
<1> QED
  BY <1>1, QueueAgrees DEF Tracks

(* An activity that has both handlers takes every key it has a code for and knows
   nothing of the others. *)
LEMMA FlushTracks ==
  ASSUME NEW b \in KeyboardState, b.callbacks # "down_only", NEW j \in Keys, Tracks(b, j)
  PROVE  /\ Tracks(Flush(b), j)
         /\ Ready(b) => Flush(b).pending[j] = << >>
<1>1. CASE ~Ready(b)
  BY <1>1 DEF Flush
<1>2. CASE Ready(b)
  <2>1. /\ Flush(b).pending = NoBatches
        /\ Flush(b).states[j] \in {b.states[j], After(Accepted(b, j), b.states[j])}
        /\ Flush(b).events[j] \in {b.events[j], After(Accepted(b, j), b.events[j])}
    BY <1>2 DEF Flush, KeyboardState
  <2>2. CASE Told(j)
    <3>1. Accepted(b, j) = b.pending[j]
      BY <1>2, <2>2 DEF Told, Ready, Live, Accepted, KeyboardState, Callbacks
    <3> QED
      BY <1>2, <2>1, <2>2, <3>1, FlushAgrees DEF Tracks
  <2>3. CASE ~Told(j)
    <3>1. Accepted(b, j) = << >>
      BY <1>2, <2>3 DEF Told, Ready, Accepted
    <3>2. Flush(b).states[j] = b.states[j] /\ Flush(b).events[j] = b.events[j]
      BY <2>1, <3>1 DEF After
    <3> QED
      BY <2>1, <2>3, <3>2 DEF Tracks, NoBatches
  <2> QED
    BY <2>2, <2>3
<1> QED
  BY <1>1, <1>2

LEMMA ReleaseAllTracks ==
  ASSUME NEW b \in KeyboardState, b.callbacks # "down_only", NEW j \in Keys, Tracks(b, j)
  PROVE  /\ Tracks(ReleaseAll(b), j)
         /\ Ready(b) => ReleaseAll(b).pending[j] = << >>
<1> DEFINE r == [b EXCEPT !.held    = AllUp,
                          !.pending = [k \in Keys |-> IF b.held[k] THEN Append(b.pending[k], FALSE)
                                                      ELSE b.pending[k]]]
<1>1. [k \in Keys |-> IF b.held[k] THEN Append(b.pending[k], FALSE) ELSE b.pending[k]]
        \in [Keys -> Seq(BOOLEAN)]
  BY AppendProperties DEF KeyboardState
<1>2. r \in KeyboardState
  BY <1>1 DEF KeyboardState, AllUp
<1>3. /\ r.mode = b.mode /\ r.states = b.states /\ r.events = b.events
      /\ r.callbacks = b.callbacks /\ r.held[j] = FALSE
      /\ r.pending[j] = IF b.held[j] THEN Append(b.pending[j], FALSE) ELSE b.pending[j]
  BY DEF KeyboardState, AllUp
<1>4. b.pending[j] \in Seq(BOOLEAN) /\ b.states[j] \in BOOLEAN /\ b.events[j] \in BOOLEAN
      /\ b.held[j] \in BOOLEAN
  BY DEF KeyboardState
<1>5. /\ WritesStates(r) = WritesStates(b) /\ SendsEvents(r) = SendsEvents(b)
      /\ Ready(r) = Ready(b)
  BY <1>3 DEF WritesStates, SendsEvents, Ready, Live
<1>6. Tracks(r, j)
  <2>1. CASE Told(j)
    <3>1. Agrees(r, j)
      BY <1>3, <1>4, <1>5, <2>1, AfterAppend DEF Agrees, Tracks
    <3> QED
      BY <2>1, <3>1 DEF Tracks
  <2>2. CASE ~Told(j)
    BY <1>3, <2>2 DEF Tracks
  <2> QED
    BY <2>1, <2>2
<1>7. ReleaseAll(b) = Flush(r)
  BY DEF ReleaseAll
<1> HIDE DEF r
<1> QED
  BY <1>2, <1>3, <1>5, <1>6, <1>7, FlushTracks

(* The mode changes only after everything went up under the old one: this is
   what the order inside setInjectMode() is for. *)
LEMMA SetInjectModeTracks ==
  ASSUME NEW b \in KeyboardState, b.callbacks # "down_only", NEW mode \in Modes,
         NEW j \in Keys, Tracks(b, j)
  PROVE  Tracks(SetInjectMode(b, mode), j)
<1> DEFINE r == ReleaseAll(b)
           q == [r EXCEPT !.mode = mode]
<1>1. /\ r \in KeyboardState /\ Tracks(r, j)
      /\ Ready(b) => r.pending[j] = << >>
  BY ReleaseAllType, ReleaseAllTracks
<1>2. r.held[j] = FALSE
  BY ReleaseAllHeld DEF AllUp
<1> HIDE DEF r
<1>3. /\ q.held = r.held /\ q.pending = r.pending
      /\ q.states = r.states /\ q.events = r.events
  BY <1>1 DEF KeyboardState
<1>4. CASE Backend = "DirectSymbols"
  <2>1. Agrees(r, j) /\ r.pending[j] = << >>
    BY <1>1, <1>4 DEF Tracks, Told, Ready
  <2>2. r.states[j] = FALSE /\ r.events[j] = FALSE
    BY <1>1, <1>2, <2>1 DEF Agrees, After, KeyboardState
  <2>3. Agrees(q, j)
    BY <1>2, <1>3, <2>1, <2>2 DEF Agrees, After
  <2> QED
    BY <1>1, <1>3, <1>4, <2>3 DEF SetInjectMode, Tracks, Told, r
<1>5. CASE Backend = "GameActivity" /\ j \in AndroidKeys
  <2>1. Agrees(r, j)
    BY <1>1, <1>5 DEF Tracks, Told
  <2>2. Agrees(q, j)
    BY <1>3, <1>5, <2>1 DEF Agrees, WritesStates, SendsEvents
  <2> QED
    BY <1>1, <1>3, <1>5, <2>2 DEF SetInjectMode, Tracks, Told, r
<1>6. CASE ~Told(j)
  BY <1>1, <1>3, <1>6 DEF SetInjectMode, Tracks, r
<1> QED
  BY <1>4, <1>5, <1>6 DEF Told

-----------------------------------------------------------------------------
(* The invariant: of a world, between handlers. *)

HoldInv(w) ==
  \A k \in Keys :
    w.kb.held[k] => /\ k \in Injectable
                    /\ w.seq.active /\ w.seq.holding /\ w.seq.heldKey = k

(* No activity has a handler for presses alone, as far as the mod reaches the game
   through one. *)
WholeActivities == Backend = "GameActivity" => "down_only" \notin Activities

AgreeInv(b) ==
  WholeActivities => b.callbacks # "down_only" /\ \A k \in ModKeys : Tracks(b, k)

WorldInv(w) == /\ w \in WorldState
               /\ HoldInv(w)
               /\ AgreeInv(w.kb)
               /\ w.seq.active => w.seq.pressesLeft > 0

-----------------------------------------------------------------------------
(* Draws and deadlines. *)

LEMMA NotNegativeType ==
  ASSUME NEW n \in Int
  PROVE  NotNegative(n) \in Nat
BY DEF NotNegative

LEMMA PickType ==
  ASSUME NEW range \in Ranges, NEW n \in Pick(range)
  PROVE  n \in Int
BY DEF Pick, Ranges

LEMMA SettingsRanges ==
  ASSUME NEW c \in Settings
  PROVE  /\ c.delay \in Ranges /\ c.hold \in Ranges /\ c.release \in Ranges
         /\ c.repeats \in Ranges /\ c.cooldown \in Ranges
         /\ c.key \in Keys /\ c.mode \in Modes
BY DEF Settings

(* A change of the queue that keeps it typed, agreeing and no more held than
   the sequence allows keeps the world's invariant. *)
LEMMA WorldFields ==
  ASSUME NEW w \in WorldState
  PROVE  /\ w.seq \in SequenceState /\ w.kb \in KeyboardState
         /\ w.seq.active \in BOOLEAN /\ w.seq.holding \in BOOLEAN
         /\ w.seq.heldKey \in Keys /\ w.seq.pressesLeft \in Nat
         /\ w = [seq |-> w.seq, kb |-> w.kb]
BY DEF WorldState, SequenceState

LEMMA QueueAgreeInv ==
  ASSUME NEW b \in KeyboardState, AgreeInv(b), NEW k \in Keys, NEW down \in BOOLEAN
  PROVE  AgreeInv(Queue(b, k, down))
BY QueueTracks, CallbacksKept DEF AgreeInv, ModKeys

LEMMA FlushAgreeInv ==
  ASSUME NEW b \in KeyboardState, AgreeInv(b)
  PROVE  AgreeInv(Flush(b))
BY FlushTracks, CallbacksKept DEF AgreeInv, ModKeys

LEMMA ReleaseAllAgreeInv ==
  ASSUME NEW b \in KeyboardState, AgreeInv(b)
  PROVE  AgreeInv(ReleaseAll(b))
BY ReleaseAllTracks, CallbacksKept DEF AgreeInv, ModKeys

LEMMA SetInjectModeAgreeInv ==
  ASSUME NEW b \in KeyboardState, AgreeInv(b), NEW mode \in Modes
  PROVE  AgreeInv(SetInjectMode(b, mode))
BY SetInjectModeTracks, CallbacksKept DEF AgreeInv, ModKeys

-----------------------------------------------------------------------------
(* The handlers. *)

LEMMA AbortPreserves ==
  ASSUME NEW w, WorldInv(w)
  PROVE  /\ WorldInv(AbortSequence(w))
         /\ ~AbortSequence(w).seq.active /\ ~AbortSequence(w).seq.holding
<1> DEFINE s == [w.seq EXCEPT !.active = FALSE, !.holding = FALSE, !.pressesLeft = 0]
           b == IF w.seq.holding THEN Release(w.kb, w.seq.heldKey) ELSE w.kb
<1> USE DEF WorldInv
<1>1. CASE ~w.seq.active /\ ~w.seq.holding
  BY <1>1 DEF AbortSequence
<1>2. CASE ~(~w.seq.active /\ ~w.seq.holding)
  <2>1. AbortSequence(w) = [seq |-> s, kb |-> b]
    BY <1>2 DEF AbortSequence
  <2>2. s \in SequenceState /\ ~s.active /\ ~s.holding
    BY WorldFields DEF SequenceState
  <2>3. b \in KeyboardState /\ AgreeInv(b)
    BY WorldFields, QueueType, QueueAgreeInv DEF Release
  <2> HIDE DEF s, b
  <2>4. ASSUME NEW k \in Keys PROVE ~b.held[k]
    <3>1. CASE w.seq.holding
      <4>1. b = Queue(w.kb, w.seq.heldKey, FALSE) /\ w.seq.heldKey \in Keys
            /\ w.kb \in KeyboardState
        BY <3>1, WorldFields DEF Release, b
      <4>2. w.kb.held[k] => k = w.seq.heldKey /\ k \in Injectable
        BY DEF HoldInv
      <4>3. CASE k # w.seq.heldKey
        <5>1. b.held[k] = w.kb.held[k]
          BY <4>1, <4>3, QueueHeld
        <5> QED
          BY <5>1, <4>2, <4>3
      <4>4. CASE k = w.seq.heldKey /\ k \in Injectable
        BY <4>1, <4>4, QueueHeld
      <4>5. CASE k = w.seq.heldKey /\ k \notin Injectable
        BY <4>1, <4>2, <4>5, QueueHeld
      <4> QED
        BY <4>3, <4>4, <4>5
    <3>2. CASE ~w.seq.holding
      BY <3>2 DEF HoldInv, b
    <3> QED
      BY <3>1, <3>2
  <2>5. HoldInv([seq |-> s, kb |-> b])
    BY <2>4 DEF HoldInv
  <2> QED
    BY <2>1, <2>2, <2>3, <2>5 DEF WorldState
<1> QED
  BY <1>1, <1>2

LEMMA ConfiguredPreserves ==
  ASSUME NEW old \in Settings, NEW new \in Settings, NEW w, WorldInv(w)
  PROVE  WorldInv(OnConfigured(old, new, w))
<1> DEFINE moded    == [w EXCEPT !.kb = SetInjectMode(@, new.mode)]
           disabled == IF old.enabled /\ ~new.enabled THEN AbortSequence(moded) ELSE moded
<1>1. w \in WorldState /\ HoldInv(w) /\ AgreeInv(w.kb) /\ new.mode \in Modes
  BY SettingsRanges DEF WorldInv
<1>2. moded = [seq |-> w.seq, kb |-> SetInjectMode(w.kb, new.mode)]
  BY <1>1 DEF WorldState
<1>3. SetInjectMode(w.kb, new.mode) \in KeyboardState
  BY <1>1, WorldFields, SetInjectModeType
<1>4. AgreeInv(SetInjectMode(w.kb, new.mode))
  BY <1>1, WorldFields, SetInjectModeAgreeInv
<1>5. \A k \in Keys : SetInjectMode(w.kb, new.mode).held[k] => w.kb.held[k]
  BY <1>1, WorldFields, SetInjectModeHeld
<1>6. WorldInv(moded)
  <2>1. HoldInv([seq |-> w.seq, kb |-> SetInjectMode(w.kb, new.mode)])
    BY <1>1, <1>5 DEF HoldInv
  <2> QED
    BY <1>1, <1>2, <1>3, <1>4, <2>1, WorldFields DEF WorldInv, WorldState
<1> HIDE DEF moded
<1>7. WorldInv(disabled)
  BY <1>6, AbortPreserves
<1>8. OnConfigured(old, new, w) = IF disabled.seq.active /\ disabled.seq.heldKey # new.key
                                  THEN AbortSequence(disabled) ELSE disabled
  BY DEF OnConfigured, moded
<1> HIDE DEF disabled
<1> QED
  BY <1>7, <1>8, AbortPreserves

(* A step of the sequence that leaves the queue alone and no key held without
   its sequence. *)
LEMMA SequenceStep ==
  ASSUME NEW w, WorldInv(w), NEW s \in SequenceState,
         \/ ~w.seq.active \/ ~w.seq.holding
         \/ s.active /\ s.holding /\ s.heldKey = w.seq.heldKey,
         s.active => s.pressesLeft > 0
  PROVE  WorldInv([seq |-> s, kb |-> w.kb])
BY DEF WorldInv, WorldState, HoldInv

LEMMA HurtPreserves ==
  ASSUME NEW c \in Settings, NEW late \in Nat, NEW w, WorldInv(w),
         NEW v \in OnLocalPlayerHurt(c, w, late)
  PROVE  WorldInv(v)
<1>1. CASE Ignores(c, w, late)
  BY <1>1 DEF OnLocalPlayerHurt
<1>2. ASSUME ~Ignores(c, w, late),
             NEW presses \in Pick(c.repeats), NEW delay \in Pick(c.delay),
             v = Begin(c, AbortSequence(w), late, presses, delay)
      PROVE  WorldInv(v)
  <2> DEFINE a == AbortSequence(w)
             s == [a.seq EXCEPT !.active       = TRUE,
                                !.pressesLeft  = IF presses < 1 THEN 1 ELSE presses,
                                !.heldKey      = c.key,
                                !.holding      = FALSE,
                                !.nextActionIn = NotNegative(late + delay)]
  <2>1. WorldInv(a) /\ ~a.seq.active /\ ~a.seq.holding
    BY AbortPreserves
  <2> HIDE DEF a
  <2>2. a \in WorldState
    BY <2>1 DEF WorldInv
  <2>3. presses \in Int /\ delay \in Int /\ c.key \in Keys
    BY SettingsRanges, PickType
  <2>4. NotNegative(late + delay) \in Nat
    BY <2>3, NotNegativeType
  <2>7. (IF presses < 1 THEN 1 ELSE presses) \in Nat \ {0}
    BY <2>3
  <2>8. a.seq \in SequenceState
    BY <2>2, WorldFields
  <2>5. s \in SequenceState /\ s.pressesLeft > 0
    <3>1. s.pressesLeft = IF presses < 1 THEN 1 ELSE presses
      BY <2>8 DEF SequenceState
    <3> DEFINE left == IF presses < 1 THEN 1 ELSE presses
               next == NotNegative(late + delay)
    <3>2. left \in Nat \ {0} /\ next \in Nat
      BY <2>4, <2>7
    <3> HIDE DEF left, next
    <3>3. [a.seq EXCEPT !.active = TRUE, !.pressesLeft = left, !.heldKey = c.key,
                        !.holding = FALSE, !.nextActionIn = next] \in SequenceState
      BY <2>3, <2>8, <3>2 DEF SequenceState
    <3> QED
      BY <2>7, <3>1, <3>3 DEF left, next
  <2>6. v = [seq |-> s, kb |-> a.kb]
    BY <1>2, <2>2 DEF Begin, a, WorldState
  <2> HIDE DEF s
  <2> QED
    BY <2>1, <2>5, <2>6, SequenceStep
<1>3. ASSUME ~Ignores(c, w, late), NEW n \in Pick(c.cooldown),
             v = [w EXCEPT !.seq.cooldownIn = NotNegative(late + n)]
      PROVE  WorldInv(v)
  <2> DEFINE s == [w.seq EXCEPT !.cooldownIn = NotNegative(late + n)]
  <2>1. w \in WorldState
    BY DEF WorldInv
  <2>2. NotNegative(late + n) \in Nat
    BY SettingsRanges, PickType, NotNegativeType
  <2>3. s \in SequenceState /\ s.active = w.seq.active /\ s.holding = w.seq.holding
        /\ s.heldKey = w.seq.heldKey /\ s.pressesLeft = w.seq.pressesLeft
    BY <2>1, <2>2 DEF SequenceState, WorldState
  <2>4. v = [seq |-> s, kb |-> w.kb]
    BY <1>3, <2>1 DEF WorldState
  <2>5. /\ w.seq.active \in BOOLEAN /\ w.seq.holding \in BOOLEAN
        /\ w.seq.active => w.seq.pressesLeft > 0
    BY <2>1, WorldFields DEF WorldInv
  <2> HIDE DEF s
  <2> QED
    BY <2>3, <2>4, <2>5, SequenceStep
<1> QED
  BY <1>1, <1>2, <1>3 DEF OnLocalPlayerHurt, Rolls

LEMMA PollPreserves ==
  ASSUME NEW c \in Settings, NEW late \in Nat, NEW w, WorldInv(w),
         NEW v \in PollDebugKey(c, w, late)
  PROVE  WorldInv(v)
<1>1. ASSUME NEW u \in PollAutoFire(c, w, late)
      PROVE  WorldInv(u)
  <2> DEFINE s == [w.seq EXCEPT !.sinceFire = 0]
             fired == [w EXCEPT !.seq.sinceFire = 0]
  <2>1. w \in WorldState
    BY DEF WorldInv
  <2>2. s \in SequenceState /\ s.active = w.seq.active /\ s.holding = w.seq.holding
        /\ s.heldKey = w.seq.heldKey /\ s.pressesLeft = w.seq.pressesLeft
    BY <2>1, AgeAssumption DEF SequenceState, WorldState
  <2>3. fired = [seq |-> s, kb |-> w.kb]
    BY <2>1 DEF WorldState
  <2>4. /\ w.seq.active \in BOOLEAN /\ w.seq.holding \in BOOLEAN
        /\ w.seq.active => w.seq.pressesLeft > 0
    BY <2>1, WorldFields DEF WorldInv
  <2> HIDE DEF s, fired
  <2>6. WorldInv([seq |-> s, kb |-> w.kb])
    BY <2>2, <2>4, SequenceStep
  <2>5. WorldInv(fired)
    BY <2>3, <2>6
  <2> QED
    BY <2>5, HurtPreserves DEF PollAutoFire, fired
<1>2. ASSUME NEW u, WorldInv(u), NEW t \in PollTriggerKey(c, u, late)
      PROVE  WorldInv(t)
  <2>1. CASE ~c.enabled \/ c.debugKey = NoKey
    BY <1>2, <2>1 DEF PollTriggerKey
  <2>2. CASE ~(~c.enabled \/ c.debugKey = NoKey)
    <3> DEFINE down == GameKeyDown(u.kb, c.debugKey)
    <3>1. PICK x \in IF down /\ ~u.seq.wasDown THEN OnLocalPlayerHurt(c, u, late) ELSE {u} :
            t = [x EXCEPT !.seq.wasDown = down]
      BY <1>2, <2>2 DEF PollTriggerKey
    <3>2. WorldInv(x)
      BY <1>2, <3>1, HurtPreserves
    <3>3. down \in BOOLEAN
      <4>1. u \in WorldState /\ u.kb \in KeyboardState
        BY <1>2, WorldFields DEF WorldInv
      <4>2. c.debugKey \in Keys
        BY <2>2 DEF Settings
      <4>3. u.kb.states[c.debugKey] \in BOOLEAN /\ u.kb.real[c.debugKey] \in BOOLEAN
        BY <4>1, <4>2 DEF KeyboardState
      <4> QED
        BY <4>3, BackendAssumption DEF GameKeyDown
    <3> HIDE DEF down
    <3> DEFINE s == [x.seq EXCEPT !.wasDown = down]
    <3>4. x \in WorldState
      BY <3>2 DEF WorldInv
    <3>5. s \in SequenceState /\ s.active = x.seq.active /\ s.holding = x.seq.holding
          /\ s.heldKey = x.seq.heldKey /\ s.pressesLeft = x.seq.pressesLeft
      BY <3>3, <3>4 DEF SequenceState, WorldState
    <3>6. t = [seq |-> s, kb |-> x.kb]
      BY <3>1, <3>4 DEF WorldState
    <3>7. /\ x.seq.active \in BOOLEAN /\ x.seq.holding \in BOOLEAN
          /\ x.seq.active => x.seq.pressesLeft > 0
      BY <3>2, <3>4, WorldFields DEF WorldInv
    <3> HIDE DEF s
    <3> QED
      BY <3>2, <3>5, <3>6, <3>7, SequenceStep
  <2> QED
    BY <2>1, <2>2
<1> QED
  BY <1>1, <1>2 DEF PollDebugKey

(* The queue takes one press or release of a key; what it leaves held, the
   given sequence state holds. *)
LEMMA QueueStep ==
  ASSUME NEW w, WorldInv(w), NEW down \in BOOLEAN, NEW s \in SequenceState,
         \A k \in Keys : w.kb.held[k] => k = w.seq.heldKey,
         down => s.active /\ s.holding /\ s.heldKey = w.seq.heldKey,
         s.active => s.pressesLeft > 0
  PROVE  WorldInv([seq |-> s, kb |-> Queue(w.kb, w.seq.heldKey, down)])
<1> DEFINE b == Queue(w.kb, w.seq.heldKey, down)
<1>1. w.kb \in KeyboardState /\ w.seq.heldKey \in Keys /\ HoldInv(w) /\ AgreeInv(w.kb)
  BY WorldFields DEF WorldInv
<1>2. b \in KeyboardState /\ AgreeInv(b)
  BY <1>1, QueueType, QueueAgreeInv
<1>3. ASSUME NEW k \in Keys, b.held[k]
      PROVE  down /\ k = w.seq.heldKey /\ k \in Injectable
  <2>1. CASE k # w.seq.heldKey
    <3>1. Queue(w.kb, w.seq.heldKey, down).held[k] = w.kb.held[k]
      BY <1>1, <2>1, QueueHeld
    <3> QED
      BY <1>3, <2>1, <3>1
  <2>2. CASE k = w.seq.heldKey
    <3>1. b.held[k] = (IF k \in Injectable THEN down ELSE w.kb.held[k])
      BY <1>1, <2>2, QueueHeld
    <3>2. k \notin Injectable => ~w.kb.held[k]
      BY DEF HoldInv, WorldInv
    <3> HIDE DEF b
    <3> QED
      BY <1>3, <2>2, <3>1, <3>2
  <2> QED
    BY <2>1, <2>2
<1> HIDE DEF b
<1>4. HoldInv([seq |-> s, kb |-> b])
  BY <1>3 DEF HoldInv
<1>5. WorldInv([seq |-> s, kb |-> b])
  BY <1>2, <1>4 DEF WorldInv, WorldState
<1> QED
  BY <1>5 DEF b

LEMMA AdvancePreserves ==
  ASSUME NEW c \in Settings, NEW w, WorldInv(w), NEW v \in Advance(c, w)
  PROVE  WorldInv(v)
<1>1. w \in WorldState /\ HoldInv(w)
  BY DEF WorldInv
<1>2. CASE ~w.seq.active \/ w.seq.nextActionIn > 0
  BY <1>2 DEF Advance
<1>3. CASE ~(~w.seq.active \/ w.seq.nextActionIn > 0) /\ ~w.seq.holding
  <2>1. PICK n \in Pick(c.hold) :
          v = [seq |-> [w.seq EXCEPT !.holding = TRUE, !.nextActionIn = NotNegative(n)],
               kb  |-> Queue(w.kb, w.seq.heldKey, TRUE)]
    BY <1>3 DEF Advance, PressDown, Press
  <2> DEFINE s == [w.seq EXCEPT !.holding = TRUE, !.nextActionIn = NotNegative(n)]
  <2>2. NotNegative(n) \in Nat
    BY SettingsRanges, PickType, NotNegativeType
  <2>3. s \in SequenceState /\ s.active /\ s.holding /\ s.heldKey = w.seq.heldKey
        /\ s.pressesLeft > 0
    BY <1>1, <1>3, <2>2 DEF SequenceState, WorldState, WorldInv
  <2>4. \A k \in Keys : w.kb.held[k] => k = w.seq.heldKey
    BY <1>1 DEF HoldInv
  <2>5. v = [seq |-> s, kb |-> Queue(w.kb, w.seq.heldKey, TRUE)]
    BY <2>1
  <2> HIDE DEF s
  <2> QED
    BY <2>3, <2>4, <2>5, QueueStep
<1>4. CASE ~(~w.seq.active \/ w.seq.nextActionIn > 0) /\ w.seq.holding
  <2> DEFINE q == Queue(w.kb, w.seq.heldKey, FALSE)
             s == [w.seq EXCEPT !.holding = FALSE, !.pressesLeft = @ - 1]
             u == [seq |-> s, kb |-> q]
  <2>1. v \in AfterPress(c, u)
    BY <1>4 DEF Advance, LetGo, Release
  <2>2. w.seq.pressesLeft \in Nat \ {0}
    BY <1>1, <1>4, WorldFields DEF WorldInv
  <2>3. s \in SequenceState
    <3> DEFINE left == w.seq.pressesLeft - 1
    <3>1. left \in Nat
      BY <2>2
    <3>2. w.seq \in SequenceState
      BY <1>1, WorldFields
    <3> HIDE DEF left
    <3>3. [w.seq EXCEPT !.holding = FALSE, !.pressesLeft = left] \in SequenceState
      BY <3>1, <3>2 DEF SequenceState
    <3> QED
      BY <3>3 DEF left
  <2>4. \A k \in Keys : w.kb.held[k] => k = w.seq.heldKey
    BY <1>1 DEF HoldInv
  <2> HIDE DEF s, q
  <2>5. PICK n \in Int :
          \/ s.pressesLeft > 0 /\ v = [u EXCEPT !.seq.nextActionIn = NotNegative(n)]
          \/ v = [u EXCEPT !.seq.active = FALSE, !.seq.cooldownIn = NotNegative(n)]
    BY <2>1, SettingsRanges, PickType DEF AfterPress
  <2> DEFINE t1 == [s EXCEPT !.nextActionIn = NotNegative(n)]
             t2 == [s EXCEPT !.active = FALSE, !.cooldownIn = NotNegative(n)]
  <2>6. NotNegative(n) \in Nat
    BY NotNegativeType
  <2>7. /\ t1 \in SequenceState /\ t1.pressesLeft = s.pressesLeft
        /\ t2 \in SequenceState /\ ~t2.active
    BY <2>3, <2>6 DEF SequenceState
  <2>8. \/ s.pressesLeft > 0 /\ v = [seq |-> t1, kb |-> q]
        \/ v = [seq |-> t2, kb |-> q]
    BY <2>5
  <2> HIDE DEF t1, t2
  <2> QED
    BY <2>4, <2>7, <2>8, QueueStep DEF q
<1> QED
  BY <1>2, <1>3, <1>4

LEMMA TickPreserves ==
  ASSUME NEW c \in Settings, NEW late \in Nat, NEW w, WorldInv(w),
         NEW v \in OnTick(c, w, late)
  PROVE  WorldInv(v)
BY PollPreserves, AdvancePreserves DEF OnTick

(* The queue is handed over, emptied of its history or told of something new,
   and no key goes down for it. *)
LEMMA KeyboardStep ==
  ASSUME NEW w, WorldInv(w), NEW b \in KeyboardState, AgreeInv(b),
         \A k \in Keys : b.held[k] => w.kb.held[k]
  PROVE  WorldInv([w EXCEPT !.kb = b])
BY DEF WorldInv, WorldState, HoldInv

LEMMA FlushPreserves ==
  ASSUME NEW w, WorldInv(w)
  PROVE  WorldInv([w EXCEPT !.kb = Flush(@)])
<1>1. w.kb \in KeyboardState /\ AgreeInv(w.kb)
  BY WorldFields DEF WorldInv
<1>2. Flush(w.kb) \in KeyboardState /\ AgreeInv(Flush(w.kb))
  BY <1>1, FlushType, FlushAgreeInv
<1>3. Flush(w.kb).held = w.kb.held
  BY <1>1, FlushHeld
<1> QED
  BY <1>2, <1>3, KeyboardStep

LEMMA NewPumpPreserves ==
  ASSUME NEW b \in KeyboardState
  PROVE  /\ NewPump(b) \in KeyboardState
         /\ NewPump(b).held = b.held
         /\ AgreeInv(b) => AgreeInv(NewPump(b))
<1>1. NoBatches \in [Keys -> Seq(BOOLEAN)]
  BY EmptySeq DEF NoBatches
<1>2. /\ NewPump(b).held = b.held /\ NewPump(b).pending = b.pending
      /\ NewPump(b).states = b.states /\ NewPump(b).events = b.events
      /\ NewPump(b).mode = b.mode /\ NewPump(b).callbacks = b.callbacks
  BY DEF NewPump, KeyboardState
<1>3. \A k \in Keys : Tracks(b, k) => Tracks(NewPump(b), k)
  BY <1>2 DEF Tracks, Agrees, WritesStates, SendsEvents
<1>4. NewPump(b) \in KeyboardState
  BY <1>1 DEF NewPump, KeyboardState
<1> QED
  BY <1>2, <1>3, <1>4 DEF AgreeInv, ModKeys

LEMMA ElapsedPreserves ==
  ASSUME NEW w, WorldInv(w), NEW e \in Nat
  PROVE  WorldInv(Elapsed(w, e))
<1> DEFINE next == NotNegative(w.seq.nextActionIn - e)
           cool == NotNegative(w.seq.cooldownIn - e)
           age  == AtMost(w.seq.sinceFire + e, MaxAge)
           s    == [w.seq EXCEPT !.nextActionIn = next, !.cooldownIn = cool, !.sinceFire = age]
<1>1. w \in WorldState /\ w.seq \in SequenceState
  BY WorldFields DEF WorldInv
<1>2. next \in Nat /\ cool \in Nat /\ age \in 0 .. MaxAge
  BY <1>1, AgeAssumption, NotNegativeType DEF SequenceState, AtMost
<1>3. Elapsed(w, e) = [seq |-> s, kb |-> w.kb]
  BY <1>1 DEF Elapsed, SequenceState
<1> HIDE DEF next, cool, age
<1>4. /\ s \in SequenceState /\ s.active = w.seq.active /\ s.holding = w.seq.holding
      /\ s.heldKey = w.seq.heldKey /\ s.pressesLeft = w.seq.pressesLeft
  BY <1>1, <1>2 DEF SequenceState
<1>5. /\ w.seq.active \in BOOLEAN /\ w.seq.holding \in BOOLEAN
      /\ w.seq.active => w.seq.pressesLeft > 0
  BY <1>1, WorldFields DEF WorldInv
<1> HIDE DEF s
<1>6. WorldInv([seq |-> s, kb |-> w.kb])
  BY <1>4, <1>5, SequenceStep
<1> QED
  BY <1>3, <1>6

LEMMA PumpedPreserves ==
  ASSUME NEW old \in Settings, NEW new \in Settings, NEW w, WorldInv(w),
         NEW late \in Nat, NEW onGameThread \in BOOLEAN,
         NEW v \in Pumped(old, new, w, late, onGameThread)
  PROVE  WorldInv(v)
<1> DEFINE fresh      == [w EXCEPT !.kb = NewPump(@)]
           configured == OnConfigured(old, new, fresh)
           flushed    == [configured EXCEPT !.kb = Flush(@)]
<1>1. WorldInv(fresh)
  BY WorldFields, NewPumpPreserves, KeyboardStep DEF WorldInv
<1>2. WorldInv(configured)
  BY <1>1, ConfiguredPreserves
<1>3. WorldInv(flushed)
  BY <1>2, FlushPreserves
<1>4. PICK u \in OnTick(new, flushed, late) :
        v = Elapsed(IF onGameThread THEN [u EXCEPT !.kb = Flush(@)] ELSE u, late)
  BY DEF Pumped
<1> HIDE DEF flushed
<1>5. WorldInv(u)
  BY <1>3, TickPreserves
<1>6. WorldInv([u EXCEPT !.kb = Flush(@)])
  BY <1>5, FlushPreserves
<1> QED
  BY <1>4, <1>5, <1>6, ElapsedPreserves

-----------------------------------------------------------------------------
(* The specification. *)

Inv == TypeOK /\ WorldInv(World)

LEMMA BecomesPreserves ==
  ASSUME NEW w, WorldInv(w), Becomes(w)
  PROVE  WorldInv(World)' /\ seq' \in SequenceState /\ kb' \in KeyboardState
<1>1. World' = w
  BY DEF Becomes, World, WorldInv, WorldState
<1>2. WorldInv(World')
  BY <1>1
<1> QED
  BY <1>2 DEF WorldInv, World, WorldState, HoldInv, AgreeInv, Tracks, Agrees

LEMMA InitInv == Init => Inv
<1> SUFFICES ASSUME Init PROVE Inv
  OBVIOUS
<1>1. settings \in Settings /\ settings.mode \in Modes
  BY ConfigsAssumption DEF Init, Settings
<1>2. InitialSequence \in SequenceState
  BY SpaceAssumption, AgeAssumption DEF InitialSequence, SequenceState
<1>3. InitialKeyboard(settings.mode) \in KeyboardState
  <2>1. NoBatches \in [Keys -> Seq(BOOLEAN)]
    BY EmptySeq DEF NoBatches
  <2> QED
    BY <1>1, <2>1 DEF InitialKeyboard, KeyboardState, AllUp, Callbacks
<1>4. AgreeInv(InitialKeyboard(settings.mode))
  BY DEF AgreeInv, ModKeys, Tracks, Agrees, After, InitialKeyboard, AllUp, NoBatches
<1>5. WorldInv([seq |-> InitialSequence, kb |-> InitialKeyboard(settings.mode)])
  BY <1>2, <1>3, <1>4 DEF WorldInv, WorldState, HoldInv, InitialSequence, InitialKeyboard, AllUp
<1>6. WorldInv(World)
  BY <1>5 DEF Init, World
<1>7. TypeOK
  BY <1>2, <1>3, AgeAssumption DEF Init, TypeOK
<1> QED
  BY <1>6, <1>7 DEF Inv

LEMMA AtMostType ==
  ASSUME NEW n \in Nat
  PROVE  AtMost(n, MaxAge) \in 0 .. MaxAge
BY AgeAssumption DEF AtMost

LEMMA PumpInv ==
  ASSUME Inv, NEW onGameThread \in BOOLEAN, Pump(onGameThread)
  PROVE  /\ WorldInv(World)' /\ seq' \in SequenceState /\ kb' \in KeyboardState
         /\ settings' \in Configs /\ downFor' \in 0 .. MaxAge
<1>1. PICK new \in Configs, late \in 0 .. MaxLag :
        /\ \E w \in Pumped(settings, new, World, late, onGameThread) : Becomes(w)
        /\ settings' = new
        /\ downFor' = IF \E k \in Keys : HasPress(kb'.sent[k]) THEN 0
                      ELSE AtMost(downFor + late, MaxAge)
  BY DEF Pump
<1>2. PICK w \in Pumped(settings, new, World, late, onGameThread) : Becomes(w)
  BY <1>1
<1>3. settings \in Settings /\ new \in Settings /\ late \in Nat /\ downFor \in Nat
  BY ConfigsAssumption, BoundsAssumption, AgeAssumption DEF Inv, TypeOK
<1>4. WorldInv(w)
  BY <1>2, <1>3, PumpedPreserves DEF Inv
<1>5. downFor + late \in Nat /\ 0 \in 0 .. MaxAge
  BY <1>3, AgeAssumption
<1> QED
  BY <1>1, <1>2, <1>4, <1>5, BecomesPreserves, AtMostType

LEMMA NextInv == Inv /\ [Next]_vars => Inv'
<1> SUFFICES ASSUME Inv, [Next]_vars PROVE Inv'
  OBVIOUS
<1> USE DEF Inv
<1>0. WorldInv(World) /\ World.kb = kb /\ World.seq = seq /\ World \in WorldState
  BY DEF World, WorldInv
<1>1. CASE TimerPump
  BY <1>1, PumpInv DEF TimerPump, TypeOK
<1>2. CASE GamePump
  BY <1>2, PumpInv DEF GamePump, TypeOK
<1>3. CASE Hurt
  <2>1. PICK w \in OnLocalPlayerHurt(settings, World, 0) : Becomes(w)
    BY <1>3 DEF Hurt
  <2>2. settings \in Settings
    BY ConfigsAssumption DEF TypeOK
  <2>3. WorldInv(w)
    BY <1>0, <2>1, <2>2, HurtPreserves
  <2> QED
    BY <1>3, <2>1, <2>3, BecomesPreserves DEF Hurt, TypeOK
<1>4. CASE OnCreate
  <2>1. PICK callbacks \in Activities : kb' = Captured(kb, callbacks)
    BY <1>4 DEF OnCreate
  <2>2. kb' \in KeyboardState /\ kb'.held = kb.held
    BY <2>1, WorldAssumption DEF Captured, KeyboardState, TypeOK
  <2>3. AgreeInv(kb')
    <3>1. /\ kb'.mode = kb.mode /\ kb'.pending = kb.pending /\ kb'.held = kb.held
          /\ kb'.states = kb.states /\ kb'.events = kb.events
          /\ kb'.callbacks = callbacks
      BY <2>1 DEF Captured, KeyboardState, TypeOK
    <3>2. \A j \in ModKeys : Tracks(kb, j) => Tracks(kb', j)
      BY <3>1 DEF Tracks, Agrees, WritesStates, SendsEvents
    <3>3. WholeActivities => callbacks # "down_only"
      BY <1>4 DEF WholeActivities, OnCreate
    <3> QED
      BY <1>0, <3>1, <3>2, <3>3 DEF AgreeInv, WorldInv
  <2>4. WorldInv([World EXCEPT !.kb = kb'])
    BY <1>0, <2>2, <2>3, KeyboardStep
  <2>5. Becomes([World EXCEPT !.kb = kb'])
    BY <1>4 DEF OnCreate, Becomes, World
  <2> QED
    BY <1>4, <2>4, <2>5, BecomesPreserves DEF OnCreate, TypeOK
<1>5. CASE PlayerKey
  <2>1. PICK k \in PlayerKeys, down \in BOOLEAN : kb' = Touched(kb, k, down)
    BY <1>5 DEF PlayerKey
  <2>2. kb' \in KeyboardState /\ kb'.held = kb.held
    BY <2>1, WorldAssumption DEF Touched, KeyboardState, TypeOK
  <2>3. AgreeInv(kb')
    <3>1. ASSUME NEW j \in ModKeys, Tracks(kb, j) PROVE Tracks(kb', j)
      <4>1. /\ kb'.mode = kb.mode /\ kb'.pending = kb.pending /\ kb'.held = kb.held
            /\ kb'.states[j] = kb.states[j] /\ kb'.events[j] = kb.events[j]
        BY <2>1 DEF Touched, KeyboardState, TypeOK, ModKeys
      <4> QED
        BY <3>1, <4>1 DEF Tracks, Agrees, WritesStates, SendsEvents
    <3>2. kb'.callbacks = kb.callbacks
      BY <2>1 DEF Touched, KeyboardState, TypeOK
    <3> QED
      BY <1>0, <3>1, <3>2 DEF AgreeInv, WorldInv
  <2>4. WorldInv([World EXCEPT !.kb = kb'])
    BY <1>0, <2>2, <2>3, KeyboardStep
  <2>5. Becomes([World EXCEPT !.kb = kb'])
    BY <1>5 DEF PlayerKey, Becomes, World
  <2> QED
    BY <1>5, <2>4, <2>5, BecomesPreserves DEF PlayerKey, TypeOK
<1>6. CASE Shutdown
  <2> DEFINE b == NewPump(kb)
  <2>1. b \in KeyboardState /\ AgreeInv(b)
    BY <1>0, NewPumpPreserves DEF WorldInv, TypeOK
  <2> HIDE DEF b
  <2>2. ReleaseAll(b) \in KeyboardState /\ ReleaseAll(b).held = AllUp
    BY <2>1, ReleaseAllType, ReleaseAllHeld
  <2>3. AgreeInv(ReleaseAll(b))
    BY <2>1, ReleaseAllAgreeInv
  <2>4. WorldInv([World EXCEPT !.kb = ReleaseAll(b)])
    BY <1>0, <2>2, <2>3, KeyboardStep DEF AllUp
  <2>5. Becomes([World EXCEPT !.kb = ReleaseAll(b)])
    BY <1>6 DEF Shutdown, Becomes, World, b
  <2> QED
    BY <1>6, <2>4, <2>5, BecomesPreserves DEF Shutdown, TypeOK
<1>7. CASE Elapse
  <2>1. WorldInv(Elapsed(World, 1))
    BY <1>0, ElapsedPreserves
  <2>2. downFor + 1 \in Nat
    BY AgeAssumption DEF TypeOK
  <2> QED
    BY <1>7, <2>1, <2>2, BecomesPreserves, AtMostType DEF Elapse, TypeOK
<1>8. CASE UNCHANGED vars
  <2>1. Becomes(World)
    BY <1>8 DEF Becomes, World, vars
  <2> QED
    BY <1>0, <1>8, <2>1, BecomesPreserves DEF vars, TypeOK
<1> QED
  BY <1>1, <1>2, <1>3, <1>4, <1>5, <1>6, <1>7, <1>8 DEF Next

LEMMA Invariance == Spec => []Inv
<1>1. Init => Inv
  BY InitInv
<1>2. Inv /\ [Next]_vars => Inv'
  BY NextInv
<1> QED
  BY <1>1, <1>2, PTL DEF Spec

(* Every reachable state is well typed; in particular pressesLeft_ never goes
   below zero, whatever ranges the config asks for. *)
THEOREM TypeCorrect == Spec => []TypeOK
<1>1. Inv => TypeOK
  BY DEF Inv
<1> QED
  BY <1>1, Invariance, PTL

(* gHeld never outlives the hold of the sequence that pressed the key, with
   any backend, tick source and order of reloads and hits. *)
THEOREM HoldsAreAccountedFor == Spec => []HeldBySequence
<1>1. Inv => HeldBySequence
  BY DEF Inv, WorldInv, HoldInv, HeldBySequence, World
<1> QED
  BY <1>1, Invariance, PTL

(* With the exported Keyboard objects the game ends up seeing each key of the mod
   exactly where gHeld says it is; with activities that have both handlers so does
   the game behind them, of the keys there is an Android code for. *)
THEOREM GameFollowsQueue ==
  ASSUME WholeActivities, \A k \in ModKeys : Told(k)
  PROVE  Spec => []GameAgrees
<1>1. Inv => GameAgrees
  BY DEF Inv, WorldInv, AgreeInv, Tracks, GameAgrees, World
<1> QED
  BY <1>1, Invariance, PTL

(* No key of the mod stays down in the game once its sequence let go and the queue was
   handed over: with any backend, as long as no activity takes presses alone. *)
THEOREM NoKeyIsLeftDown ==
  ASSUME WholeActivities
  PROVE  Spec => []NoStuckKey
<1>1. Inv => NoStuckKey
  <2> SUFFICES ASSUME Inv, NEW k \in ModKeys, GameSees(kb, k), kb.pending[k] = << >>
               PROVE  seq.active /\ seq.holding /\ seq.heldKey = k
    BY DEF NoStuckKey
  <2>1. Tracks(kb, k) /\ HoldInv(World)
    BY DEF Inv, WorldInv, AgreeInv, World
  <2>2. kb.held[k]
    BY <2>1 DEF Tracks, Agrees, After, GameSees
  <2> QED
    BY <2>1, <2>2 DEF HoldInv, World, ModKeys
<1> QED
  BY <1>1, Invariance, PTL

(* Whoever unloads the mod while the game can be reached leaves no key of it down,
   whatever was held or pending. *)
THEOREM ShutdownLeavesKeysUp ==
  ASSUME WholeActivities
  PROVE  Spec => ShutdownLetsGo
<1> DEFINE LetsGo == running /\ ~running' /\ Ready(kb) => \A k \in ModKeys : ~GameSees(kb', k)
<1>1. Inv /\ [Next]_vars => LetsGo
  <2> SUFFICES ASSUME Inv, [Next]_vars, running, ~running', Ready(kb), NEW k \in ModKeys
               PROVE  ~GameSees(kb', k)
    OBVIOUS
  <2>1. kb' = ReleaseAll(NewPump(kb))
    BY DEF Next, TimerPump, GamePump, Hurt, OnCreate, PlayerKey, Shutdown, Elapse, vars
  <2>2. kb \in KeyboardState /\ AgreeInv(kb)
    BY DEF Inv, TypeOK, WorldInv, World
  <2>3. NewPump(kb) \in KeyboardState /\ AgreeInv(NewPump(kb))
    BY <2>2, NewPumpPreserves
  <2>4. Ready(NewPump(kb))
    BY <2>2 DEF NewPump, Ready, Live, KeyboardState
  <2>5. Tracks(kb', k) /\ kb'.pending[k] = << >>
    BY <2>1, <2>3, <2>4, ReleaseAllTracks DEF AgreeInv, ModKeys
  <2>6. kb'.held = AllUp
    BY <2>1, <2>3, ReleaseAllHeld
  <2> QED
    BY <2>5, <2>6 DEF Tracks, Agrees, After, AllUp, GameSees, ModKeys
<1> QED
  BY <1>1, Invariance, PTL DEF Spec, ShutdownLetsGo

-----------------------------------------------------------------------------
(***************************************************************************)
(* The cooldown starts with the end of a sequence, wherever hits may not   *)
(* restart one: for every config, clock and order of ticks and hits.       *)
(***************************************************************************)

NoneCancels == \A c \in Configs : ~c.cancel

(* In the middle of a handler, at the instant that is late past the deadlines. *)
Cooled(w, late) == w.seq.active => w.seq.cooldownIn <= late

-----------------------------------------------------------------------------
(* The handlers. *)

LEMMA AbortCools ==
  ASSUME NEW w, WorldInv(w), NEW late \in Nat, Cooled(w, late)
  PROVE  /\ Cooled(AbortSequence(w), late)
         /\ AbortSequence(w).seq.cooldownIn = w.seq.cooldownIn
BY DEF AbortSequence, Cooled, WorldInv, WorldState, SequenceState

LEMMA ConfiguredCools ==
  ASSUME NEW old \in Settings, NEW new \in Settings, NEW w, WorldInv(w),
         NEW late \in Nat, Cooled(w, late)
  PROVE  Cooled(OnConfigured(old, new, w), late)
<1> DEFINE moded    == [w EXCEPT !.kb = SetInjectMode(@, new.mode)]
           disabled == IF old.enabled /\ ~new.enabled THEN AbortSequence(moded) ELSE moded
<1>1. OnConfigured(old, new, w) = IF disabled.seq.active /\ disabled.seq.heldKey # new.key
                                  THEN AbortSequence(disabled) ELSE disabled
  BY DEF OnConfigured
<1>2. moded.seq = w.seq
  BY DEF WorldInv, WorldState
<1> HIDE DEF moded
<1>3. disabled.seq.active => disabled.seq = w.seq
  BY <1>2 DEF AbortSequence
<1> HIDE DEF disabled
<1>4. OnConfigured(old, new, w).seq.active => OnConfigured(old, new, w).seq = w.seq
  BY <1>1, <1>3 DEF AbortSequence
<1> QED
  BY <1>4 DEF Cooled

(* What has to be right about Ignores(): a running sequence is left alone, and so is
   one that would start before its time. *)
LEMMA HurtCools ==
  ASSUME NEW c \in Settings, ~c.cancel, NEW w, WorldInv(w), NEW late \in Nat, Cooled(w, late),
         NEW v \in OnLocalPlayerHurt(c, w, late)
  PROVE  Cooled(v, late)
<1>1. CASE Ignores(c, w, late)
  BY <1>1 DEF OnLocalPlayerHurt
<1>2. CASE ~Ignores(c, w, late)
  <2>1. ~w.seq.active /\ ~(late < w.seq.cooldownIn)
    BY <1>2 DEF Ignores
  <2>2. w.seq.cooldownIn \in Nat /\ w.seq \in SequenceState
    BY DEF WorldInv, WorldState, SequenceState
  <2>3. ASSUME NEW presses \in Pick(c.repeats), NEW delay \in Pick(c.delay),
               v = Begin(c, AbortSequence(w), late, presses, delay)
        PROVE  Cooled(v, late)
    <3>1. AbortSequence(w) \in WorldState /\ AbortSequence(w).seq.cooldownIn = w.seq.cooldownIn
      BY AbortPreserves, AbortCools DEF WorldInv
    <3>2. v.seq.cooldownIn = w.seq.cooldownIn
      BY <2>3, <3>1 DEF Begin, WorldState, SequenceState
    <3> QED
      BY <2>1, <2>2, <3>2 DEF Cooled
  <2>4. ASSUME NEW n \in Pick(c.cooldown),
               v = [w EXCEPT !.seq.cooldownIn = NotNegative(late + n)]
        PROVE  Cooled(v, late)
    <3>1. v.seq.active = w.seq.active
      BY <2>2, <2>4 DEF SequenceState, WorldInv, WorldState
    <3> QED
      BY <2>1, <3>1 DEF Cooled
  <2> QED
    BY <1>2, <2>3, <2>4 DEF OnLocalPlayerHurt, Rolls
<1> QED
  BY <1>1, <1>2

LEMMA PollCools ==
  ASSUME NEW c \in Settings, ~c.cancel, NEW w, WorldInv(w), NEW late \in Nat, Cooled(w, late),
         NEW v \in PollDebugKey(c, w, late)
  PROVE  Cooled(v, late)
<1>1. ASSUME NEW u \in PollAutoFire(c, w, late)
      PROVE  WorldInv(u) /\ Cooled(u, late)
  <2> DEFINE s == [w.seq EXCEPT !.sinceFire = 0]
             fired == [w EXCEPT !.seq.sinceFire = 0]
  <2>1. w \in WorldState /\ w.seq \in SequenceState
    BY WorldFields DEF WorldInv
  <2>2. fired = [seq |-> s, kb |-> w.kb] /\ s \in SequenceState
    BY <2>1, AgeAssumption DEF SequenceState, WorldState
  <2>3. /\ s.active = w.seq.active /\ s.holding = w.seq.holding /\ s.heldKey = w.seq.heldKey
        /\ s.pressesLeft = w.seq.pressesLeft /\ s.cooldownIn = w.seq.cooldownIn
        /\ w.seq.active \in BOOLEAN /\ w.seq.holding \in BOOLEAN
        /\ w.seq.active => w.seq.pressesLeft > 0
    BY <2>1 DEF SequenceState, WorldInv
  <2> HIDE DEF s, fired
  <2>4. WorldInv([seq |-> s, kb |-> w.kb])
    BY <2>2, <2>3, SequenceStep
  <2>5. WorldInv(fired) /\ Cooled(fired, late)
    BY <2>2, <2>3, <2>4 DEF Cooled
  <2> QED
    BY <2>5, HurtPreserves, HurtCools DEF PollAutoFire, fired
<1>2. ASSUME NEW u, WorldInv(u), Cooled(u, late), NEW t \in PollTriggerKey(c, u, late)
      PROVE  Cooled(t, late)
  <2>1. CASE ~c.enabled \/ c.debugKey = NoKey
    BY <1>2, <2>1 DEF PollTriggerKey
  <2>2. CASE ~(~c.enabled \/ c.debugKey = NoKey)
    <3> DEFINE down == GameKeyDown(u.kb, c.debugKey)
    <3>1. PICK x \in IF down /\ ~u.seq.wasDown THEN OnLocalPlayerHurt(c, u, late) ELSE {u} :
            t = [x EXCEPT !.seq.wasDown = down]
      BY <1>2, <2>2 DEF PollTriggerKey
    <3>2. x \in WorldState /\ Cooled(x, late)
      BY <1>2, <3>1, HurtPreserves, HurtCools DEF WorldInv
    <3> HIDE DEF down
    <3>3. t.seq.active = x.seq.active /\ t.seq.cooldownIn = x.seq.cooldownIn
      BY <3>1, <3>2 DEF WorldState, SequenceState
    <3> QED
      BY <3>2, <3>3 DEF Cooled
  <2> QED
    BY <2>1, <2>2
<1> QED
  BY <1>1, <1>2 DEF PollDebugKey

(* The one place that arms the cooldown of a sequence ends it. *)
LEMMA AdvanceCools ==
  ASSUME NEW c \in Settings, NEW w, WorldInv(w), NEW late \in Nat, Cooled(w, late),
         NEW v \in Advance(c, w)
  PROVE  Cooled(v, late)
<1> DEFINE s == [w.seq EXCEPT !.holding = FALSE, !.pressesLeft = @ - 1]
<1>1. w \in WorldState /\ w.seq \in SequenceState
  BY WorldFields DEF WorldInv
<1>2. CASE ~w.seq.active \/ w.seq.nextActionIn > 0
  BY <1>2 DEF Advance
<1>3. CASE ~(~w.seq.active \/ w.seq.nextActionIn > 0) /\ ~w.seq.holding
  <2>1. PICK n \in Pick(c.hold) :
          v = [seq |-> [w.seq EXCEPT !.holding = TRUE, !.nextActionIn = NotNegative(n)],
               kb  |-> Press(w.kb, w.seq.heldKey)]
    BY <1>3 DEF Advance, PressDown
  <2>2. v.seq.active = w.seq.active /\ v.seq.cooldownIn = w.seq.cooldownIn
    BY <1>1, <2>1 DEF SequenceState
  <2> QED
    BY <2>2 DEF Cooled
<1>4. CASE ~(~w.seq.active \/ w.seq.nextActionIn > 0) /\ w.seq.holding
  <2>1. v \in AfterPress(c, LetGo(w)) /\ LetGo(w).seq = s
    BY <1>4 DEF Advance, LetGo
  <2>2. DOMAIN LetGo(w) = {"seq", "kb"}
    BY DEF LetGo
  <2>3. /\ s.active = w.seq.active /\ s.cooldownIn = w.seq.cooldownIn
        /\ DOMAIN s = DOMAIN w.seq /\ "active" \in DOMAIN s /\ "cooldownIn" \in DOMAIN s
    BY <1>1 DEF SequenceState
  <2> HIDE DEF s
  <2>4. CASE \E n \in Pick(c.release) : v = [LetGo(w) EXCEPT !.seq.nextActionIn = NotNegative(n)]
    <3>1. v.seq.active = s.active /\ v.seq.cooldownIn = s.cooldownIn
      BY <2>1, <2>2, <2>3, <2>4
    <3> QED
      BY <2>3, <3>1 DEF Cooled
  <2>5. CASE \E n \in Pick(c.cooldown) :
               v = [LetGo(w) EXCEPT !.seq.active = FALSE, !.seq.cooldownIn = NotNegative(n)]
    <3>1. ~v.seq.active
      BY <2>1, <2>2, <2>3, <2>5
    <3> QED
      BY <3>1 DEF Cooled
  <2> QED
    BY <2>1, <2>4, <2>5 DEF AfterPress
<1> QED
  BY <1>2, <1>3, <1>4

LEMMA ElapsedCools ==
  ASSUME NEW w, WorldInv(w), NEW late \in Nat, Cooled(w, late), NEW e \in Nat, late <= e
  PROVE  Cooled(Elapsed(w, e), 0)
<1>1. w.seq \in SequenceState /\ w.seq.cooldownIn \in Nat
  BY WorldFields DEF WorldInv, SequenceState
<1>2. /\ Elapsed(w, e).seq.active = w.seq.active
      /\ Elapsed(w, e).seq.cooldownIn = NotNegative(w.seq.cooldownIn - e)
  BY <1>1 DEF Elapsed, SequenceState
<1> QED
  BY <1>1, <1>2 DEF Cooled, NotNegative

LEMMA PumpedCools ==
  ASSUME NEW old \in Settings, NEW new \in Settings, ~new.cancel, NEW w, WorldInv(w),
         Cooled(w, 0), NEW late \in Nat, NEW onGameThread \in BOOLEAN,
         NEW v \in Pumped(old, new, w, late, onGameThread)
  PROVE  Cooled(v, 0)
<1> DEFINE fresh      == [w EXCEPT !.kb = NewPump(@)]
           configured == OnConfigured(old, new, fresh)
           flushed    == [configured EXCEPT !.kb = Flush(@)]
<1>1. WorldInv(fresh) /\ fresh.seq = w.seq
  BY WorldFields, NewPumpPreserves, KeyboardStep DEF WorldInv, WorldState
<1>2. Cooled(fresh, late)
  <2>1. w.seq.cooldownIn \in Nat
    BY DEF WorldInv, WorldState, SequenceState
  <2> QED
    BY <1>1, <2>1 DEF Cooled
<1> HIDE DEF fresh
<1>3. WorldInv(configured) /\ Cooled(configured, late)
  BY <1>1, <1>2, ConfiguredPreserves, ConfiguredCools
<1> HIDE DEF configured
<1>4. WorldInv(flushed) /\ flushed.seq = configured.seq
  BY <1>3, FlushPreserves DEF WorldInv, WorldState
<1>5. Cooled(flushed, late)
  BY <1>3, <1>4 DEF Cooled
<1>6. PICK u \in OnTick(new, flushed, late) :
        v = Elapsed(IF onGameThread THEN [u EXCEPT !.kb = Flush(@)] ELSE u, late)
  BY DEF Pumped, fresh, configured
<1> HIDE DEF flushed
<1>7. WorldInv(u) /\ Cooled(u, late)
  BY <1>4, <1>5, TickPreserves, PollPreserves, PollCools, AdvanceCools, <1>6 DEF OnTick
<1>8. /\ WorldInv([u EXCEPT !.kb = Flush(@)])
      /\ [u EXCEPT !.kb = Flush(@)].seq = u.seq
  BY <1>7, FlushPreserves DEF WorldInv, WorldState
<1>9. Cooled([u EXCEPT !.kb = Flush(@)], late)
  BY <1>7, <1>8 DEF Cooled
<1> QED
  BY <1>6, <1>7, <1>8, <1>9, ElapsedCools

-----------------------------------------------------------------------------
(* The specification. *)

CoolInv == Inv /\ Cooled(World, 0)

LEMMA BecomesCools ==
  ASSUME NEW w, WorldInv(w), Cooled(w, 0), Becomes(w)
  PROVE  Cooled(World, 0)'
BY DEF Becomes, Cooled, World

LEMMA PumpCools ==
  ASSUME NoneCancels, CoolInv, NEW onGameThread \in BOOLEAN, Pump(onGameThread)
  PROVE  Cooled(World, 0)'
<1>1. PICK new \in Configs, late \in 0 .. MaxLag :
        \E w \in Pumped(settings, new, World, late, onGameThread) : Becomes(w)
  BY DEF Pump
<1>2. PICK w \in Pumped(settings, new, World, late, onGameThread) : Becomes(w)
  BY <1>1
<1>3. settings \in Settings /\ new \in Settings /\ ~new.cancel /\ late \in Nat
  BY ConfigsAssumption, BoundsAssumption DEF NoneCancels, CoolInv, Inv, TypeOK
<1>4. WorldInv(World) /\ Cooled(World, 0)
  BY DEF CoolInv, Inv
<1>5. WorldInv(w) /\ Cooled(w, 0)
  BY <1>2, <1>3, <1>4, PumpedPreserves, PumpedCools
<1> QED
  BY <1>2, <1>5, BecomesCools

LEMMA NextCools == NoneCancels /\ CoolInv /\ [Next]_vars => CoolInv'
<1> SUFFICES ASSUME NoneCancels, CoolInv, [Next]_vars PROVE Cooled(World, 0)'
  BY NextInv DEF CoolInv
<1>0. WorldInv(World) /\ Cooled(World, 0) /\ World.seq = seq /\ settings \in Settings
      /\ ~settings.cancel
  BY ConfigsAssumption DEF NoneCancels, CoolInv, Inv, TypeOK, World
<1>1. CASE TimerPump
  BY <1>1, PumpCools DEF TimerPump
<1>2. CASE GamePump
  BY <1>2, PumpCools DEF GamePump
<1>3. CASE Hurt
  <2>1. PICK w \in OnLocalPlayerHurt(settings, World, 0) : Becomes(w)
    BY <1>3 DEF Hurt
  <2> QED
    BY <1>0, <2>1, HurtPreserves, HurtCools, BecomesCools
<1>4. CASE Elapse
  <2>1. WorldInv(Elapsed(World, 1)) /\ Cooled(Elapsed(World, 1), 0)
    BY <1>0, ElapsedPreserves, ElapsedCools
  <2> QED
    BY <1>4, <2>1, BecomesCools DEF Elapse
<1>5. CASE OnCreate \/ PlayerKey \/ Shutdown \/ UNCHANGED vars
  <2>1. seq' = seq
    BY <1>5 DEF OnCreate, PlayerKey, Shutdown, vars
  <2> QED
    BY <1>0, <2>1 DEF Cooled, World
<1> QED
  BY <1>1, <1>2, <1>3, <1>4, <1>5 DEF Next

(* With cancel_on_new_hit off in every config, nothing arms the cooldown while a
   sequence runs: what it ends with is the full cooldown, whatever is reloaded, drawn
   or triggered in between. *)
THEOREM CooldownIsFull ==
  ASSUME NoneCancels
  PROVE  Spec => []CooldownStartsAtTheEnd
<1>1. Init => CoolInv
  BY InitInv DEF CoolInv, Cooled, Init, World, InitialSequence
<1>2. CoolInv /\ [Next]_vars => CoolInv'
  BY NextCools
<1>3. CoolInv => CooldownStartsAtTheEnd
  BY DEF CoolInv, Cooled, CooldownStartsAtTheEnd, World, Inv, WorldInv, WorldState, SequenceState
<1> QED
  BY <1>1, <1>2, <1>3, PTL DEF Spec

-----------------------------------------------------------------------------
(***************************************************************************)
(* A press and its release never share a frame, where the game thread      *)
(* ticks from the start and the exported objects take everything: for      *)
(* every config, every hit and every reload.  Up to the tick a pump only   *)
(* lets go; the tick presses once at most; and its press is handed over    *)
(* before anything can be queued behind it.                                *)
(***************************************************************************)

Framed == Backend = "DirectSymbols" /\ GameTickHook

(* Of a batch: nothing in it goes down; nothing goes up behind what goes down. *)
Downless(batch) == \A i \in DOMAIN batch : ~batch[i]
Ordered(batch)  == \A i, j \in DOMAIN batch : i < j /\ batch[i] => batch[j]

(* Of a queue: no press is pending; none was sent in this pump either; at most the
   last of what is pending is one; between two pumps. *)
Waiting(b)  == \A k \in Keys : Downless(b.pending[k])
Quiet(b)    == Waiting(b) /\ \A k \in Keys : Downless(b.sent[k])
Pressing(b) == \A k \in Keys : Downless(b.sent[k]) /\ Ordered(b.pending[k])
Sent(b)     == Waiting(b) /\ \A k \in Keys : Ordered(b.sent[k])

-----------------------------------------------------------------------------
(* Batches. *)

LEMMA DownlessOrdered ==
  ASSUME NEW s \in Seq(BOOLEAN), Downless(s)
  PROVE  Ordered(s)
BY DEF Downless, Ordered

LEMMA DownlessAppend ==
  ASSUME NEW s \in Seq(BOOLEAN), Downless(s)
  PROVE  Downless(Append(s, FALSE)) /\ Ordered(Append(s, TRUE))
<1>1. ASSUME NEW b \in BOOLEAN
      PROVE  /\ DOMAIN Append(s, b) = 1 .. Len(s) + 1
             /\ \A i \in 1 .. Len(s) : Append(s, b)[i] = s[i]
             /\ Append(s, b)[Len(s) + 1] = b
  BY AppendProperties
<1>2. DOMAIN s = 1 .. Len(s) /\ Len(s) \in Nat
  BY LenProperties
<1>3. \A i \in 1 .. Len(s) + 1 : i \in 1 .. Len(s) \/ i = Len(s) + 1
  BY <1>2
<1>4. Downless(Append(s, FALSE))
  BY <1>1, <1>2, <1>3 DEF Downless
<1>5. Ordered(Append(s, TRUE))
  <2> SUFFICES ASSUME NEW i \in 1 .. Len(s) + 1, NEW j \in 1 .. Len(s) + 1,
                      i < j, Append(s, TRUE)[i]
               PROVE  Append(s, TRUE)[j]
    BY <1>1 DEF Ordered
  <2>1. i \in 1 .. Len(s)
    BY <1>2
  <2>2. ~s[i]
    BY <1>2, <2>1 DEF Downless
  <2> QED
    BY <1>1, <2>1, <2>2
<1> QED
  BY <1>4, <1>5

LEMMA PlacesOfConcat ==
  ASSUME NEW s \in Seq(BOOLEAN), NEW t \in Seq(BOOLEAN)
  PROVE  /\ DOMAIN (s \o t) = 1 .. Len(s) + Len(t)
         /\ \A i \in 1 .. Len(s) + Len(t) :
              (s \o t)[i] = IF i <= Len(s) THEN s[i] ELSE t[i - Len(s)]
         /\ DOMAIN s = 1 .. Len(s) /\ DOMAIN t = 1 .. Len(t)
         /\ Len(s) \in Nat /\ Len(t) \in Nat
OBVIOUS

LEMMA DownlessConcat ==
  ASSUME NEW s \in Seq(BOOLEAN), NEW t \in Seq(BOOLEAN), Downless(s)
  PROVE  /\ Downless(t) => Downless(s \o t)
         /\ Ordered(t) => Ordered(s \o t)
<1>1. ASSUME NEW i \in 1 .. Len(s) + Len(t), (s \o t)[i]
      PROVE  i - Len(s) \in 1 .. Len(t) /\ t[i - Len(s)]
  <2>1. i > Len(s)
    BY <1>1, PlacesOfConcat DEF Downless
  <2> QED
    BY <1>1, <2>1, PlacesOfConcat
<1>2. Downless(t) => Downless(s \o t)
  BY <1>1, PlacesOfConcat DEF Downless
<1>3. ASSUME Ordered(t), NEW i \in 1 .. Len(s) + Len(t), NEW j \in 1 .. Len(s) + Len(t),
             i < j, (s \o t)[i]
      PROVE  (s \o t)[j]
  <2>1. i - Len(s) \in 1 .. Len(t) /\ t[i - Len(s)]
    BY <1>3, <1>1
  <2>2. j - Len(s) \in 1 .. Len(t) /\ i - Len(s) < j - Len(s) /\ j > Len(s)
    BY <1>3, <2>1, PlacesOfConcat
  <2>3. t[j - Len(s)]
    BY <1>3, <2>1, <2>2, PlacesOfConcat DEF Ordered
  <2> QED
    BY <2>2, <2>3, PlacesOfConcat
<1> QED
  BY <1>2, <1>3, PlacesOfConcat DEF Ordered

-----------------------------------------------------------------------------
(* The queue. *)

LEMMA BatchTypes ==
  ASSUME NEW b \in KeyboardState, NEW k \in Keys
  PROVE  b.pending[k] \in Seq(BOOLEAN) /\ b.sent[k] \in Seq(BOOLEAN)
BY DEF KeyboardState

LEMMA ReleaseWaits ==
  ASSUME NEW b \in KeyboardState, Waiting(b), NEW k \in Keys
  PROVE  Waiting(Release(b, k)) /\ Release(b, k).sent = b.sent
<1>1. Release(b, k).sent = b.sent
  BY DEF Release, Queue, KeyboardState
<1>2. ASSUME NEW j \in Keys
      PROVE  Release(b, k).pending[j] \in {b.pending[j], Append(b.pending[j], FALSE)}
  BY DEF Release, Queue, KeyboardState
<1> QED
  BY <1>1, <1>2, BatchTypes, DownlessAppend DEF Waiting

LEMMA PressPresses ==
  ASSUME NEW b \in KeyboardState, Quiet(b), NEW k \in Keys
  PROVE  Pressing(Press(b, k))
<1>1. Press(b, k).sent = b.sent
  BY DEF Press, Queue, KeyboardState
<1>2. ASSUME NEW j \in Keys
      PROVE  Press(b, k).pending[j] \in {b.pending[j], Append(b.pending[j], TRUE)}
  BY DEF Press, Queue, KeyboardState
<1> QED
  BY <1>1, <1>2, BatchTypes, DownlessAppend, DownlessOrdered DEF Quiet, Waiting, Pressing

(* What a flush does, where everything gets through. *)
LEMMA FlushSends ==
  ASSUME Framed, NEW b \in KeyboardState
  PROVE  /\ \A k \in Keys : Flush(b).sent[k] = b.sent[k] \o b.pending[k]
         /\ Waiting(Flush(b))
<1>1. Ready(b) /\ \A k \in Keys : Accepted(b, k) = b.pending[k]
  BY DEF Framed, Ready, Accepted
<1>2. /\ Flush(b).pending = NoBatches
      /\ Flush(b).sent = [k \in Keys |-> b.sent[k] \o Accepted(b, k)]
  BY <1>1 DEF Flush, KeyboardState
<1>3. \A k \in Keys : Flush(b).sent[k] = b.sent[k] \o b.pending[k]
  BY <1>1, <1>2
<1>4. Waiting(Flush(b))
  BY <1>2 DEF Waiting, NoBatches, Downless
<1> QED
  BY <1>3, <1>4

LEMMA FlushQuiet ==
  ASSUME Framed, NEW b \in KeyboardState, Quiet(b)
  PROVE  Quiet(Flush(b))
BY FlushSends, BatchTypes, DownlessConcat DEF Quiet, Waiting

LEMMA FlushPressing ==
  ASSUME Framed, NEW b \in KeyboardState, Pressing(b)
  PROVE  Sent(Flush(b))
BY FlushSends, BatchTypes, DownlessConcat DEF Pressing, Sent

LEMMA ReleaseAllIsQuiet ==
  ASSUME Framed, NEW b \in KeyboardState, Quiet(b)
  PROVE  Quiet(ReleaseAll(b))
<1> DEFINE p == [k \in Keys |-> IF b.held[k] THEN Append(b.pending[k], FALSE) ELSE b.pending[k]]
           r == [b EXCEPT !.held = AllUp, !.pending = p]
<1>1. p \in [Keys -> Seq(BOOLEAN)] /\ \A k \in Keys : Downless(p[k])
  BY BatchTypes, AppendProperties, DownlessAppend DEF Quiet, Waiting
<1>2. AllUp \in [Keys -> BOOLEAN]
  BY DEF AllUp
<1>3. ReleaseAll(b) = Flush(r)
  BY DEF ReleaseAll
<1> HIDE DEF p
<1>4. r \in KeyboardState /\ r.pending = p /\ r.sent = b.sent
  BY <1>1, <1>2 DEF KeyboardState
<1>5. Quiet(r)
  BY <1>1, <1>4 DEF Quiet, Waiting
<1> QED
  BY <1>3, <1>4, <1>5, FlushQuiet

LEMMA SetInjectModeQuiet ==
  ASSUME Framed, NEW b \in KeyboardState, Quiet(b), NEW mode \in Modes
  PROVE  Quiet(SetInjectMode(b, mode))
<1>1. ReleaseAll(b) \in KeyboardState /\ Quiet(ReleaseAll(b))
  BY ReleaseAllType, ReleaseAllIsQuiet
<1> QED
  BY <1>1 DEF SetInjectMode, Quiet, Waiting, KeyboardState

-----------------------------------------------------------------------------
(* The handlers. *)

LEMMA AbortWaits ==
  ASSUME NEW w, WorldInv(w), Waiting(w.kb)
  PROVE  Waiting(AbortSequence(w).kb) /\ AbortSequence(w).kb.sent = w.kb.sent
<1>1. w.kb \in KeyboardState /\ w.seq.heldKey \in Keys
  BY WorldFields DEF WorldInv
<1> QED
  BY <1>1, ReleaseWaits DEF AbortSequence

LEMMA AbortQuiet ==
  ASSUME NEW w, WorldInv(w), Quiet(w.kb)
  PROVE  Quiet(AbortSequence(w).kb)
BY AbortWaits DEF Quiet

LEMMA ConfiguredQuiet ==
  ASSUME Framed, NEW old \in Settings, NEW new \in Settings, NEW w, WorldInv(w), Quiet(w.kb)
  PROVE  Quiet(OnConfigured(old, new, w).kb)
<1> DEFINE moded    == [w EXCEPT !.kb = SetInjectMode(@, new.mode)]
           disabled == IF old.enabled /\ ~new.enabled THEN AbortSequence(moded) ELSE moded
<1>1. w \in WorldState /\ w.kb \in KeyboardState /\ AgreeInv(w.kb) /\ HoldInv(w)
      /\ new.mode \in Modes
  BY SettingsRanges, WorldFields DEF WorldInv
<1>2. SetInjectMode(w.kb, new.mode) \in KeyboardState
      /\ AgreeInv(SetInjectMode(w.kb, new.mode))
      /\ \A k \in Keys : SetInjectMode(w.kb, new.mode).held[k] => w.kb.held[k]
  BY <1>1, SetInjectModeType, SetInjectModeAgreeInv, SetInjectModeHeld
<1>3. WorldInv(moded) /\ Quiet(moded.kb)
  <2>1. WorldInv([w EXCEPT !.kb = SetInjectMode(w.kb, new.mode)])
    BY <1>2, KeyboardStep
  <2>2. moded.kb = SetInjectMode(w.kb, new.mode)
    BY <1>1 DEF WorldState
  <2> QED
    BY <1>1, <2>1, <2>2, SetInjectModeQuiet
<1>4. OnConfigured(old, new, w) = IF disabled.seq.active /\ disabled.seq.heldKey # new.key
                                  THEN AbortSequence(disabled) ELSE disabled
  BY DEF OnConfigured
<1> HIDE DEF moded
<1>5. WorldInv(disabled) /\ Quiet(disabled.kb)
  BY <1>3, AbortPreserves, AbortQuiet
<1> HIDE DEF disabled
<1> QED
  BY <1>4, <1>5, AbortQuiet

(* A hit lets go, and starts nothing but a timer. *)
LEMMA HurtWaits ==
  ASSUME NEW c \in Settings, NEW late \in Nat, NEW w, WorldInv(w), Waiting(w.kb),
         NEW v \in OnLocalPlayerHurt(c, w, late)
  PROVE  Waiting(v.kb) /\ v.kb.sent = w.kb.sent
<1>1. CASE v = w
  BY <1>1
<1>2. ASSUME NEW presses, NEW delay, v = Begin(c, AbortSequence(w), late, presses, delay)
      PROVE  v.kb = AbortSequence(w).kb
  <2>1. AbortSequence(w) \in WorldState
    BY AbortPreserves DEF WorldInv
  <2> QED
    BY <1>2, <2>1 DEF Begin, WorldState
<1>3. ASSUME NEW n, v = [w EXCEPT !.seq.cooldownIn = NotNegative(late + n)]
      PROVE  v.kb = w.kb
  BY <1>3 DEF WorldInv, WorldState
<1>4. v.kb \in {w.kb, AbortSequence(w).kb}
  BY <1>1, <1>2, <1>3 DEF OnLocalPlayerHurt, Rolls
<1> QED
  BY <1>4, AbortWaits

LEMMA PollQuiet ==
  ASSUME NEW c \in Settings, NEW late \in Nat, NEW w, WorldInv(w), Quiet(w.kb),
         NEW v \in PollDebugKey(c, w, late)
  PROVE  Quiet(v.kb)
<1>1. ASSUME NEW u \in PollAutoFire(c, w, late)
      PROVE  WorldInv(u) /\ Quiet(u.kb)
  <2> DEFINE s == [w.seq EXCEPT !.sinceFire = 0]
             fired == [w EXCEPT !.seq.sinceFire = 0]
  <2>1. w \in WorldState /\ w.seq \in SequenceState
    BY WorldFields DEF WorldInv
  <2>2. fired = [seq |-> s, kb |-> w.kb] /\ s \in SequenceState
    BY <2>1, AgeAssumption DEF SequenceState, WorldState
  <2>3. /\ s.active = w.seq.active /\ s.holding = w.seq.holding /\ s.heldKey = w.seq.heldKey
        /\ s.pressesLeft = w.seq.pressesLeft
        /\ w.seq.active \in BOOLEAN /\ w.seq.holding \in BOOLEAN
        /\ w.seq.active => w.seq.pressesLeft > 0
    BY <2>1 DEF SequenceState, WorldInv
  <2> HIDE DEF s, fired
  <2>4. WorldInv([seq |-> s, kb |-> w.kb])
    BY <2>2, <2>3, SequenceStep
  <2>5. WorldInv(fired) /\ Quiet(fired.kb)
    BY <2>2, <2>4
  <2>6. u = w \/ u \in OnLocalPlayerHurt(c, fired, late)
    BY DEF PollAutoFire, fired
  <2>7. CASE u \in OnLocalPlayerHurt(c, fired, late)
    <3>1. WorldInv(u)
      BY <2>5, <2>7, HurtPreserves
    <3>2. Waiting(u.kb) /\ u.kb.sent = fired.kb.sent
      BY <2>5, <2>7, HurtWaits DEF Quiet
    <3> QED
      BY <2>5, <3>1, <3>2 DEF Quiet
  <2> QED
    BY <2>6, <2>7
<1>2. ASSUME NEW u, WorldInv(u), Quiet(u.kb), NEW t \in PollTriggerKey(c, u, late)
      PROVE  Quiet(t.kb)
  <2>1. CASE ~c.enabled \/ c.debugKey = NoKey
    BY <1>2, <2>1 DEF PollTriggerKey
  <2>2. CASE ~(~c.enabled \/ c.debugKey = NoKey)
    <3> DEFINE down == GameKeyDown(u.kb, c.debugKey)
    <3>1. PICK x \in IF down /\ ~u.seq.wasDown THEN OnLocalPlayerHurt(c, u, late) ELSE {u} :
            t = [x EXCEPT !.seq.wasDown = down]
      BY <1>2, <2>2 DEF PollTriggerKey
    <3>2. x \in WorldState /\ Quiet(x.kb)
      BY <1>2, <3>1, HurtPreserves, HurtWaits DEF WorldInv, Quiet
    <3> HIDE DEF down
    <3>3. t.kb = x.kb
      BY <3>1, <3>2 DEF WorldState
    <3> QED
      BY <3>2, <3>3
  <2> QED
    BY <2>1, <2>2
<1> QED
  BY <1>1, <1>2 DEF PollDebugKey

LEMMA QuietPresses ==
  ASSUME NEW b \in KeyboardState, Quiet(b)
  PROVE  Pressing(b)
BY BatchTypes, DownlessOrdered DEF Quiet, Waiting, Pressing

LEMMA AdvancePresses ==
  ASSUME NEW c \in Settings, NEW w, WorldInv(w), Quiet(w.kb), NEW v \in Advance(c, w)
  PROVE  Pressing(v.kb)
<1>1. w.kb \in KeyboardState /\ w.seq.heldKey \in Keys
  BY WorldFields DEF WorldInv
<1>2. CASE ~w.seq.active \/ w.seq.nextActionIn > 0
  BY <1>1, <1>2, QuietPresses DEF Advance
<1>3. CASE ~(~w.seq.active \/ w.seq.nextActionIn > 0) /\ ~w.seq.holding
  <2>1. PICK n \in Pick(c.hold) :
          v = [seq |-> [w.seq EXCEPT !.holding = TRUE, !.nextActionIn = NotNegative(n)],
               kb  |-> Press(w.kb, w.seq.heldKey)]
    BY <1>3 DEF Advance, PressDown
  <2> QED
    BY <1>1, <2>1, PressPresses
<1>4. CASE ~(~w.seq.active \/ w.seq.nextActionIn > 0) /\ w.seq.holding
  <2> DEFINE b == Release(w.kb, w.seq.heldKey)
  <2>1. b \in KeyboardState /\ Quiet(b)
    BY <1>1, QueueType, ReleaseWaits DEF Release, Quiet
  <2>2. v \in AfterPress(c, LetGo(w)) /\ LetGo(w).kb = b /\ DOMAIN LetGo(w) = {"seq", "kb"}
    BY <1>4 DEF Advance, LetGo
  <2> HIDE DEF b
  <2>3. CASE \E n \in Pick(c.release) : v = [LetGo(w) EXCEPT !.seq.nextActionIn = NotNegative(n)]
    <3>1. v.kb = b
      BY <2>2, <2>3
    <3> QED
      BY <2>1, <3>1, QuietPresses
  <2>4. CASE \E n \in Pick(c.cooldown) :
               v = [LetGo(w) EXCEPT !.seq.active = FALSE, !.seq.cooldownIn = NotNegative(n)]
    <3>1. v.kb = b
      BY <2>2, <2>4
    <3> QED
      BY <2>1, <3>1, QuietPresses
  <2> QED
    BY <2>2, <2>3, <2>4 DEF AfterPress
<1> QED
  BY <1>2, <1>3, <1>4

LEMMA NewPumpQuiet ==
  ASSUME NEW b \in KeyboardState, Waiting(b)
  PROVE  NewPump(b) \in KeyboardState /\ Quiet(NewPump(b))
<1>1. NewPump(b).pending = b.pending /\ NewPump(b).sent = NoBatches
  BY DEF NewPump, KeyboardState
<1> QED
  BY <1>1, NewPumpPreserves DEF Quiet, Waiting, NoBatches, Downless

LEMMA PumpedSends ==
  ASSUME Framed, NEW old \in Settings, NEW new \in Settings, NEW w, WorldInv(w),
         Waiting(w.kb), NEW late \in Nat, NEW v \in Pumped(old, new, w, late, TRUE)
  PROVE  Sent(v.kb)
<1> DEFINE fresh      == [w EXCEPT !.kb = NewPump(@)]
           configured == OnConfigured(old, new, fresh)
           flushed    == [configured EXCEPT !.kb = Flush(@)]
<1>1. WorldInv(fresh) /\ Quiet(fresh.kb)
  <2>1. w \in WorldState /\ w.kb \in KeyboardState /\ AgreeInv(w.kb)
    BY WorldFields DEF WorldInv
  <2>2. WorldInv(fresh)
    BY <2>1, NewPumpPreserves, KeyboardStep
  <2>3. fresh.kb = NewPump(w.kb)
    BY <2>1 DEF WorldState
  <2> QED
    BY <2>1, <2>2, <2>3, NewPumpQuiet
<1> HIDE DEF fresh
<1>2. WorldInv(configured) /\ Quiet(configured.kb)
  BY <1>1, ConfiguredPreserves, ConfiguredQuiet
<1> HIDE DEF configured
<1>3. WorldInv(flushed) /\ Quiet(flushed.kb)
  <2>1. configured \in WorldState /\ configured.kb \in KeyboardState
    BY <1>2, WorldFields DEF WorldInv
  <2>2. flushed.kb = Flush(configured.kb)
    BY <2>1 DEF WorldState
  <2> QED
    BY <1>2, <2>1, <2>2, FlushPreserves, FlushQuiet
<1>4. PICK u \in OnTick(new, flushed, late) : v = Elapsed([u EXCEPT !.kb = Flush(@)], late)
  BY DEF Pumped, fresh, configured
<1> HIDE DEF flushed
<1>5. WorldInv(u) /\ Pressing(u.kb)
  BY <1>3, <1>4, TickPreserves, PollPreserves, PollQuiet, AdvancePresses DEF OnTick
<1>6. u \in WorldState /\ u.kb \in KeyboardState
  BY <1>5, WorldFields DEF WorldInv
<1>7. [u EXCEPT !.kb = Flush(@)].kb = Flush(u.kb)
  BY <1>6 DEF WorldState
<1>8. v.kb = Flush(u.kb)
  BY <1>4, <1>7 DEF Elapsed
<1> QED
  BY <1>5, <1>6, <1>8, FlushPressing

-----------------------------------------------------------------------------
(* The specification. *)

FrameInv == Inv /\ source = "game" /\ Sent(kb)

LEMMA SentSame ==
  ASSUME Sent(kb), Waiting(kb'), kb'.sent = kb.sent
  PROVE  Sent(kb)'
BY DEF Sent, Waiting

LEMMA NextSends == Framed /\ FrameInv /\ [Next]_vars => FrameInv'
<1> SUFFICES ASSUME Framed, FrameInv, [Next]_vars PROVE source' = "game" /\ Sent(kb)'
  BY NextInv DEF FrameInv
<1>0. /\ WorldInv(World) /\ World.kb = kb /\ Sent(kb) /\ Waiting(kb) /\ source = "game"
      /\ kb \in KeyboardState /\ settings \in Settings
  BY ConfigsAssumption DEF FrameInv, Sent, Inv, TypeOK, World
<1>1. CASE TimerPump
  BY <1>0, <1>1 DEF TimerPump
<1>2. CASE GamePump
  <2>1. PICK new \in Configs, late \in 0 .. MaxLag :
          \E w \in Pumped(settings, new, World, late, TRUE) : Becomes(w)
    BY <1>2 DEF GamePump, Pump
  <2>2. PICK w \in Pumped(settings, new, World, late, TRUE) : Becomes(w)
    BY <2>1
  <2>3. new \in Settings /\ late \in Nat
    BY ConfigsAssumption, BoundsAssumption
  <2>4. Sent(w.kb)
    BY <1>0, <2>2, <2>3, PumpedSends
  <2>5. Sent(kb')
    BY <2>2, <2>4 DEF Becomes
  <2> QED
    BY <1>2, <2>5 DEF GamePump, Sent, Waiting
<1>3. CASE Hurt
  <2>1. PICK w \in OnLocalPlayerHurt(settings, World, 0) : Becomes(w)
    BY <1>3 DEF Hurt
  <2>2. Waiting(w.kb) /\ w.kb.sent = kb.sent
    BY <1>0, <2>1, HurtWaits
  <2> QED
    BY <1>0, <1>3, <2>1, <2>2, SentSame DEF Becomes, Hurt
<1>4. CASE OnCreate \/ Elapse \/ UNCHANGED vars
  <2>1. kb'.sent = kb.sent /\ kb'.pending = kb.pending /\ source' = source
    BY <1>0, <1>4 DEF OnCreate, Captured, Elapse, Elapsed, Becomes, World, vars, KeyboardState
  <2> QED
    BY <1>0, <2>1, SentSame DEF Waiting
<1>5. CASE PlayerKey
  <2>1. kb'.sent = kb.sent /\ kb'.pending = kb.pending /\ source' = source
    BY <1>0, <1>5 DEF PlayerKey, Touched, KeyboardState
  <2> QED
    BY <1>0, <2>1, SentSame DEF Waiting
<1>6. CASE Shutdown
  <2>1. NewPump(kb) \in KeyboardState /\ Quiet(NewPump(kb))
    BY <1>0, NewPumpQuiet
  <2>2. kb' \in KeyboardState /\ Quiet(kb') /\ source' = source
    BY <1>6, <2>1, ReleaseAllIsQuiet, ReleaseAllType DEF Shutdown
  <2>3. Waiting(kb') /\ \A k \in Keys : Ordered(kb'.sent[k])
    BY <2>2, BatchTypes, DownlessOrdered DEF Quiet
  <2> QED
    BY <1>0, <2>2, <2>3 DEF Sent, Waiting
<1> QED
  BY <1>1, <1>2, <1>3, <1>4, <1>5, <1>6 DEF Next

(* "A press and its release never collapse into the same frame", which takes the
   second flush of the game thread: with it, nothing ever sits behind a press. *)
THEOREM FramesStayApart ==
  ASSUME Framed
  PROVE  Spec => []NoCollapse
<1>1. Init => FrameInv
  <2> SUFFICES ASSUME Init PROVE source = "game" /\ Sent(kb)
    BY InitInv DEF FrameInv
  <2>1. kb.sent = NoBatches /\ kb.pending = NoBatches
    BY DEF Init, InitialKeyboard
  <2> QED
    BY <2>1 DEF Init, Framed, Sent, Waiting, NoBatches, Downless, Ordered
<1>2. FrameInv /\ [Next]_vars => FrameInv'
  BY NextSends
<1>3. FrameInv => NoCollapse
  BY DEF FrameInv, Sent, Ordered, NoCollapse
<1> QED
  BY <1>1, <1>2, <1>3, PTL DEF Spec

-----------------------------------------------------------------------------
(***************************************************************************)
(* hold_ms is kept to the game: where the game thread ticks, no hit may    *)
(* cut in and every config asks for the same shortest hold, a key that the *)
(* game sees down has been so for hold.min when its sequence's deadline is *)
(* reached, for every other setting, every reload and every lag of a pump. *)
(***************************************************************************)

Steady ==
  /\ Framed /\ NoneCancels
  /\ \A c, d \in Configs : c.hold.min = d.hold.min
  /\ \A c \in Configs : c.hold.min <= MaxAge

(* Between two pumps everything queued has been handed over, under the mode and for
   the key the settings name. *)
Drained(b)     == \A k \in Keys : b.pending[k] = << >>
Follows(w, c)  == Drained(w.kb) /\ w.kb.mode = c.mode /\ (w.seq.active => w.seq.heldKey = c.key)

(* What is left of a hold and what is already behind it make up the shortest one. *)
LongEnough(w, down, shortest) ==
  \A k \in Keys : w.kb.held[k] => down + w.seq.nextActionIn >= shortest

(* With everything handed over the game sees exactly what gHeld says is down. *)
LEMMA SeenIsHeld ==
  ASSUME Framed, NEW b \in KeyboardState, AgreeInv(b), Drained(b), NEW k \in ModKeys
  PROVE  GameSees(b, k) <=> b.held[k]
<1>1. Agrees(b, k) /\ b.pending[k] = << >> /\ k \in Keys
  BY DEF Framed, AgreeInv, WholeActivities, Tracks, Told, Drained, ModKeys
<1>2. b.states[k] \in BOOLEAN /\ b.events[k] \in BOOLEAN /\ b.held[k] \in BOOLEAN
  BY <1>1 DEF KeyboardState
<1>3. WritesStates(b) \/ SendsEvents(b)
  BY DEF Framed, WritesStates, SendsEvents
<1> QED
  BY <1>1, <1>2, <1>3 DEF Agrees, After, GameSees

LEMMA FlushDrains ==
  ASSUME Framed, NEW b \in KeyboardState
  PROVE  Drained(Flush(b)) /\ Flush(b).mode = b.mode /\ Flush(b).held = b.held
<1>1. Ready(b)
  BY DEF Framed, Ready
<1> QED
  BY <1>1 DEF Flush, KeyboardState, Drained, NoBatches

-----------------------------------------------------------------------------
(* The handlers. *)

LEMMA AbortOfNothing ==
  ASSUME NEW w, WorldInv(w), ~w.seq.active
  PROVE  AbortSequence(w).kb = w.kb
<1>1. w.seq.heldKey \in Keys /\ ~w.kb.held[w.seq.heldKey] /\ w.kb \in KeyboardState
  BY WorldFields DEF WorldInv, HoldInv
<1>2. w.kb.held[w.seq.heldKey] = FALSE
  BY <1>1 DEF KeyboardState
<1> QED
  BY <1>2 DEF AbortSequence, Release, Queue

LEMMA AbortKeepsMode ==
  ASSUME NEW w, WorldInv(w)
  PROVE  AbortSequence(w).kb.mode = w.kb.mode
BY WorldFields DEF AbortSequence, Release, Queue, KeyboardState, WorldInv

LEMMA NothingHeld ==
  ASSUME NEW w, WorldInv(w), ~w.seq.active, NEW k \in Keys
  PROVE  ~w.kb.held[k]
BY DEF WorldInv, HoldInv

(* A reload brings its mode and its key; what it does not abort it leaves as it was. *)
LEMMA ConfiguredFollows ==
  ASSUME NEW old \in Settings, NEW new \in Settings, NEW w, WorldInv(w),
         NEW r, r = OnConfigured(old, new, w)
  PROVE  /\ r.kb.mode = new.mode
         /\ r.seq.active => r.seq = w.seq /\ r.seq.heldKey = new.key
         /\ \A k \in Keys : r.kb.held[k] => w.kb.held[k] /\ r.seq.active
<1> DEFINE m        == SetInjectMode(w.kb, new.mode)
           moded    == [w EXCEPT !.kb = SetInjectMode(@, new.mode)]
           disabled == IF old.enabled /\ ~new.enabled THEN AbortSequence(moded) ELSE moded
<1>1. w \in WorldState /\ w.kb \in KeyboardState /\ AgreeInv(w.kb) /\ new.mode \in Modes
  BY SettingsRanges, WorldFields DEF WorldInv
<1>2. /\ m \in KeyboardState /\ AgreeInv(m)
      /\ \A k \in Keys : m.held[k] => w.kb.held[k]
  BY <1>1, SetInjectModeType, SetInjectModeAgreeInv, SetInjectModeHeld
<1>3. m.mode = new.mode
  <2>1. ReleaseAll(w.kb) \in KeyboardState
    BY <1>1, ReleaseAllType
  <2> QED
    BY <2>1 DEF SetInjectMode, KeyboardState
<1>4. moded.kb = m /\ moded.seq = w.seq
  BY <1>1 DEF WorldState
<1>5. WorldInv(moded)
  <2>1. WorldInv([w EXCEPT !.kb = m])
    BY <1>2, KeyboardStep
  <2> QED
    BY <2>1
<1>6. r = IF disabled.seq.active /\ disabled.seq.heldKey # new.key
          THEN AbortSequence(disabled) ELSE disabled
  BY DEF OnConfigured
<1> HIDE DEF moded, m
<1>7. /\ WorldInv(disabled) /\ disabled.kb.mode = new.mode
      /\ disabled.seq.active => disabled = moded
  BY <1>3, <1>4, <1>5, AbortPreserves, AbortKeepsMode
<1> HIDE DEF disabled
<1>8. /\ WorldInv(r) /\ r.kb.mode = new.mode
      /\ r.seq.active => r = moded /\ r.seq.heldKey = new.key
  BY <1>6, <1>7, AbortPreserves, AbortKeepsMode
<1>9. ASSUME NEW k \in Keys, r.kb.held[k]
      PROVE  w.kb.held[k] /\ r.seq.active
  <2>1. r.seq.active
    BY <1>8, <1>9, NothingHeld
  <2> QED
    BY <1>2, <1>4, <1>8, <1>9, <2>1
<1> QED
  BY <1>4, <1>8, <1>9

(* Settings that are left alone leave everything alone. *)
LEMMA ConfiguredIdle ==
  ASSUME NEW c \in Settings, NEW w, WorldInv(w), w.kb.mode = c.mode,
         w.seq.active => w.seq.heldKey = c.key
  PROVE  OnConfigured(c, c, w) = w
<1>1. [w EXCEPT !.kb = SetInjectMode(@, c.mode)] = w
  BY DEF SetInjectMode, WorldInv, WorldState
<1> QED
  BY <1>1 DEF OnConfigured

(* Where no hit may cut in, one that comes during a sequence does nothing and any other
   has nothing to let go of. *)
LEMMA HurtLetsBe ==
  ASSUME NEW c \in Settings, ~c.cancel, NEW w, WorldInv(w), NEW late \in Nat,
         NEW v \in OnLocalPlayerHurt(c, w, late)
  PROVE  /\ v.kb = w.kb
         /\ w.seq.active => v = w
         /\ v.seq.active => w.seq.active \/ v.seq.heldKey = c.key
<1>1. CASE Ignores(c, w, late)
  BY <1>1 DEF OnLocalPlayerHurt
<1>2. CASE ~Ignores(c, w, late)
  <2>1. ~w.seq.active
    BY <1>2 DEF Ignores
  <2>2. w \in WorldState
    BY DEF WorldInv
  <2>3. ASSUME NEW presses \in Pick(c.repeats), NEW delay \in Pick(c.delay),
               v = Begin(c, AbortSequence(w), late, presses, delay)
        PROVE  v.kb = w.kb /\ v.seq.heldKey = c.key
    <3>1. AbortSequence(w) \in WorldState /\ AbortSequence(w).kb = w.kb
      BY <2>1, AbortPreserves, AbortOfNothing DEF WorldInv
    <3> QED
      BY <2>3, <3>1 DEF Begin, WorldState, SequenceState
  <2>4. ASSUME NEW n \in Pick(c.cooldown),
               v = [w EXCEPT !.seq.cooldownIn = NotNegative(late + n)]
        PROVE  v.kb = w.kb /\ v.seq.active = w.seq.active
    BY <2>2, <2>4 DEF WorldState, SequenceState
  <2> QED
    BY <1>2, <2>1, <2>3, <2>4 DEF OnLocalPlayerHurt, Rolls
<1> QED
  BY <1>1, <1>2

(* So do the two debug triggers. *)
SameHold(v, w) == /\ v.seq.active /\ v.seq.heldKey = w.seq.heldKey
                  /\ v.seq.holding = w.seq.holding /\ v.seq.nextActionIn = w.seq.nextActionIn

LEMMA PollLetsBe ==
  ASSUME NEW c \in Settings, ~c.cancel, NEW w, WorldInv(w), NEW late \in Nat,
         NEW v \in PollDebugKey(c, w, late)
  PROVE  /\ v.kb = w.kb
         /\ w.seq.active => SameHold(v, w)
         /\ v.seq.active => w.seq.active \/ v.seq.heldKey = c.key
<1>1. ASSUME NEW u \in PollAutoFire(c, w, late)
      PROVE  /\ WorldInv(u) /\ u.kb = w.kb
             /\ w.seq.active => SameHold(u, w)
             /\ u.seq.active => w.seq.active \/ u.seq.heldKey = c.key
  <2> DEFINE s == [w.seq EXCEPT !.sinceFire = 0]
             fired == [w EXCEPT !.seq.sinceFire = 0]
  <2>1. w \in WorldState /\ w.seq \in SequenceState
    BY WorldFields DEF WorldInv
  <2>2. fired = [seq |-> s, kb |-> w.kb] /\ s \in SequenceState
    BY <2>1, AgeAssumption DEF SequenceState, WorldState
  <2>3. /\ s.active = w.seq.active /\ s.holding = w.seq.holding /\ s.heldKey = w.seq.heldKey
        /\ s.pressesLeft = w.seq.pressesLeft /\ s.nextActionIn = w.seq.nextActionIn
        /\ w.seq.active \in BOOLEAN /\ w.seq.holding \in BOOLEAN
        /\ w.seq.active => w.seq.pressesLeft > 0
    BY <2>1 DEF SequenceState, WorldInv
  <2> HIDE DEF s, fired
  <2>4. WorldInv([seq |-> s, kb |-> w.kb])
    BY <2>2, <2>3, SequenceStep
  <2>5. WorldInv(fired) /\ fired.kb = w.kb /\ fired.seq = s
    BY <2>2, <2>4
  <2>6. u = w \/ u \in OnLocalPlayerHurt(c, fired, late)
    BY DEF PollAutoFire, fired
  <2>7. CASE u \in OnLocalPlayerHurt(c, fired, late)
    <3>1. /\ WorldInv(u) /\ u.kb = fired.kb
          /\ fired.seq.active => u = fired
          /\ u.seq.active => fired.seq.active \/ u.seq.heldKey = c.key
      BY <2>5, <2>7, HurtPreserves, HurtLetsBe
    <3> QED
      BY <2>3, <2>5, <3>1 DEF SameHold
  <2>8. CASE u = w
    BY <2>8 DEF SameHold
  <2> QED
    BY <2>6, <2>7, <2>8
<1>2. ASSUME NEW u, WorldInv(u), NEW t \in PollTriggerKey(c, u, late)
      PROVE  /\ t.kb = u.kb
             /\ u.seq.active => SameHold(t, u)
             /\ t.seq.active => u.seq.active \/ t.seq.heldKey = c.key
  <2>1. CASE ~c.enabled \/ c.debugKey = NoKey
    BY <1>2, <2>1 DEF PollTriggerKey, SameHold
  <2>2. CASE ~(~c.enabled \/ c.debugKey = NoKey)
    <3> DEFINE down == GameKeyDown(u.kb, c.debugKey)
    <3>1. PICK x \in IF down /\ ~u.seq.wasDown THEN OnLocalPlayerHurt(c, u, late) ELSE {u} :
            t = [x EXCEPT !.seq.wasDown = down]
      BY <1>2, <2>2 DEF PollTriggerKey
    <3>2. /\ x \in WorldState /\ x.kb = u.kb
          /\ u.seq.active => x = u
          /\ x.seq.active => u.seq.active \/ x.seq.heldKey = c.key
      BY <1>2, <3>1, HurtPreserves, HurtLetsBe DEF WorldInv
    <3> HIDE DEF down
    <3>3. /\ t.kb = x.kb /\ t.seq.active = x.seq.active /\ t.seq.heldKey = x.seq.heldKey
          /\ t.seq.holding = x.seq.holding /\ t.seq.nextActionIn = x.seq.nextActionIn
      BY <3>1, <3>2 DEF WorldState, SequenceState
    <3> QED
      BY <3>2, <3>3 DEF SameHold
  <2> QED
    BY <2>1, <2>2
<1>3. PICK u \in PollAutoFire(c, w, late) : v \in PollTriggerKey(c, u, late)
  BY DEF PollDebugKey
<1>4. /\ WorldInv(u) /\ u.kb = w.kb
      /\ w.seq.active => SameHold(u, w)
      /\ u.seq.active => w.seq.active \/ u.seq.heldKey = c.key
  BY <1>1
<1>5. /\ v.kb = u.kb
      /\ u.seq.active => SameHold(v, u)
      /\ v.seq.active => u.seq.active \/ v.seq.heldKey = c.key
  BY <1>2, <1>3, <1>4
<1>6. w.seq.active => SameHold(v, w)
  BY <1>4, <1>5 DEF SameHold
<1>7. v.seq.active => w.seq.active \/ v.seq.heldKey = c.key
  BY <1>4, <1>5 DEF SameHold
<1> QED
  BY <1>4, <1>5, <1>6, <1>7

(* The tick lets go of a key only when its time is up, and presses one for no less than
   the shortest hold. *)
Advanced(c, w, v) ==
  /\ w.seq.nextActionIn > 0 => v = w
  /\ v.kb.mode = w.kb.mode /\ v.seq.heldKey = w.seq.heldKey
  /\ v.seq.active => w.seq.active
  /\ \A k \in Keys : v.kb.held[k] =>
       v = w \/ (v.kb.pending[k] = <<TRUE>> /\ v.seq.nextActionIn >= c.hold.min)

LEMMA AdvanceHolds ==
  ASSUME NEW c \in Settings, NEW w, WorldInv(w), Drained(w.kb), NEW v \in Advance(c, w)
  PROVE  Advanced(c, w, v)
<1> USE DEF Advanced
<1>1. /\ w \in WorldState /\ w.seq \in SequenceState /\ w.kb \in KeyboardState
      /\ w.seq.heldKey \in Keys /\ HoldInv(w)
  BY WorldFields DEF WorldInv
<1>2. CASE ~w.seq.active \/ w.seq.nextActionIn > 0
  BY <1>2 DEF Advance
<1>3. CASE ~(~w.seq.active \/ w.seq.nextActionIn > 0) /\ ~w.seq.holding
  <2>1. PICK n \in Pick(c.hold) :
          v = [seq |-> [w.seq EXCEPT !.holding = TRUE, !.nextActionIn = NotNegative(n)],
               kb  |-> Press(w.kb, w.seq.heldKey)]
    BY <1>3 DEF Advance, PressDown
  <2>2. v.seq.nextActionIn >= c.hold.min
    <3>1. n \in Int /\ n >= c.hold.min /\ c.hold.min \in Int
      BY SettingsRanges DEF Pick, Ranges
    <3>2. v.seq.nextActionIn = NotNegative(n)
      BY <1>1, <2>1 DEF SequenceState
    <3> QED
      BY <3>1, <3>2 DEF NotNegative
  <2>3. v.seq.active = w.seq.active /\ v.seq.heldKey = w.seq.heldKey
    BY <1>1, <2>1 DEF SequenceState
  <2>4. v.kb = Queue(w.kb, w.seq.heldKey, TRUE)
    BY <2>1 DEF Press
  <2>5. v.kb.mode = w.kb.mode
    BY <1>1, <2>4 DEF Queue, KeyboardState
  <2>6. ASSUME NEW k \in Keys, v.kb.held[k]
        PROVE  v.kb.pending[k] = <<TRUE>>
    <3>1. ~w.kb.held[w.seq.heldKey] /\ ~w.kb.held[k]
      BY <1>1, <1>3 DEF HoldInv
    <3> DEFINE q == Queue(w.kb, w.seq.heldKey, TRUE)
    <3>q. /\ \A j \in Keys : j # w.seq.heldKey => q.held[j] = w.kb.held[j]
          /\ q.held[w.seq.heldKey]
               = (IF w.seq.heldKey \in Injectable THEN TRUE ELSE w.kb.held[w.seq.heldKey])
      BY <1>1, QueueHeld
    <3>h. q.held[k]
      BY <2>4, <2>6
    <3> HIDE DEF q
    <3>2. k = w.seq.heldKey
      <4> SUFFICES ASSUME k # w.seq.heldKey PROVE FALSE
        OBVIOUS
      <4>1. q.held[k] = w.kb.held[k]
        BY <3>q
      <4> QED
        BY <3>1, <3>h, <4>1, Zenon
    <3>3. k \in Injectable
      <4> SUFFICES ASSUME k \notin Injectable PROVE FALSE
        OBVIOUS
      <4>1. q.held[k] = w.kb.held[k]
        BY <3>q, <3>2
      <4> QED
        BY <3>1, <3>h, <4>1, Zenon
    <3>4. v.kb.pending[k] = Append(w.kb.pending[k], TRUE)
      <4>1. w.kb.held[k] = FALSE
        BY <1>1, <3>1 DEF KeyboardState
      <4>2. Queue(w.kb, k, TRUE).pending[k] = Append(w.kb.pending[k], TRUE)
        BY <1>1, <3>3, <4>1, QueuePends
      <4> QED
        BY <2>4, <3>2, <4>2
    <3>5. w.kb.pending[k] = << >> /\ Append(<< >>, TRUE) = <<TRUE>>
      BY DEF Drained
    <3> QED
      BY <3>4, <3>5
  <2> QED
    BY <1>3, <2>2, <2>3, <2>5, <2>6
<1>4. CASE ~(~w.seq.active \/ w.seq.nextActionIn > 0) /\ w.seq.holding
  <2> DEFINE b == Release(w.kb, w.seq.heldKey)
             s == [w.seq EXCEPT !.holding = FALSE, !.pressesLeft = @ - 1]
  <2>1. /\ v \in AfterPress(c, LetGo(w)) /\ LetGo(w).kb = b /\ LetGo(w).seq = s
        /\ DOMAIN LetGo(w) = {"seq", "kb"}
    BY <1>4 DEF Advance, LetGo
  <2>2. b.mode = w.kb.mode
    BY <1>1 DEF Release, Queue, KeyboardState
  <2>3. ASSUME NEW k \in Keys PROVE ~b.held[k]
    <3>1. b = Queue(w.kb, w.seq.heldKey, FALSE)
      BY DEF Release
    <3>2. w.kb.held[k] => k = w.seq.heldKey /\ k \in Injectable
      BY <1>1 DEF HoldInv
    <3> HIDE DEF b
    <3>3. CASE k # w.seq.heldKey
      BY <1>1, <3>1, <3>2, <3>3, QueueHeld
    <3>4. CASE k = w.seq.heldKey
      <4>1. b.held[k] = (IF k \in Injectable THEN FALSE ELSE w.kb.held[k])
        BY <1>1, <3>1, <3>4, QueueHeld
      <4> QED
        BY <3>2, <4>1
    <3> QED
      BY <3>3, <3>4
  <2>4. /\ s.active = w.seq.active /\ s.heldKey = w.seq.heldKey
        /\ DOMAIN s = DOMAIN w.seq /\ "active" \in DOMAIN s /\ "heldKey" \in DOMAIN s
    BY <1>1 DEF SequenceState
  <2> HIDE DEF b, s
  <2>5. CASE \E n \in Pick(c.release) : v = [LetGo(w) EXCEPT !.seq.nextActionIn = NotNegative(n)]
    <3>1. v.kb = b /\ v.seq.active = s.active /\ v.seq.heldKey = s.heldKey
      BY <2>1, <2>4, <2>5
    <3> QED
      BY <1>4, <2>2, <2>3, <2>4, <3>1
  <2>6. CASE \E n \in Pick(c.cooldown) :
               v = [LetGo(w) EXCEPT !.seq.active = FALSE, !.seq.cooldownIn = NotNegative(n)]
    <3>1. v.kb = b /\ ~v.seq.active /\ v.seq.heldKey = s.heldKey
      BY <2>1, <2>4, <2>6
    <3> QED
      BY <1>4, <2>2, <2>3, <2>4, <3>1
  <2> QED
    BY <2>1, <2>5, <2>6 DEF AfterPress
<1> QED
  BY <1>2, <1>3, <1>4

(* What a pump leaves held it pressed itself, for the shortest hold or longer, or it
   found held, and then pressed nothing. *)
PumpedOn(old, new, w, late, v) ==
  /\ Follows(v, new)
  /\ \A k \in Keys : v.kb.held[k] =>
       \/ /\ HasPress(v.kb.sent[k])
          /\ \E n \in Nat : /\ n >= new.hold.min
                            /\ v.seq.nextActionIn = NotNegative(n - late)
       \/ /\ w.kb.held[k] /\ \A j \in Keys : ~HasPress(v.kb.sent[j])
          /\ v.seq.nextActionIn = NotNegative(w.seq.nextActionIn - late)
  /\ old = new /\ w.seq.nextActionIn > 0 =>
       \A k \in Keys : w.kb.held[k] => v.kb.held[k]

LEMMA PumpedHolds ==
  ASSUME Framed, NEW old \in Settings, NEW new \in Settings, ~new.cancel,
         NEW w, WorldInv(w), Follows(w, old), NEW late \in Nat,
         NEW v \in Pumped(old, new, w, late, TRUE)
  PROVE  PumpedOn(old, new, w, late, v)
<1> DEFINE fresh      == [w EXCEPT !.kb = NewPump(@)]
           configured == OnConfigured(old, new, fresh)
           flushed    == [configured EXCEPT !.kb = Flush(@)]
<1>0. w \in WorldState /\ w.kb \in KeyboardState /\ AgreeInv(w.kb)
  BY WorldFields DEF WorldInv
<1>1. /\ WorldInv(fresh) /\ Quiet(fresh.kb) /\ fresh.seq = w.seq
      /\ fresh.kb.held = w.kb.held /\ fresh.kb.mode = w.kb.mode /\ Drained(fresh.kb)
  <2>1. WorldInv(fresh)
    BY <1>0, NewPumpPreserves, KeyboardStep
  <2>2. fresh.kb = NewPump(w.kb) /\ fresh.seq = w.seq
    BY <1>0 DEF WorldState
  <2>3. Waiting(w.kb)
    BY DEF Follows, Drained, Waiting, Downless
  <2>4. /\ NewPump(w.kb).held = w.kb.held /\ NewPump(w.kb).mode = w.kb.mode
        /\ NewPump(w.kb).pending = w.kb.pending
    BY <1>0 DEF NewPump, KeyboardState
  <2> QED
    BY <1>0, <2>1, <2>2, <2>3, <2>4, NewPumpQuiet DEF Follows, Drained
<1>1a. old = new => configured = fresh
  BY <1>1, ConfiguredIdle DEF Follows
<1> HIDE DEF fresh
<1>2. /\ WorldInv(configured) /\ Quiet(configured.kb) /\ configured.kb.mode = new.mode
      /\ configured.seq.active => configured.seq = fresh.seq /\ configured.seq.heldKey = new.key
      /\ \A k \in Keys : configured.kb.held[k] => fresh.kb.held[k] /\ configured.seq.active
  <2>1. WorldInv(configured) /\ Quiet(configured.kb)
    BY <1>1, ConfiguredPreserves, ConfiguredQuiet
  <2>2. configured = OnConfigured(old, new, fresh)
    OBVIOUS
  <2> HIDE DEF configured
  <2> QED
    BY <1>1, <2>1, <2>2, ConfiguredFollows
<1> HIDE DEF configured
<1>3. /\ WorldInv(flushed) /\ Quiet(flushed.kb) /\ Drained(flushed.kb)
      /\ flushed.kb.mode = configured.kb.mode /\ flushed.kb.held = configured.kb.held
      /\ flushed.seq = configured.seq
  <2>1. configured \in WorldState /\ configured.kb \in KeyboardState
    BY <1>2, WorldFields DEF WorldInv
  <2>2. flushed.kb = Flush(configured.kb) /\ flushed.seq = configured.seq
    BY <2>1 DEF WorldState
  <2> QED
    BY <1>2, <2>1, <2>2, FlushPreserves, FlushQuiet, FlushDrains
<1>4. PICK u \in OnTick(new, flushed, late) : v = Elapsed([u EXCEPT !.kb = Flush(@)], late)
  BY DEF Pumped, fresh, configured
<1> HIDE DEF flushed
<1>5. PICK p \in PollDebugKey(new, flushed, late) : u \in Advance(new, p)
  BY <1>4 DEF OnTick
<1>6. /\ WorldInv(p) /\ p.kb = flushed.kb
      /\ flushed.seq.active => SameHold(p, flushed)
      /\ p.seq.active => flushed.seq.active \/ p.seq.heldKey = new.key
  BY <1>3, <1>5, PollPreserves, PollLetsBe
<1>7. /\ WorldInv(u)
      /\ p.seq.nextActionIn > 0 => u = p
      /\ u.kb.mode = p.kb.mode
      /\ u.seq.active => p.seq.active /\ u.seq.heldKey = p.seq.heldKey
      /\ \A k \in Keys : u.kb.held[k] =>
           u = p \/ (u.kb.pending[k] = <<TRUE>> /\ u.seq.nextActionIn >= new.hold.min)
  <2>1. WorldInv(u)
    BY <1>5, <1>6, AdvancePreserves
  <2>2. Drained(p.kb)
    BY <1>3, <1>6
  <2>3. Advanced(new, p, u)
    BY <1>5, <1>6, <2>2, AdvanceHolds
  <2> QED
    BY <2>1, <2>3 DEF Advanced
<1>8. u \in WorldState /\ u.kb \in KeyboardState /\ u.seq \in SequenceState
  BY <1>7, WorldFields DEF WorldInv
<1>9. /\ v.kb = Flush(u.kb) /\ v.seq.active = u.seq.active /\ v.seq.heldKey = u.seq.heldKey
      /\ v.seq.nextActionIn = NotNegative(u.seq.nextActionIn - late)
  <2>1. [u EXCEPT !.kb = Flush(@)].kb = Flush(u.kb) /\ [u EXCEPT !.kb = Flush(@)].seq = u.seq
    BY <1>8 DEF WorldState
  <2> QED
    BY <1>4, <1>8, <2>1 DEF Elapsed, SequenceState
<1>10. Drained(v.kb) /\ v.kb.mode = u.kb.mode /\ v.kb.held = u.kb.held
  BY <1>8, <1>9, FlushDrains
<1>11. Follows(v, new)
  <2>1. v.kb.mode = new.mode
    BY <1>2, <1>3, <1>6, <1>7, <1>10
  <2>2. v.seq.active => v.seq.heldKey = new.key
    BY <1>2, <1>3, <1>6, <1>7, <1>9 DEF SameHold
  <2> QED
    BY <1>10, <2>1, <2>2 DEF Follows
<1>12. ASSUME NEW k \in Keys, v.kb.held[k], u # p
       PROVE  /\ HasPress(v.kb.sent[k])
              /\ u.seq.nextActionIn \in Nat /\ u.seq.nextActionIn >= new.hold.min
  <2>1. u.kb.pending[k] = <<TRUE>> /\ u.seq.nextActionIn >= new.hold.min
    BY <1>7, <1>10, <1>12
  <2>2. v.kb.sent[k] = u.kb.sent[k] \o <<TRUE>>
    BY <1>8, <1>9, <2>1, FlushSends
  <2>3. HasPress(u.kb.sent[k] \o <<TRUE>>)
    <3>1. u.kb.sent[k] \in Seq(BOOLEAN) /\ Len(u.kb.sent[k]) \in Nat
      BY <1>8, BatchTypes, LenProperties
    <3>2. /\ Len(u.kb.sent[k]) + 1 \in DOMAIN (u.kb.sent[k] \o <<TRUE>>)
          /\ (u.kb.sent[k] \o <<TRUE>>)[Len(u.kb.sent[k]) + 1] = TRUE
      BY <3>1
    <3> QED
      BY <3>2 DEF HasPress
  <2>4. u.seq.nextActionIn \in Nat
    BY <1>8 DEF SequenceState
  <2> QED
    BY <2>1, <2>2, <2>3, <2>4
<1>13. ASSUME NEW k \in Keys, v.kb.held[k], u = p
       PROVE  /\ w.kb.held[k] /\ \A j \in Keys : ~HasPress(v.kb.sent[j])
              /\ u.seq.nextActionIn = w.seq.nextActionIn
  <2>1. configured.kb.held[k]
    BY <1>3, <1>6, <1>10, <1>13
  <2>2. /\ w.kb.held[k] /\ configured.seq.active /\ configured.seq = w.seq
    BY <1>1, <1>2, <2>1
  <2>3. u.seq.nextActionIn = w.seq.nextActionIn
    BY <1>3, <1>6, <1>13, <2>2 DEF SameHold
  <2>4. Quiet(v.kb)
    BY <1>3, <1>6, <1>8, <1>9, <1>13, FlushQuiet
  <2> QED
    BY <2>2, <2>3, <2>4 DEF Quiet, Downless, HasPress
<1>14. ASSUME old = new, w.seq.nextActionIn > 0, NEW k \in Keys, w.kb.held[k]
       PROVE  v.kb.held[k]
  <2>1. configured = fresh
    BY <1>1a, <1>14
  <2>2. flushed.seq.active /\ flushed.seq = w.seq /\ flushed.kb.held = w.kb.held
    <3>1. w.seq.active
      BY <1>14 DEF WorldInv, HoldInv
    <3> QED
      BY <1>1, <1>3, <2>1, <3>1
  <2>3. p.seq.nextActionIn > 0
    BY <1>6, <1>14, <2>2 DEF SameHold
  <2>4. u.kb.held = w.kb.held
    BY <1>6, <1>7, <2>2, <2>3
  <2> QED
    BY <1>10, <1>14, <2>4
<1>15. ASSUME NEW k \in Keys, v.kb.held[k]
       PROVE  \/ /\ HasPress(v.kb.sent[k])
                 /\ \E n \in Nat : /\ n >= new.hold.min
                                   /\ v.seq.nextActionIn = NotNegative(n - late)
              \/ /\ w.kb.held[k] /\ \A j \in Keys : ~HasPress(v.kb.sent[j])
                 /\ v.seq.nextActionIn = NotNegative(w.seq.nextActionIn - late)
  BY <1>9, <1>12, <1>13, <1>15
<1> QED
  BY <1>11, <1>14, <1>15 DEF PumpedOn

LEMMA ElapsedHolds ==
  ASSUME NEW d \in Nat, NEW n \in Nat, NEW e \in Nat, NEW shortest \in Int,
         d + n >= shortest, shortest <= MaxAge
  PROVE  AtMost(d + e, MaxAge) + NotNegative(n - e) >= shortest
BY AgeAssumption DEF AtMost, NotNegative

-----------------------------------------------------------------------------
(* The specification. *)

(* The shortest hold the game may see: a pump's lag is taken off it, since the press
   goes out that much after the clock was read. *)
Shortest(c) == c.hold.min - MaxLag

HoldsInv == FrameInv /\ Follows(World, settings)
            /\ LongEnough(World, downFor, Shortest(settings))

(* A step that leaves the settings alone lets go of nothing before its time. *)
LetsGoInTime ==
  running' /\ settings' = settings =>
    \A k \in Keys : kb.held[k] /\ ~kb'.held[k] => downFor >= Shortest(settings)

LEMMA PumpHolds ==
  ASSUME Steady, HoldsInv, Pump(TRUE)
  PROVE  /\ Follows(World, settings)' /\ LongEnough(World, downFor, Shortest(settings))'
         /\ LetsGoInTime
<1>1. PICK new \in Configs, late \in 0 .. MaxLag :
        /\ \E w \in Pumped(settings, new, World, late, TRUE) : Becomes(w)
        /\ settings' = new
        /\ downFor' = IF \E k \in Keys : HasPress(kb'.sent[k]) THEN 0
                      ELSE AtMost(downFor + late, MaxAge)
  BY DEF Pump
<1>2. PICK v \in Pumped(settings, new, World, late, TRUE) : Becomes(v)
  BY <1>1
<1>3. /\ settings \in Settings /\ new \in Settings /\ ~new.cancel /\ late \in Nat
      /\ downFor \in Nat /\ WorldInv(World) /\ World.kb = kb /\ World.seq = seq
      /\ seq.nextActionIn \in Nat
  BY ConfigsAssumption, BoundsAssumption, AgeAssumption
  DEF Steady, NoneCancels, HoldsInv, FrameInv, Inv, TypeOK, World, SequenceState
<1>4. /\ Shortest(new) = Shortest(settings) /\ new.hold.min \in Int
      /\ Shortest(new) <= MaxAge /\ Shortest(new) \in Int
      /\ MaxLag \in Nat /\ late <= MaxLag
  <2>1. /\ new.hold.min = settings.hold.min /\ new.hold.min <= MaxAge /\ new.hold.min \in Int
    BY <1>3, SettingsRanges DEF Steady, HoldsInv, FrameInv, Inv, TypeOK, Ranges
  <2> QED
    BY <2>1, BoundsAssumption, AgeAssumption DEF Shortest
<1>5. kb' = v.kb /\ seq' = v.seq
  BY <1>2 DEF Becomes
<1>6. /\ Follows(v, new)
      /\ \A k \in Keys : v.kb.held[k] =>
           \/ /\ HasPress(v.kb.sent[k])
              /\ \E n \in Nat : /\ n >= new.hold.min
                                /\ v.seq.nextActionIn = NotNegative(n - late)
           \/ /\ kb.held[k] /\ \A j \in Keys : ~HasPress(v.kb.sent[j])
              /\ v.seq.nextActionIn = NotNegative(seq.nextActionIn - late)
      /\ settings = new /\ seq.nextActionIn > 0 =>
           \A k \in Keys : kb.held[k] => v.kb.held[k]
  <2>1. Framed /\ Follows(World, settings)
    BY DEF Steady, HoldsInv
  <2>2. PumpedOn(settings, new, World, late, v)
    BY <1>2, <1>3, <2>1, PumpedHolds
  <2> QED
    BY <1>3, <2>2 DEF PumpedOn
<1>7. Follows(World, settings)'
  BY <1>1, <1>5, <1>6 DEF Follows, World, Drained
<1>8. ASSUME NEW k \in Keys, kb'.held[k]
      PROVE  downFor' + seq'.nextActionIn >= Shortest(new)
  <2>1. CASE /\ HasPress(kb'.sent[k])
             /\ \E n \in Nat : /\ n >= new.hold.min
                               /\ seq'.nextActionIn = NotNegative(n - late)
    <3>1. downFor' = 0
      BY <1>1, <2>1
    <3>2. PICK n \in Nat : n >= new.hold.min /\ seq'.nextActionIn = NotNegative(n - late)
      BY <2>1
    <3>3. NotNegative(n - late) >= new.hold.min - MaxLag /\ NotNegative(n - late) \in Nat
      BY <1>3, <1>4, <3>2 DEF NotNegative
    <3> QED
      BY <1>4, <3>1, <3>2, <3>3 DEF Shortest
  <2>2. CASE /\ kb.held[k] /\ \A j \in Keys : ~HasPress(kb'.sent[j])
             /\ seq'.nextActionIn = NotNegative(seq.nextActionIn - late)
    <3>1. downFor' = AtMost(downFor + late, MaxAge)
      BY <1>1, <2>2
    <3>2. downFor + seq.nextActionIn >= Shortest(new)
      BY <1>4, <2>2 DEF HoldsInv, LongEnough, World
    <3> QED
      BY <1>3, <1>4, <2>2, <3>1, <3>2, ElapsedHolds
  <2> QED
    BY <1>5, <1>6, <1>8, <2>1, <2>2
<1>9. LongEnough(World, downFor, Shortest(settings))'
  BY <1>1, <1>8 DEF LongEnough, World
<1>10. LetsGoInTime
  <2> SUFFICES ASSUME settings' = settings, NEW k \in Keys, kb.held[k], ~kb'.held[k]
               PROVE  downFor >= Shortest(settings)
    BY DEF LetsGoInTime
  <2>1. seq.nextActionIn = 0
    BY <1>1, <1>3, <1>5, <1>6
  <2>2. downFor + seq.nextActionIn >= Shortest(settings)
    BY DEF HoldsInv, LongEnough, World
  <2> QED
    BY <1>3, <1>4, <2>1, <2>2
<1> QED
  BY <1>7, <1>9, <1>10

LEMMA NextHolds ==
  ASSUME Steady, HoldsInv, [Next]_vars
  PROVE  HoldsInv' /\ LetsGoInTime
<1> SUFFICES /\ Follows(World, settings)' /\ LongEnough(World, downFor, Shortest(settings))'
             /\ LetsGoInTime
  BY NextSends DEF HoldsInv, Steady
<1>0. /\ WorldInv(World) /\ World.kb = kb /\ World.seq = seq /\ source = "game"
      /\ kb \in KeyboardState /\ seq \in SequenceState /\ settings \in Settings
      /\ ~settings.cancel /\ downFor \in Nat /\ settings \in Configs
  BY ConfigsAssumption, AgeAssumption
  DEF Steady, NoneCancels, HoldsInv, FrameInv, Inv, TypeOK, World
<1>a. /\ Drained(kb) /\ kb.mode = settings.mode /\ (seq.active => seq.heldKey = settings.key)
      /\ \A k \in Keys : kb.held[k] => downFor + seq.nextActionIn >= Shortest(settings)
  BY <1>0 DEF HoldsInv, Follows, LongEnough
<1>b. SUFFICES
        /\ Drained(kb') /\ kb'.mode = settings'.mode
        /\ seq'.active => seq'.heldKey = settings'.key
        /\ \A k \in Keys : kb'.held[k] => downFor' + seq'.nextActionIn >= Shortest(settings')
        /\ LetsGoInTime
  BY DEF Follows, LongEnough, World, Drained
<1>1. CASE TimerPump
  BY <1>0, <1>1 DEF TimerPump
<1>2. CASE GamePump
  BY <1>2, PumpHolds DEF GamePump, Follows, LongEnough, World, Drained
<1>3. CASE Hurt
  <2>1. PICK w \in OnLocalPlayerHurt(settings, World, 0) : Becomes(w)
    BY <1>3 DEF Hurt
  <2>2. /\ w.kb = kb /\ (seq.active => w = World)
        /\ w.seq.active => seq.active \/ w.seq.heldKey = settings.key
    BY <1>0, <2>1, HurtLetsBe
  <2>3. kb' = kb /\ seq' = w.seq /\ settings' = settings /\ downFor' = downFor
    BY <1>3, <2>1, <2>2 DEF Becomes, Hurt
  <2>4. seq'.active => seq'.heldKey = settings.key
    BY <1>0, <1>a, <2>2, <2>3
  <2>5. \A k \in Keys : kb.held[k] => seq.active
    BY <1>0 DEF WorldInv, HoldInv
  <2>6. \A k \in Keys : kb.held[k] => seq' = seq
    BY <1>0, <2>2, <2>3, <2>5
  <2> QED
    BY <1>a, <2>3, <2>4, <2>6 DEF LetsGoInTime
<1>4. CASE Elapse
  <2>1. /\ kb' = kb /\ settings' = settings /\ downFor' = AtMost(downFor + 1, MaxAge)
        /\ seq'.active = seq.active /\ seq'.heldKey = seq.heldKey
        /\ seq'.nextActionIn = NotNegative(seq.nextActionIn - 1)
    <3>1. /\ kb' = Elapsed(World, 1).kb /\ seq' = Elapsed(World, 1).seq
          /\ settings' = settings /\ downFor' = AtMost(downFor + 1, MaxAge)
      BY <1>4 DEF Elapse, Becomes
    <3>2. kb' = kb /\ settings' = settings /\ downFor' = AtMost(downFor + 1, MaxAge)
      BY <3>1 DEF Elapsed, World
    <3>3. seq' = [seq EXCEPT !.nextActionIn = NotNegative(seq.nextActionIn - 1),
                             !.cooldownIn   = NotNegative(seq.cooldownIn - 1),
                             !.sinceFire    = AtMost(seq.sinceFire + 1, MaxAge)]
      BY <1>0, <3>1 DEF Elapsed, SequenceState
    <3>4. /\ seq'.active = seq.active /\ seq'.heldKey = seq.heldKey
          /\ seq'.nextActionIn = NotNegative(seq.nextActionIn - 1)
      BY <1>0, <3>3 DEF SequenceState
    <3> QED
      BY <3>2, <3>4
  <2>2. /\ seq.nextActionIn \in Nat
        /\ Shortest(settings) \in Int /\ Shortest(settings) <= MaxAge
    <3>1. /\ seq.nextActionIn \in Nat /\ settings.hold.min \in Int
          /\ settings.hold.min <= MaxAge
      BY <1>0, SettingsRanges DEF SequenceState, Ranges, Steady
    <3> QED
      BY <3>1, BoundsAssumption, AgeAssumption DEF Shortest
  <2>3. ASSUME NEW k \in Keys, kb.held[k]
        PROVE  downFor' + seq'.nextActionIn >= Shortest(settings)
    BY <1>0, <1>a, <2>1, <2>2, <2>3, ElapsedHolds
  <2> QED
    BY <1>a, <2>1, <2>3 DEF LetsGoInTime
<1>5. CASE OnCreate \/ PlayerKey \/ UNCHANGED vars
  <2>1. /\ kb'.held = kb.held /\ kb'.pending = kb.pending /\ kb'.mode = kb.mode
        /\ settings' = settings /\ seq' = seq /\ downFor' = downFor
    BY <1>0, <1>5 DEF OnCreate, Captured, PlayerKey, Touched, vars, KeyboardState
  <2> QED
    BY <1>a, <2>1 DEF LetsGoInTime, Drained
<1>6. CASE Shutdown
  <2>1. /\ kb' = ReleaseAll(NewPump(kb)) /\ ~running' /\ settings' = settings /\ seq' = seq
    BY <1>6 DEF Shutdown
  <2>2. NewPump(kb) \in KeyboardState /\ NewPump(kb).mode = kb.mode
    BY <1>0, NewPumpPreserves DEF NewPump, KeyboardState
  <2>3. kb'.held = AllUp
    BY <2>1, <2>2, ReleaseAllHeld
  <2>4. Drained(kb') /\ kb'.mode = kb.mode
    <3> DEFINE b == NewPump(kb)
               r == [b EXCEPT !.held = AllUp,
                              !.pending = [k \in Keys |-> IF b.held[k]
                                                          THEN Append(b.pending[k], FALSE)
                                                          ELSE b.pending[k]]]
    <3>1. r \in KeyboardState /\ r.mode = b.mode
      <4>1. [k \in Keys |-> IF b.held[k] THEN Append(b.pending[k], FALSE) ELSE b.pending[k]]
              \in [Keys -> Seq(BOOLEAN)]
        BY <2>2, AppendProperties DEF KeyboardState
      <4>2. AllUp \in [Keys -> BOOLEAN]
        BY DEF AllUp
      <4> HIDE DEF b
      <4> QED
        BY <2>2, <4>1, <4>2 DEF KeyboardState, b
    <3>2. kb' = Flush(r)
      BY <2>1 DEF ReleaseAll
    <3> HIDE DEF r, b
    <3> QED
      BY <2>2, <3>1, <3>2, FlushDrains DEF Steady, b
  <2> QED
    BY <1>a, <2>1, <2>3, <2>4 DEF LetsGoInTime, AllUp
<1> QED
  BY <1>1, <1>2, <1>3, <1>4, <1>5, <1>6 DEF Next

(* hold_ms, "how long the key stays held": where the game thread ticks, no hit may cut in
   and every config asks for the same shortest hold, the game never sees a key come up
   sooner than that less what one pump takes, however late the pumps come and whatever
   else is reloaded. *)
THEOREM HoldsAreHonoured ==
  ASSUME Steady
  PROVE  Spec => HoldHonoured
<1> DEFINE Honoured == running' /\ settings' = settings => \A k \in ModKeys :
                         GameSees(kb, k) /\ ~GameSees(kb', k) => downFor + MaxLag >= settings.hold.min
<1>1. Init => HoldsInv
  <2> SUFFICES ASSUME Init PROVE HoldsInv
    OBVIOUS
  <2>1. FrameInv
    <3>1. kb.sent = NoBatches /\ kb.pending = NoBatches
      BY DEF Init, InitialKeyboard
    <3> QED
      BY <3>1, InitInv DEF FrameInv, Init, Steady, Framed, Sent, Waiting, NoBatches, Downless,
                           Ordered
  <2>2. /\ Drained(kb) /\ kb.mode = settings.mode /\ kb.held = AllUp /\ ~seq.active
    BY DEF Init, InitialKeyboard, InitialSequence, Drained, NoBatches
  <2> QED
    BY <2>1, <2>2 DEF HoldsInv, Follows, LongEnough, World, AllUp
<1>2. HoldsInv /\ [Next]_vars => HoldsInv'
  BY NextHolds
<1>3. HoldsInv /\ HoldsInv' /\ [Next]_vars => Honoured
  <2> SUFFICES ASSUME HoldsInv, HoldsInv', [Next]_vars, running', settings' = settings,
                      NEW k \in ModKeys, GameSees(kb, k), ~GameSees(kb', k)
               PROVE  downFor + MaxLag >= settings.hold.min
    OBVIOUS
  <2>1. kb \in KeyboardState /\ AgreeInv(kb) /\ Drained(kb)
    BY DEF HoldsInv, FrameInv, Inv, TypeOK, WorldInv, World, Follows
  <2>2. kb' \in KeyboardState /\ AgreeInv(kb') /\ Drained(kb')
    BY DEF HoldsInv, FrameInv, Inv, TypeOK, WorldInv, World, Follows, AgreeInv, Tracks, Agrees,
           Drained
  <2>3. kb.held[k]
    BY <2>1, SeenIsHeld DEF Steady
  <2>4. ~kb'.held[k]
    BY <2>2, SeenIsHeld DEF Steady
  <2>5. LetsGoInTime
    BY NextHolds
  <2>6. downFor >= Shortest(settings)
    BY <2>3, <2>4, <2>5 DEF LetsGoInTime, ModKeys
  <2>7. settings \in Settings /\ MaxLag \in Nat /\ downFor \in Nat
    BY ConfigsAssumption, BoundsAssumption, AgeAssumption DEF HoldsInv, FrameInv, Inv, TypeOK
  <2>8. settings.hold.min \in Int
    BY <2>7, SettingsRanges DEF Ranges
  <2> QED
    BY <2>6, <2>7, <2>8 DEF Shortest
<1> QED
  BY <1>1, <1>2, <1>3, PTL DEF Spec, HoldHonoured

-----------------------------------------------------------------------------
(***************************************************************************)
(* StatusReport: status.cpp only watches, from the entry points on.        *)
(***************************************************************************)

LEMMA ReportSteps == [ReportNext]_reportVars => [Next]_vars
<1> SUFFICES ASSUME [ReportNext]_reportVars PROVE [Next]_vars
  OBVIOUS
<1>1. CASE Preinit \/ InitEntered \/ Started \/ UNCHANGED reportVars
  BY <1>1 DEF Preinit, InitEntered, MarkLoaded, Started, reportVars
<1>2. CASE ReportTimerPump \/ ReportGamePump \/ CountedHurt
  BY <1>2 DEF ReportTimerPump, ReportGamePump, CountedHurt, Next
<1>3. CASE ReportedOnCreate \/ ReportedPlayerKey \/ ReportedShutdown \/ ReportElapse
  BY <1>3 DEF ReportedOnCreate, ReportedPlayerKey, ReportedShutdown, ReportElapse, Next
<1> QED
  BY <1>1, <1>2, <1>3 DEF ReportNext

(* Every step under the report is a step of Heartbeat or leaves Heartbeat's state alone. *)
LEMMA TheReportOnlyWatches == ReportSpec => Spec
<1>1. ReportInit => Init
  BY DEF ReportInit
<1> QED
  BY <1>1, ReportSteps, PTL DEF ReportSpec, Spec

(* So the activity may come and go under the report: no key of the mod is left down by
   a sequence that let go, nor by a shutdown that can still reach the game. *)
THEOREM ReportedRunsLetGo ==
  ASSUME WholeActivities
  PROVE  ReportSpec => []NoStuckKey /\ ShutdownLetsGo
BY TheReportOnlyWatches, NoKeyIsLeftDown, ShutdownLeavesKeysUp, PTL
=============================================================================
