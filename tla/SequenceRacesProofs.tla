------------------------ MODULE SequenceRacesProofs -------------------------
(***************************************************************************)
(* The two threads of SequenceRaces, for any keys, any number of presses   *)
(* and any crossing of hits, synthetic hits, ticks and reloads.  Where the *)
(* file says what it said, the argument is that only the tick ends a       *)
(* sequence for good, and only once its own release is out, while a hit    *)
(* that takes a sequence down always starts the next one; and that whoever *)
(* writes pressesLeft_ last has looked at it, or is about to.              *)
(***************************************************************************)
EXTENDS SequenceRaces, TLAPS

Typed ==
  /\ world \in Worlds
  /\ enabled \in BOOLEAN /\ key \in Keys
  /\ active \in BOOLEAN /\ holding \in BOOLEAN /\ heldKey \in Keys
  /\ presses \in 0..MaxPresses /\ left \in 0..MaxPresses
  /\ due \in BOOLEAN /\ cooling \in BOOLEAN
  /\ held \in [Keys -> BOOLEAN]
  /\ at = [u \in Threads |-> at[u]]
  /\ arg \in [Threads -> Keys] /\ then \in [Threads -> {"begin", "running", "poll"}]
  /\ was \in BOOLEAN

(* With the file left alone the module keeps its one key and stays on; a reload
   shows it switched off for a moment, and is over it before anyone asks; and
   what takes a sequence down starts one. *)
Settled ==
  /\ key = Space /\ heldKey = Space
  /\ \A t \in Threads : arg[t] = Space /\ then[t] = "begin"
  /\ at["timer"] # "bind enabled" => enabled

(* The steps of a hit that has yet to draw, or to look at what it drew. *)
Drawing == {"begin", "draw", "drawn", "clamp"}

(* A sequence with no press left is about to be given one, or to be ended. *)
PressLeft ==
  \/ active = FALSE
  \/ presses # 0
  \/ at["game"] \in Drawing
  \/ at["timer"] \in Drawing \cup {"counted", "over"}

(* The steps of a hit that took a sequence down and will start the next. *)
Restarting == {"dropped", "no presses", "begin"}

SomeSequence == active \/ at["game"] \in Restarting \/ at["timer"] \in Restarting

(* Who keeps the sequence that will let the key go. *)
Kept ==
  /\ \A k \in Keys : held[k] => k = Space
  /\ held[Space] => SomeSequence
  /\ at["timer"] \in {"active", "due", "press", "pressing"} => SomeSequence
  /\ at["timer"] \in {"released", "count", "count down", "counted", "over"} => ~held[Space]

Inv == Settled /\ PressLeft /\ Kept

-----------------------------------------------------------------------------
(* Types. *)

LEMMA InitTyped == Init => Typed
<1> SUFFICES ASSUME Init PROVE Typed
  OBVIOUS
<1>1. held \in [Keys -> BOOLEAN] /\ at = [u \in Threads |-> at[u]]
  BY DEF Init, Threads
<1>2. arg \in [Threads -> Keys] /\ then \in [Threads -> {"begin", "running", "poll"}]
  BY KeysAssumption DEF Init
<1>3. presses \in 0..MaxPresses /\ left \in 0..MaxPresses
  BY PressesAssumption DEF Init
<1> QED
  BY <1>1, <1>2, <1>3, KeysAssumption DEF Init, Typed

LEMMA Going ==
  ASSUME Typed, NEW t \in Threads, NEW from, NEW to, Goes(t, from, to)
  PROVE  at' = [u \in Threads |-> at'[u]]
BY DEF Typed, Goes

LEMMA AsksTyped ==
  ASSUME Typed, NEW t \in Threads, NEW from, NEW to, Asks(t, from, to)
  PROVE  Typed'
BY Going DEF Typed, Asks, settings, sequence, clock, own

LEMMA SetsTyped ==
  ASSUME Typed, NEW t \in Threads, NEW from, NEW to, Goes(t, from, to),
         \/ \E b \in BOOLEAN : SetActive(b) \/ SetHolding(b) \/ Hold(t, b) \/ SetEnabled(b)
         \/ \E n \in 0..MaxPresses : SetPresses(n)
         \/ \E k \in Keys : SetKey(k) \/ Take(t, k)
         \/ SetDue \/ SetCooling
  PROVE  Typed'
<1>1. at' = [u \in Threads |-> at'[u]]
  BY Going
<1> USE DEF Typed, settings, sequence, clock, own
<1>2. CASE \E b \in BOOLEAN : SetActive(b) \/ SetHolding(b) \/ Hold(t, b) \/ SetEnabled(b)
  BY <1>1, <1>2 DEF SetActive, SetHolding, Hold, SetEnabled
<1>3. CASE \E n \in 0..MaxPresses : SetPresses(n)
  BY <1>1, <1>3 DEF SetPresses
<1>4. CASE \E k \in Keys : SetKey(k) \/ Take(t, k)
  BY <1>1, <1>4 DEF SetKey, Take
<1>5. CASE SetDue \/ SetCooling
  BY <1>1, <1>5 DEF SetDue, SetCooling
<1> QED
  BY <1>2, <1>3, <1>4, <1>5

LEMMA HurtTyped ==
  ASSUME Typed, NEW t \in Threads, Hurt(t)
  PROVE  Typed'
<1>2. CASE Asked(t) \/ Free(t) \/ RollPasses(t) \/ Drawn(t)
  BY <1>2, AsksTyped DEF Asked, Free, RollPasses, Drawn
<1>3. CASE RollFails(t) \/ Delay(t)
  BY <1>3, SetsTyped DEF RollFails, Delay
<1>4. CASE Begin(t) \/ StartUp(t)
  BY <1>4, SetsTyped DEF Begin, StartUp
<1>5. CASE Draw(t)
  BY <1>5, SetsTyped DEF Draw
<1>6. CASE Clamp(t)
  <2>1. 1 \in 0..MaxPresses
    BY PressesAssumption
  <2> QED
    BY <1>6, <2>1, SetsTyped DEF Clamp
<1>7. CASE ReadKey(t)
  <2>1. key \in Keys
    BY DEF Typed
  <2> QED
    BY <1>7, <2>1, SetsTyped DEF ReadKey
<1>8. CASE KeepKey(t)
  <2>1. at' = [u \in Threads |-> at'[u]]
    BY <1>8, Going DEF KeepKey
  <2> QED
    BY <1>8, <2>1 DEF KeepKey, Typed, settings, clock, own
<1> QED
  BY <1>2, <1>3, <1>4, <1>5, <1>6, <1>7, <1>8 DEF Hurt

LEMMA AbortTyped ==
  ASSUME Typed, NEW t \in Threads, Abort(t)
  PROVE  Typed'
<1>1. CASE AbortActive(t) \/ AbortHolding(t) \/ LetGo(t)
  BY <1>1, AsksTyped DEF AbortActive, AbortHolding, LetGo
<1>2. CASE ReleaseAborted(t) \/ Drop(t) \/ Dropped(t)
  BY <1>2, SetsTyped DEF ReleaseAborted, Drop, Dropped
<1>3. CASE Which(t)
  <2>1. heldKey \in Keys
    BY DEF Typed
  <2> QED
    BY <1>3, <2>1, SetsTyped DEF Which
<1>4. CASE NothingToAbort(t) \/ NoPresses(t)
  <2>1. at' = [u \in Threads |-> at'[u]]
    BY <1>4 DEF NothingToAbort, NoPresses, Returns, Goes, Typed
  <2>2. then' \in [Threads -> {"begin", "running", "poll"}]
    BY <1>4 DEF NothingToAbort, NoPresses, Returns, Typed
  <2>3. presses' = presses \/ presses' = 0
    BY <1>4 DEF NothingToAbort, NoPresses
  <2>4. UNCHANGED <<settings, active, holding, heldKey, clock, held, arg, left, was>>
    BY <1>4 DEF NothingToAbort, NoPresses, Returns
  <2> QED
    BY <2>1, <2>2, <2>3, <2>4, PressesAssumption DEF Typed, settings, clock
<1> QED
  BY <1>1, <1>2, <1>3, <1>4 DEF Abort

LEMMA AbortsOrTyped ==
  ASSUME Typed, NEW from, NEW why \in BOOLEAN, NEW next \in {"running", "poll"},
         AbortsOr(from, why, next)
  PROVE  Typed'
<1>1. at' = [u \in Threads |-> at'[u]]
  BY DEF AbortsOr, Goes, Typed
<1>2. then' \in [Threads -> {"begin", "running", "poll"}]
  BY DEF AbortsOr, Typed
<1> QED
  BY <1>1, <1>2 DEF AbortsOr, Typed, settings, sequence, clock

LEMMA TickingTyped ==
  ASSUME Typed, Ticking \/ Rebind
  PROVE  Typed'
<1>0. "timer" \in Threads
  BY DEF Threads
<1>1. CASE DefaultEnabled
  BY <1>0, <1>1, SetsTyped DEF DefaultEnabled
<1>2. CASE BindEnabled
  <2>1. world.enabled \subseteq BOOLEAN
    BY WorldsAssumption DEF Typed
  <2> QED
    BY <1>0, <1>2, <2>1, SetsTyped DEF BindEnabled
<1>3. CASE DefaultKey
  BY <1>0, <1>3, KeysAssumption, SetsTyped DEF DefaultKey
<1>4. CASE BindKey
  <2>1. world.keys \subseteq Keys
    BY WorldsAssumption DEF Typed
  <2> QED
    BY <1>0, <1>4, <2>1, SetsTyped DEF BindKey
<1>5. CASE SwitchedOff
  <2>1. (was /\ ~enabled) \in BOOLEAN
    OBVIOUS
  <2> QED
    BY <1>5, <2>1, AbortsOrTyped DEF SwitchedOff
<1>6. CASE SameKey
  <2>1. (heldKey # key) \in BOOLEAN
    OBVIOUS
  <2> QED
    BY <1>6, <2>1, AbortsOrTyped DEF SameKey
<1>7. CASE StillActive \/ NothingNew \/ Poll \/ SyntheticHit \/ Test \/ TestDue \/ TestHolding \/ Counted
  BY <1>0, <1>7, AsksTyped
     DEF StillActive, NothingNew, Poll, SyntheticHit, Test, TestDue, TestHolding, Counted
<1>8. CASE ReadPressed \/ ReadReleased
  <2>1. heldKey \in Keys
    BY DEF Typed
  <2> QED
    BY <1>0, <1>8, <2>1, SetsTyped DEF ReadPressed, ReadReleased
<1>9. CASE Press \/ Release \/ Pressed \/ Released \/ Over
  BY <1>0, <1>9, SetsTyped DEF Press, Release, Pressed, Released, Over
<1>10. CASE ReadPresses
  <2>1. at' = [u \in Threads |-> at'[u]]
    BY <1>0, <1>10, Going DEF ReadPresses
  <2> QED
    BY <1>10, <2>1 DEF ReadPresses, Typed, settings, sequence, clock
<1>11. CASE CountDown
  <2> DEFINE n == IF left = 0 THEN 0 ELSE left - 1
  <2>1. n \in 0..MaxPresses
    BY PressesAssumption DEF Typed
  <2>2. SetPresses(n) /\ Goes("timer", "count down", "counted")
    BY <1>11 DEF CountDown
  <2> HIDE DEF n
  <2> QED
    BY <1>0, <2>1, <2>2, SetsTyped
<1>12. CASE Cool \/ Later
  BY <1>0, <1>12, SetsTyped DEF Cool, Later
<1>13. CASE Rebind
  <2>1. at' = [u \in Threads |-> at'[u]]
    BY <1>0, <1>13, Going DEF Rebind
  <2> QED
    BY <1>13, <2>1 DEF Rebind, Typed, settings, sequence, clock
<1> QED
  BY <1>1, <1>2, <1>3, <1>4, <1>5, <1>6, <1>7, <1>8, <1>9, <1>10, <1>11, <1>12, <1>13 DEF Ticking

LEMMA NextTyped ==
  ASSUME Typed, [Next]_vars
  PROVE  Typed'
<1>0. "game" \in Threads /\ "timer" \in Threads
  BY DEF Threads
<1>1. CASE Hit
  BY <1>0, <1>1, AsksTyped DEF Hit
<1>2. CASE FallsDue \/ Cools \/ UNCHANGED vars
  BY <1>2 DEF FallsDue, Cools, Typed, vars, settings, sequence, clock, own
<1> QED
  BY <1>0, <1>1, <1>2, HurtTyped, AbortTyped, TickingTyped DEF Next, Game, Timer

-----------------------------------------------------------------------------
(* The file left alone. *)

LEMMA InitInv == Init => Inv
<1> SUFFICES ASSUME Init PROVE Inv
  OBVIOUS
<1>1. Settled
  BY DEF Init, Settled, Threads
<1>2. PressLeft
  BY DEF Init, PressLeft
<1>3. Kept
  BY KeysAssumption DEF Init, Kept, Threads
<1> QED
  BY <1>1, <1>2, <1>3 DEF Inv

(* A step of one thread leaves the other one where it is. *)
LEMMA OneGoes ==
  ASSUME Typed, NEW t \in Threads, NEW from, NEW to, Goes(t, from, to)
  PROVE  /\ at[t] = from /\ at'[t] = to
         /\ t = "game" => at'["timer"] = at["timer"]
         /\ t = "timer" => at'["game"] = at["game"]
         /\ t = "game" \/ t = "timer"
BY DEF Typed, Goes, Threads

(* What each part of the invariant asks of a step that writes nothing it speaks
   of: the thread must leave no duty undone, and take none it has no right to. *)
LEMMA SettledStays ==
  ASSUME Typed, Settled, NEW t \in Threads, NEW from, NEW to, Goes(t, from, to),
         from # "bind enabled", UNCHANGED <<enabled, key, heldKey, arg, then>>
  PROVE  Settled'
<1>1. at'["timer"] # "bind enabled" => enabled
  BY OneGoes DEF Settled
<1> QED
  BY <1>1 DEF Settled

LEMMA PressLeftStays ==
  ASSUME Typed, PressLeft, NEW t \in Threads, NEW from, NEW to, Goes(t, from, to),
         from \in Drawing \cup {"counted", "over"} => presses # 0 \/ to \in {"drawn", "clamp"},
         UNCHANGED <<active, presses>>
  PROVE  PressLeft'
BY OneGoes DEF PressLeft, Drawing

LEMMA KeptStays ==
  ASSUME Typed, Kept, NEW t \in Threads, NEW from, NEW to, Goes(t, from, to),
         from \in Restarting => to \in Restarting,
         to \in {"released", "count", "count down", "counted", "over"} =>
           from \in {"released", "count", "count down", "counted"},
         t = "timer" /\ to \in {"active", "due", "press", "pressing"} =>
           SomeSequence \/ from \in {"active", "due", "press"},
         UNCHANGED <<active, held>>
  PROVE  Kept'
<1>1. SomeSequence => SomeSequence'
  BY OneGoes DEF SomeSequence
<1>2. at'["timer"] \in {"active", "due", "press", "pressing"} => SomeSequence
  BY OneGoes DEF Kept
<1>3. at'["timer"] \in {"released", "count", "count down", "counted", "over"} => ~held[Space]
  BY OneGoes DEF Kept
<1> QED
  BY <1>1, <1>2, <1>3 DEF Kept

Same == UNCHANGED <<world, enabled, key, active, heldKey, presses, held, arg, then>>

LEMMA SameInv ==
  ASSUME Typed, Inv, NEW t \in Threads, NEW from, NEW to, Goes(t, from, to), Same,
         from \notin Drawing \cup Restarting \cup {"counted", "over", "bind enabled"},
         to \in {"released", "count", "count down", "counted", "over"} =>
           from \in {"released", "count", "count down", "counted"},
         t = "timer" /\ to \in {"active", "due", "press", "pressing"} =>
           SomeSequence \/ from \in {"active", "due", "press"}
  PROVE  Inv'
<1>1. Settled'
  BY SettledStays DEF Same, Inv
<1>2. PressLeft'
  BY PressLeftStays DEF Same, Inv
<1>3. Kept'
  BY KeptStays DEF Same, Inv
<1> QED
  BY <1>1, <1>2, <1>3 DEF Inv

LEMMA AsksInv ==
  ASSUME Typed, Inv, NEW t \in Threads, NEW from, NEW to, Asks(t, from, to),
         from \notin Drawing \cup Restarting \cup {"counted", "over", "bind enabled"},
         to \notin {"released", "count", "count down", "counted", "over"},
         t = "timer" /\ to \in {"active", "due", "press", "pressing"} =>
           SomeSequence \/ from \in {"active", "due", "press"}
  PROVE  Inv'
BY SameInv DEF Asks, Same, settings, sequence, own

LEMMA SetsSame ==
  ASSUME Typed, Inv, NEW t \in Threads,
         SetDue \/ SetCooling \/ Take(t, Space) \/ SetKey(Space) \/ \E b : SetHolding(b)
  PROVE  Same
<1>1. CASE SetDue \/ SetCooling
  BY <1>1 DEF SetDue, SetCooling, Same, settings, sequence, own
<1>2. CASE Take(t, Space)
  BY <1>2 DEF Take, Same, settings, sequence, Inv, Settled, Typed
<1>3. CASE SetKey(Space)
  BY <1>3 DEF SetKey, Same, sequence, own, Inv, Settled
<1>4. CASE \E b : SetHolding(b)
  BY <1>4 DEF SetHolding, Same, settings, own
<1> QED
  BY <1>1, <1>2, <1>3, <1>4

LEMMA HurtInv ==
  ASSUME Typed, Inv, NEW t \in Threads, Hurt(t)
  PROVE  Inv'
<1> USE DEF Drawing, Restarting
<1>1. CASE Asked(t) \/ Free(t)
  BY <1>1, AsksInv DEF Asked, Free, Done
<1>2. CASE RollPasses(t)
  BY <1>2, AsksInv DEF RollPasses
<1>3. CASE Drawn(t)
  <2> DEFINE to == IF presses < 1 THEN "clamp" ELSE "key"
  <2>1. presses # 0 \/ to = "clamp"
    BY DEF Typed
  <2>2. to \in {"clamp", "key"}
    OBVIOUS
  <2>3. Goes(t, "drawn", to) /\ Same
    BY <1>3 DEF Drawn, Asks, Same, settings, sequence, own
  <2> HIDE DEF to
  <2>4. Settled'
    BY <2>3, SettledStays DEF Inv, Same
  <2>5. PressLeft'
    BY <2>1, <2>3, PressLeftStays DEF Inv, Same
  <2>6. Kept'
    BY <2>2, <2>3, KeptStays DEF Inv, Same
  <2> QED
    BY <2>4, <2>5, <2>6 DEF Inv
<1>4. CASE RollFails(t) \/ Delay(t) \/ StartUp(t)
  BY <1>4, SetsSame, SameInv DEF RollFails, Delay, StartUp, Done
<1>5. CASE ReadKey(t)
  <2>1. Goes(t, "key", "keep") /\ Take(t, Space)
    BY <1>5 DEF ReadKey, Inv, Settled
  <2> QED
    BY <2>1, SetsSame, SameInv
<1>6. CASE KeepKey(t)
  <2>1. Same
    BY <1>6 DEF KeepKey, Same, settings, own, Inv, Settled
  <2> QED
    BY <1>6, <2>1, SameInv DEF KeepKey
<1>7. CASE Begin(t)
  <2>1. Goes(t, "begin", "draw") /\ active' = TRUE
        /\ UNCHANGED <<world, enabled, key, heldKey, presses, held, arg, then>>
    BY <1>7 DEF Begin, SetActive, settings, own
  <2>2. Settled'
    BY <2>1, SettledStays DEF Inv
  <2>3. PressLeft'
    BY <2>1, OneGoes DEF PressLeft, Drawing
  <2>4. Kept'
    BY <2>1, OneGoes DEF Inv, Kept, SomeSequence
  <2> QED
    BY <2>2, <2>3, <2>4 DEF Inv
<1>8. CASE Draw(t) \/ Clamp(t)
  <2>1. UNCHANGED <<world, enabled, key, active, heldKey, held, arg, then>>
    BY <1>8 DEF Draw, Clamp, SetPresses, settings, own
  <2>2. \/ Goes(t, "draw", "drawn")
        \/ Goes(t, "clamp", "key") /\ presses' = 1
    BY <1>8 DEF Draw, Clamp, SetPresses
  <2>3. Settled'
    BY <2>1, <2>2, SettledStays DEF Inv
  <2>4. PressLeft'
    BY <2>2, OneGoes DEF PressLeft
  <2>5. Kept'
    BY <2>1, <2>2, KeptStays DEF Inv
  <2> QED
    BY <2>3, <2>4, <2>5 DEF Inv
<1> QED
  BY <1>1, <1>2, <1>3, <1>4, <1>5, <1>6, <1>7, <1>8 DEF Hurt

LEMMA AbortInv ==
  ASSUME Typed, Inv, NEW t \in Threads, Abort(t)
  PROVE  Inv'
<1> USE DEF Drawing, Restarting
<1>1. CASE AbortActive(t) \/ AbortHolding(t) \/ LetGo(t)
  BY <1>1, AsksInv DEF AbortActive, AbortHolding, LetGo
<1>2. CASE NothingToAbort(t)
  <2>1. Goes(t, "idle", "begin")
    BY <1>2 DEF NothingToAbort, Returns, Inv, Settled
  <2>2. Same
    BY <1>2 DEF NothingToAbort, Returns, Same, settings, Inv, Settled, Typed
  <2> QED
    BY <2>1, <2>2, SameInv
<1>3. CASE Which(t)
  <2>1. Goes(t, "which", "up it goes") /\ Take(t, Space)
    BY <1>3 DEF Which, Inv, Settled
  <2> QED
    BY <2>1, SetsSame, SameInv
<1>4. CASE ReleaseAborted(t)
  <2>1. /\ Goes(t, "up it goes", "drop")
        /\ UNCHANGED <<world, enabled, key, active, heldKey, presses, arg, then>>
        /\ held' = [held EXCEPT ![Space] = FALSE]
    BY <1>4 DEF ReleaseAborted, Hold, settings, sequence, own, Inv, Settled
  <2>2. Settled'
    BY <2>1, SettledStays DEF Inv
  <2>3. PressLeft'
    BY <2>1, PressLeftStays DEF Inv
  <2>4. ~held'[Space] /\ \A k \in Keys : held'[k] => k = Space
    BY <2>1, KeysAssumption DEF Inv, Kept, Typed
  <2>5. /\ at[t] = "up it goes" /\ at'[t] = "drop"
        /\ t = "game" => at'["timer"] = at["timer"]
        /\ t = "timer" => at'["game"] = at["game"]
        /\ t = "game" \/ t = "timer"
    BY <2>1, OneGoes
  <2>6. SomeSequence => SomeSequence'
    BY <2>1, <2>5 DEF SomeSequence
  <2>7. Kept'
    BY <2>4, <2>5, <2>6 DEF Inv, Kept
  <2> QED
    BY <2>2, <2>3, <2>7 DEF Inv
<1>5. CASE Drop(t)
  <2>1. Goes(t, "drop", "dropped") /\ active' = FALSE
        /\ UNCHANGED <<world, enabled, key, heldKey, presses, held, arg, then>>
    BY <1>5 DEF Drop, SetActive, settings, own
  <2>2. Settled'
    BY <2>1, SettledStays DEF Inv
  <2>3. PressLeft'
    BY <2>1 DEF PressLeft
  <2>4. Kept'
    BY <2>1, OneGoes DEF Inv, Kept, SomeSequence
  <2> QED
    BY <2>2, <2>3, <2>4 DEF Inv
<1>6. CASE Dropped(t)
  <2>1. Goes(t, "dropped", "no presses") /\ Same
    BY <1>6, SetsSame DEF Dropped
  <2>2. Settled'
    BY <2>1, SettledStays DEF Inv, Same
  <2>3. PressLeft'
    BY <2>1, PressLeftStays DEF Inv, Same
  <2>4. Kept'
    BY <2>1, KeptStays DEF Inv, Same
  <2> QED
    BY <2>2, <2>3, <2>4 DEF Inv
<1>7. CASE NoPresses(t)
  <2>1. Goes(t, "no presses", "begin")
    BY <1>7 DEF NoPresses, Returns, Inv, Settled
  <2>2. UNCHANGED <<world, enabled, key, active, heldKey, held, arg, then>>
    BY <1>7 DEF NoPresses, Returns, settings, Inv, Settled, Typed
  <2>3. Settled'
    BY <2>1, <2>2, SettledStays DEF Inv
  <2>4. PressLeft'
    BY <2>1, OneGoes DEF PressLeft, Drawing
  <2>5. Kept'
    BY <2>1, <2>2, KeptStays DEF Inv
  <2> QED
    BY <2>3, <2>4, <2>5 DEF Inv
<1> QED
  BY <1>1, <1>2, <1>3, <1>4, <1>5, <1>6, <1>7 DEF Abort

(* What the reload and onConfigured() do with the file left alone. *)
LEMMA RebindInv ==
  ASSUME Typed, Inv, Unedited,
         \/ Rebind \/ DefaultEnabled \/ BindEnabled \/ DefaultKey \/ BindKey
         \/ SwitchedOff \/ StillActive \/ SameKey
  PROVE  Inv'
<1> USE DEF Drawing, Restarting
<1>0. "timer" \in Threads
  BY DEF Threads
<1>1. CASE Rebind
  <2>1. Goes("timer", "sleep", "default enabled") /\ Same
    BY <1>1 DEF Rebind, Same, settings, sequence
  <2> QED
    BY <1>0, <2>1, SameInv
<1>2. CASE DefaultEnabled
  <2>1. Goes("timer", "default enabled", "bind enabled")
        /\ UNCHANGED <<key, heldKey, arg, then, active, presses, held>>
    BY <1>2 DEF DefaultEnabled, SetEnabled, sequence, own
  <2>2. Settled'
    BY <1>0, <2>1, OneGoes DEF Inv, Settled
  <2>3. PressLeft'
    BY <1>0, <2>1, PressLeftStays DEF Inv
  <2>4. Kept'
    BY <1>0, <2>1, KeptStays DEF Inv
  <2> QED
    BY <2>2, <2>3, <2>4 DEF Inv
<1>3. CASE BindEnabled
  <2>1. Goes("timer", "bind enabled", "default key") /\ enabled' = TRUE
        /\ UNCHANGED <<key, heldKey, arg, then, active, presses, held>>
    BY <1>3 DEF BindEnabled, SetEnabled, sequence, own, Unedited
  <2>2. Settled'
    BY <2>1 DEF Inv, Settled
  <2>3. PressLeft'
    BY <1>0, <2>1, PressLeftStays DEF Inv
  <2>4. Kept'
    BY <1>0, <2>1, KeptStays DEF Inv
  <2> QED
    BY <2>2, <2>3, <2>4 DEF Inv
<1>4. CASE DefaultKey
  BY <1>0, <1>4, SetsSame, SameInv DEF DefaultKey
<1>5. CASE BindKey
  <2>1. Goes("timer", "bind key", "configured") /\ SetKey(Space)
    BY <1>5 DEF BindKey, Unedited
  <2> QED
    BY <1>0, <2>1, SetsSame, SameInv
<1>6. CASE SwitchedOff
  <2>1. Goes("timer", "configured", "running") /\ Same
    <3>1. at["timer"] = "configured"
      BY <1>6 DEF SwitchedOff, AbortsOr, Goes
    <3>2. enabled
      BY <3>1 DEF Inv, Settled
    <3> QED
      BY <1>6, <3>2 DEF SwitchedOff, AbortsOr, Same, settings, sequence, Typed
  <2> QED
    BY <1>0, <2>1, SameInv
<1>7. CASE StillActive
  BY <1>0, <1>7, AsksInv DEF StillActive
<1>8. CASE SameKey
  <2>1. Goes("timer", "same key", "poll") /\ Same
    BY <1>8 DEF SameKey, AbortsOr, Same, settings, sequence, Typed, Inv, Settled
  <2> QED
    BY <1>0, <2>1, SameInv
<1> QED
  BY <1>1, <1>2, <1>3, <1>4, <1>5, <1>6, <1>7, <1>8

LEMMA TickInv ==
  ASSUME Typed, Inv,
         \/ NothingNew \/ Poll \/ SyntheticHit \/ Test \/ TestDue \/ TestHolding
         \/ ReadPressed \/ Press \/ Pressed \/ ReadReleased \/ Release \/ Released
         \/ ReadPresses \/ CountDown \/ Counted \/ Over \/ Cool \/ Later
  PROVE  Inv'
<1> USE DEF Drawing, Restarting
<1>0. "timer" \in Threads
  BY DEF Threads
<1>1. CASE NothingNew \/ Poll \/ SyntheticHit
  BY <1>0, <1>1, AsksInv DEF NothingNew, Poll, SyntheticHit
<1>2. CASE Test
  BY <1>0, <1>2, AsksInv DEF Test, SomeSequence
<1>3. CASE TestDue \/ TestHolding
  BY <1>0, <1>3, AsksInv DEF TestDue, TestHolding
<1>4. CASE ReadPressed \/ ReadReleased
  <2>1. (Goes("timer", "press", "pressing") \/ Goes("timer", "release", "releasing"))
        /\ Take("timer", Space)
    BY <1>4 DEF ReadPressed, ReadReleased, Inv, Settled
  <2> QED
    BY <1>0, <2>1, SetsSame, SameInv
<1>5. CASE Pressed \/ Released \/ Cool \/ Later
  BY <1>0, <1>5, SetsSame, SameInv DEF Pressed, Released, Cool, Later
<1>6. CASE ReadPresses
  <2>1. Goes("timer", "count", "count down") /\ Same
    BY <1>6 DEF ReadPresses, Same, settings, sequence
  <2> QED
    BY <1>0, <2>1, SameInv
<1>7. CASE Press
  <2>1. Goes("timer", "pressing", "pressed") /\ held' = [held EXCEPT ![Space] = TRUE]
        /\ UNCHANGED <<enabled, key, heldKey, arg, then, active, presses>>
    BY <1>0, <1>7 DEF Press, Hold, settings, sequence, own, Inv, Settled
  <2>2. Settled'
    BY <1>0, <2>1, SettledStays DEF Inv
  <2>3. PressLeft'
    BY <1>0, <2>1, PressLeftStays DEF Inv
  <2>4. at["timer"] = "pressing" /\ at'["timer"] = "pressed" /\ at'["game"] = at["game"]
    BY <1>0, <2>1, OneGoes
  <2>5. SomeSequence'
    BY <2>1, <2>4 DEF Inv, Kept, SomeSequence
  <2>6. \A k \in Keys : held'[k] => k = Space
    BY <2>1 DEF Inv, Kept, Typed
  <2>7. Kept'
    BY <2>4, <2>5, <2>6 DEF Kept
  <2> QED
    BY <2>2, <2>3, <2>7 DEF Inv
<1>8. CASE Release
  <2>1. Goes("timer", "releasing", "released") /\ held' = [held EXCEPT ![Space] = FALSE]
        /\ UNCHANGED <<enabled, key, heldKey, arg, then, active, presses>>
    BY <1>0, <1>8 DEF Release, Hold, settings, sequence, own, Inv, Settled
  <2>2. Settled'
    BY <1>0, <2>1, SettledStays DEF Inv
  <2>3. PressLeft'
    BY <1>0, <2>1, PressLeftStays DEF Inv
  <2>4. at'["timer"] = "released"
    BY <1>0, <2>1, OneGoes
  <2>5. ~held'[Space] /\ \A k \in Keys : held'[k] => k = Space
    BY <2>1, KeysAssumption DEF Inv, Kept, Typed
  <2>6. Kept'
    BY <2>4, <2>5 DEF Kept
  <2> QED
    BY <2>2, <2>3, <2>6 DEF Inv
<1>9. CASE CountDown
  <2>1. Goes("timer", "count down", "counted")
        /\ UNCHANGED <<enabled, key, heldKey, arg, then, active, held>>
    BY <1>9 DEF CountDown, SetPresses, settings, own
  <2>2. Settled'
    BY <1>0, <2>1, SettledStays DEF Inv
  <2>3. PressLeft'
    BY <1>0, <2>1, OneGoes DEF PressLeft
  <2>4. Kept'
    BY <1>0, <2>1, KeptStays DEF Inv
  <2> QED
    BY <2>2, <2>3, <2>4 DEF Inv
<1>10. CASE Counted
  <2>1. Same
    BY <1>10 DEF Counted, Asks, Same, settings, sequence, own
  <2>2. \/ Goes("timer", "counted", "later") /\ presses # 0
        \/ Goes("timer", "counted", "over")
    BY <1>10 DEF Counted, Asks, Typed
  <2>3. Settled'
    BY <1>0, <2>1, <2>2, SettledStays DEF Inv, Same
  <2>4. PressLeft'
    BY <1>0, <2>1, <2>2, OneGoes DEF PressLeft, Same
  <2>5. Kept'
    BY <1>0, <2>1, <2>2, KeptStays DEF Inv, Same
  <2> QED
    BY <2>3, <2>4, <2>5 DEF Inv
<1>11. CASE Over
  <2>1. Goes("timer", "over", "cooldown") /\ active' = FALSE
        /\ UNCHANGED <<enabled, key, heldKey, arg, then, held>>
    BY <1>11 DEF Over, SetActive, settings, own
  <2>2. Settled'
    BY <1>0, <2>1, SettledStays DEF Inv
  <2>3. PressLeft'
    BY <2>1 DEF PressLeft
  <2>4. at["timer"] = "over" /\ at'["timer"] = "cooldown"
    BY <1>0, <2>1, OneGoes
  <2>5. Kept'
    BY <2>1, <2>4 DEF Inv, Kept
  <2> QED
    BY <2>2, <2>3, <2>5 DEF Inv
<1> QED
  BY <1>1, <1>2, <1>3, <1>4, <1>5, <1>6, <1>7, <1>8, <1>9, <1>10, <1>11

LEMMA NextInv ==
  ASSUME Typed, Unedited, Inv, [Next]_vars
  PROVE  Inv'
<1>0. "game" \in Threads /\ "timer" \in Threads
  BY DEF Threads
<1>1. CASE Hit
  BY <1>0, <1>1, AsksInv DEF Hit, Drawing, Restarting
<1>2. CASE FallsDue \/ Cools \/ UNCHANGED vars
  <2>1. Same /\ UNCHANGED at
    BY <1>2 DEF FallsDue, Cools, Same, vars, settings, sequence, own
  <2> QED
    BY <2>1 DEF Same, Inv, Settled, PressLeft, Kept, SomeSequence
<1>3. CASE Ticking \/ Rebind
  BY <1>3, RebindInv, TickInv DEF Ticking
<1> QED
  BY <1>0, <1>1, <1>2, <1>3, HurtInv, AbortInv DEF Next, Game, Timer

LEMMA WorldStays ==
  ASSUME [Next]_vars
  PROVE  world' = world
<1>1. CASE \E t \in Threads : Hurt(t)
  BY <1>1 DEF Hurt, Asked, Free, RollFails, RollPasses, Begin, Draw, Drawn, Clamp, ReadKey,
     KeepKey, StartUp, Delay, Asks, SetActive, SetHolding, SetPresses, SetDue, SetCooling,
     Take, settings
<1>2. CASE \E t \in Threads : Abort(t)
  BY <1>2 DEF Abort, AbortActive, AbortHolding, NothingToAbort, LetGo, Which, ReleaseAborted,
     Drop, Dropped, NoPresses, Asks, Returns, SetActive, SetHolding, Take, Hold, settings
<1>3. CASE Ticking \/ Rebind
  BY <1>3 DEF Ticking, Rebind, DefaultEnabled, BindEnabled, DefaultKey, BindKey, SwitchedOff,
     StillActive, SameKey, NothingNew, Poll, SyntheticHit, Test, TestDue, TestHolding,
     ReadPressed, Press, Pressed, ReadReleased, Release, Released, ReadPresses, CountDown,
     Counted, Over, Cool, Later, Asks, AbortsOr, SetActive, SetHolding, SetPresses, SetDue,
     SetCooling, SetEnabled, SetKey, Take, Hold, settings
<1>4. CASE Hit \/ FallsDue \/ Cools \/ UNCHANGED vars
  BY <1>4 DEF Hit, Asks, FallsDue, Cools, vars, settings
<1> QED
  BY <1>1, <1>2, <1>3, <1>4 DEF Next, Game, Timer, Threads

LEMMA InvHolds == Spec => [](Typed /\ (Unedited => Inv))
<1>1. Init => Typed /\ (Unedited => Inv)
  BY InitTyped, InitInv
<1>2. Typed /\ (Unedited => Inv) /\ [Next]_vars => (Typed /\ (Unedited => Inv))'
  <2> SUFFICES ASSUME Typed, Unedited => Inv, [Next]_vars
               PROVE  Typed' /\ (Unedited' => Inv')
    OBVIOUS
  <2>1. Unedited' => Unedited
    BY WorldStays DEF Unedited
  <2> QED
    BY <2>1, NextTyped, NextInv
<1> QED
  BY <1>1, <1>2, PTL DEF Spec

(* Every reachable state is well typed, and with the file left alone a sequence
   left to the next tick has a press left, wherever the draw, the clamp and
   abortSequence() of a hit cross those of another, or the three accesses of
   onTick()'s count-down. *)
THEOREM TypeCorrect == Spec => []TypeOK
<1>1. Typed /\ (Unedited => Inv) => TypeOK
  <2> SUFFICES ASSUME Typed, Unedited => Inv PROVE TypeOK
    OBVIOUS
  <2>1. Unedited /\ AtRest /\ active => presses # 0
    BY DEF Inv, PressLeft, AtRest, Drawing
  <2> QED
    BY <2>1, PressesAssumption DEF Typed, TypeOK
<1> QED
  BY <1>1, InvHolds, PTL

(* Whatever crosses whatever, as long as nobody edits jpr.json: once both threads
   are through with what they were at, a held key is the running sequence's, which
   will let it go. *)
THEOREM NoHoldWithoutSequence == Spec => []HeldBySequence
<1>1. Typed /\ (Unedited => Inv) => HeldBySequence
  BY DEF Typed, Inv, HeldBySequence, AtRest, Settled, Kept, SomeSequence, Restarting
<1> QED
  BY <1>1, InvHolds, PTL
=============================================================================
