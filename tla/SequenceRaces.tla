--------------------------- MODULE SequenceRaces ----------------------------
(***************************************************************************)
(* What Heartbeat takes for atomic, taken apart: with the damage hook      *)
(* installed and no game thread tick source, the game thread runs          *)
(* onLocalPlayerHurt() while the timer thread runs applyConfig() and       *)
(* onTick(), which can fire a synthetic hit of its own, and nothing guards *)
(* the fields of AutoJumpReset they share.  Each step below is one read or *)
(* one write of such a field; the interleavings are those of a build that  *)
(* keeps the order of the source.  press() and release() are atomic:       *)
(* gMutex is theirs.  A deadline has passed or not, which is all the code  *)
(* ever asks of it, and a pressesLeft_ below zero counts as zero: it is    *)
(* only ever counted down, set anew, and asked whether it is above zero.   *)
(***************************************************************************)
EXTENDS Naturals

CONSTANTS
  Keys,        \* the jump keys a config may name
  Space,       \* the default of "key"
  Worlds,      \* what jpr.json may come to name as key and enabled,
               \* cancel_on_new_hit, and whether one of the two debug settings
               \* is on
  MaxPresses   \* bound: the largest "repeats"

ASSUME KeysAssumption == Space \in Keys
ASSUME WorldsAssumption ==
  \A w \in Worlds : /\ w.keys \subseteq Keys /\ w.enabled \subseteq BOOLEAN
                    /\ w.cancel \in BOOLEAN /\ w.debug \in BOOLEAN
ASSUME PressesAssumption == MaxPresses \in Nat \ {0}

VARIABLES
  world,                                     \* one of Worlds
  enabled, key,                              \* the settings edited here
  active, holding, heldKey, presses,         \* the sequence
  due, cooling,                              \* nextActionAt_ <= now; now < cooldownUntil_
  held,                                      \* gHeld
  at,                                        \* where each thread is
  arg, then, left,                           \* and its locals: a key, where abortSequence()
                                             \* returns to, the pressesLeft_ being counted down
  was                                        \* whether the reload found the module enabled

sequence == <<active, holding, heldKey, presses>>
clock == <<due, cooling>>
settings == <<world, enabled, key>>
own == <<arg, then, left, was>>
vars == <<settings, sequence, clock, held, at, own>>

Threads == {"game", "timer"}

Init ==
  /\ world \in Worlds
  /\ enabled = TRUE /\ key = Space
  /\ active = FALSE /\ holding = FALSE /\ heldKey = Space /\ presses = 0
  /\ due = TRUE /\ cooling = FALSE
  /\ held = [k \in Keys |-> FALSE]
  /\ at = [t \in Threads |-> IF t = "game" THEN "none" ELSE "sleep"]
  /\ arg = [t \in Threads |-> Space] /\ then = [t \in Threads |-> "begin"]
  /\ left = 0 /\ was = TRUE

Goes(t, from, to) == at[t] = from /\ at' = [at EXCEPT ![t] = to]

(* A read that only decides where the thread goes. *)
Asks(t, from, to) == Goes(t, from, to) /\ UNCHANGED <<settings, sequence, clock, held, own>>

(* A write of one shared field or of one local. *)
SetActive(b) == active' = b /\ UNCHANGED <<settings, holding, heldKey, presses, clock, held, own>>
SetHolding(b) == holding' = b /\ UNCHANGED <<settings, active, heldKey, presses, clock, held, own>>
SetPresses(n) == presses' = n /\ UNCHANGED <<settings, active, holding, heldKey, clock, held, own>>
SetDue == due' \in BOOLEAN /\ UNCHANGED <<settings, sequence, cooling, held, own>>
SetCooling == cooling' \in BOOLEAN /\ UNCHANGED <<settings, sequence, due, held, own>>
Take(t, k) ==
  arg' = [arg EXCEPT ![t] = k] /\ UNCHANGED <<settings, sequence, clock, held, then, left, was>>
Hold(t, down) ==
  held' = [held EXCEPT ![arg[t]] = down] /\ UNCHANGED <<settings, sequence, clock, own>>

-----------------------------------------------------------------------------
(* onLocalPlayerHurt(), on the game thread or out of pollDebugKey(). *)
Done(t) == IF t = "game" THEN "none" ELSE "tick"

Hit == enabled /\ Asks("game", "none", "asked")

Asked(t) == Asks(t, "asked", IF cooling THEN Done(t) ELSE "cool")

Free(t) == Asks(t, "cool", IF active /\ ~world.cancel THEN Done(t) ELSE "roll")

RollFails(t) == Goes(t, "roll", Done(t)) /\ SetCooling

RollPasses(t) == Asks(t, "roll", IF active THEN "abort" ELSE "begin")

Begin(t) == Goes(t, "begin", "draw") /\ SetActive(TRUE)

Draw(t) == Goes(t, "draw", "drawn") /\ \E n \in 0..MaxPresses : SetPresses(n)

(* Fault: repeats is taken as drawn. *)
DrawnIsEnough(t) == Asks(t, "drawn", "key")

Drawn(t) == Asks(t, "drawn", IF presses < 1 THEN "clamp" ELSE "key")

Clamp(t) == Goes(t, "clamp", "key") /\ SetPresses(1)

ReadKey(t) == Goes(t, "key", "keep") /\ Take(t, key)

KeepKey(t) ==
  /\ Goes(t, "keep", "up")
  /\ heldKey' = arg[t]
  /\ UNCHANGED <<settings, active, holding, presses, clock, held, own>>

StartUp(t) == Goes(t, "up", "delay") /\ SetHolding(FALSE)

Delay(t) == Goes(t, "delay", Done(t)) /\ SetDue

Hurt(t) ==
  \/ Asked(t) \/ Free(t) \/ RollFails(t) \/ RollPasses(t) \/ Begin(t)
  \/ Draw(t) \/ Drawn(t) \/ Clamp(t) \/ ReadKey(t) \/ KeepKey(t) \/ StartUp(t) \/ Delay(t)

-----------------------------------------------------------------------------
(* abortSequence(), out of onLocalPlayerHurt() or of onConfigured(). *)
Returns(t, from) ==
  /\ Goes(t, from, then[t])
  /\ then' = [then EXCEPT ![t] = "begin"]
  /\ UNCHANGED <<settings, active, holding, heldKey, clock, held, arg, left, was>>

AbortActive(t) == Asks(t, "abort", IF active THEN "let go" ELSE "idle")

AbortHolding(t) == holding /\ Asks(t, "idle", "let go")

NothingToAbort(t) == ~holding /\ Returns(t, "idle") /\ UNCHANGED presses

LetGo(t) == Asks(t, "let go", IF holding THEN "which" ELSE "drop")

Which(t) == Goes(t, "which", "up it goes") /\ Take(t, heldKey)

ReleaseAborted(t) == Goes(t, "up it goes", "drop") /\ Hold(t, FALSE)

Drop(t) == Goes(t, "drop", "dropped") /\ SetActive(FALSE)

Dropped(t) == Goes(t, "dropped", "no presses") /\ SetHolding(FALSE)

NoPresses(t) == Returns(t, "no presses") /\ presses' = 0

Abort(t) ==
  \/ AbortActive(t) \/ AbortHolding(t) \/ NothingToAbort(t) \/ LetGo(t) \/ Which(t)
  \/ ReleaseAborted(t) \/ Drop(t) \/ Dropped(t) \/ NoPresses(t)

-----------------------------------------------------------------------------
(* settings(): each field is its default for a moment, and then what the file
   says. *)
Rebind ==
  /\ Goes("timer", "sleep", "default enabled")
  /\ was' = enabled
  /\ UNCHANGED <<settings, sequence, clock, held, arg, then, left>>

SetEnabled(b) == enabled' = b /\ UNCHANGED <<world, key, sequence, clock, held, own>>
SetKey(k) == key' = k /\ UNCHANGED <<world, enabled, sequence, clock, held, own>>

DefaultEnabled == Goes("timer", "default enabled", "bind enabled") /\ SetEnabled(FALSE)

BindEnabled ==
  Goes("timer", "bind enabled", "default key") /\ \E e \in world.enabled : SetEnabled(e)

DefaultKey == Goes("timer", "default key", "bind key") /\ SetKey(Space)

BindKey == Goes("timer", "bind key", "configured") /\ \E k \in world.keys : SetKey(k)

(* onConfigured(): abort when the module was switched off, abort when the key
   is another one now. *)
AbortsOr(from, why, next) ==
  /\ Goes("timer", from, IF why THEN "abort" ELSE next)
  /\ then' = [then EXCEPT !["timer"] = IF why THEN next ELSE @]
  /\ UNCHANGED <<settings, sequence, clock, held, arg, left, was>>

SwitchedOff == AbortsOr("configured", was /\ ~enabled, "running")

StillActive == Asks("timer", "running", IF active THEN "same key" ELSE "poll")

SameKey == AbortsOr("same key", heldKey # key, "poll")

NothingNew == Asks("timer", "sleep", "poll")

(* pollDebugKey(): the time for a synthetic hit has come, or it has not. *)
Poll == Asks("timer", "poll", "tick")

SyntheticHit == enabled /\ world.debug /\ Asks("timer", "poll", "asked")

(* onTick() *)
Test == Asks("timer", "tick", IF active THEN "active" ELSE "sleep")

TestDue == Asks("timer", "active", IF due THEN "due" ELSE "sleep")

TestHolding == Asks("timer", "due", IF holding THEN "release" ELSE "press")

ReadPressed == Goes("timer", "press", "pressing") /\ Take("timer", heldKey)

Press == Goes("timer", "pressing", "pressed") /\ Hold("timer", TRUE)

Pressed == Goes("timer", "pressed", "later") /\ SetHolding(TRUE)

ReadReleased == Goes("timer", "release", "releasing") /\ Take("timer", heldKey)

(* Fault: the release is left to the end of the sequence. *)
ReleaseNever == Asks("timer", "releasing", "released")

Release == Goes("timer", "releasing", "released") /\ Hold("timer", FALSE)

Released == Goes("timer", "released", "count") /\ SetHolding(FALSE)

ReadPresses ==
  /\ Goes("timer", "count", "count down")
  /\ left' = presses
  /\ UNCHANGED <<settings, sequence, clock, held, arg, then, was>>

(* Fault: presses are not counted down. *)
CountNothing == Goes("timer", "count down", "counted") /\ SetPresses(left)

CountDown ==
  Goes("timer", "count down", "counted") /\ SetPresses(IF left = 0 THEN 0 ELSE left - 1)

Counted == Asks("timer", "counted", IF presses > 0 THEN "later" ELSE "over")

Over == Goes("timer", "over", "cooldown") /\ SetActive(FALSE)

Cool == Goes("timer", "cooldown", "sleep") /\ SetCooling

(* After a press the hold begins, after a release with presses left the pause. *)
Later == Goes("timer", "later", "sleep") /\ SetDue

Ticking ==
  \/ DefaultEnabled \/ BindEnabled \/ DefaultKey \/ BindKey \/ SwitchedOff \/ StillActive
  \/ SameKey \/ NothingNew \/ Poll \/ SyntheticHit \/ Test \/ TestDue \/ TestHolding
  \/ ReadPressed \/ Press \/ Pressed \/ ReadReleased \/ Release \/ Released
  \/ ReadPresses \/ CountDown \/ Counted \/ Over \/ Cool \/ Later

(* A deadline comes; a cooldown runs out. *)
FallsDue == due' = TRUE /\ UNCHANGED <<settings, sequence, cooling, held, at, own>>

Cools == cooling' = FALSE /\ UNCHANGED <<settings, sequence, due, held, at, own>>

Game == Hurt("game") \/ Abort("game")

Timer == Ticking \/ Hurt("timer") \/ Abort("timer")

Next == Hit \/ Game \/ Rebind \/ Timer \/ FallsDue \/ Cools

Spec == Init /\ [][Next]_vars

(* The timer thread goes on, a hit that began is dealt with, and time goes by;
   hits and edits need not come. *)
FairSpec ==
  Spec /\ WF_vars(Game) /\ WF_vars(Timer) /\ WF_vars(FallsDue) /\ WF_vars(Cools)

-----------------------------------------------------------------------------
AtRest == at["game"] = "none" /\ at["timer"] = "sleep"

(* Nobody edits jpr.json: a reload binds what is in force already. *)
Unedited == world.keys = {Space} /\ world.enabled = {TRUE}

(* Type invariant; and with the file left alone a sequence left to the next
   tick has a press left, wherever the draw, the clamp and abortSequence() of
   one hit cross those of another and the count-down of onTick(). *)
TypeOK ==
  /\ enabled \in BOOLEAN /\ key \in Keys
  /\ active \in BOOLEAN /\ holding \in BOOLEAN /\ heldKey \in Keys
  /\ presses \in 0..MaxPresses /\ left \in 0..MaxPresses
  /\ due \in BOOLEAN /\ cooling \in BOOLEAN
  /\ held \in [Keys -> BOOLEAN]
  /\ arg \in [Threads -> Keys] /\ then \in [Threads -> {"begin", "running", "poll"}]
  /\ was \in BOOLEAN
  /\ Unedited /\ AtRest /\ active => presses > 0

(* auto_jump_reset.cpp: "A key change mid-press would otherwise leave the old
   key held": once both threads are through, what is held is what the running
   sequence will let go.  An edit breaks this (README, "Where code and
   documents part"). *)
HeldBySequence ==
  Unedited /\ AtRest => \A k \in Keys : held[k] => active /\ heldKey = k

HitsStop == <>[](at["game"] = "none" /\ at["timer"] # "asked")

(* However hits, ticks and edits crossed, once the hits stop the module is
   done with its last reaction; with HeldBySequence, the key is up for good. *)
SequenceEnds == HitsStop => <>[]~active
=============================================================================
