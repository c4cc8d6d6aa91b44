--------------------------- MODULE AutoJumpReset ----------------------------
(***************************************************************************)
(* The auto_jump_reset module: every handler of the class, as an operator  *)
(* from a world (the module's fields and the key queue) to the set of      *)
(* worlds its random draws can lead to.                                    *)
(*                                                                         *)
(* The code keeps deadlines and only ever compares them with the present,  *)
(* so the model keeps what is left of each: nextActionIn and cooldownIn    *)
(* are nextActionAt_ - now and cooldownUntil_ - now, 0 once they have      *)
(* passed; sinceFire is now - lastAutoFire_, which stops counting at       *)
(* MaxAge.                                                                 *)
(***************************************************************************)
EXTENDS Keyboard, Integers

CONSTANTS
  NoKey,     \* debug_trigger_key 0
  Space,     \* keycode::Space, what heldKey_ starts as
  MaxAge     \* bound: sinceFire stops here, above every debug_auto_fire_ms

ASSUME AgeAssumption == MaxAge \in Nat
ASSUME SpaceAssumption == Space \in Keys /\ NoKey \notin Keys

Ranges == [min: Int, max: Int]

Settings ==
  [enabled: BOOLEAN, chance: 0..100, delay: Ranges, hold: Ranges,
   release: Ranges, repeats: Ranges, cooldown: Ranges, key: Keys,
   cancel: BOOLEAN, debugKey: Keys \cup {NoKey}, autoFireMs: 0..MaxAge, mode: Modes]

SequenceState ==
  [active: BOOLEAN, holding: BOOLEAN, heldKey: Keys, pressesLeft: Nat,
   nextActionIn: Nat, cooldownIn: Nat, wasDown: BOOLEAN, sinceFire: 0..MaxAge]

WorldState == [seq: SequenceState, kb: KeyboardState]

InitialSequence ==
  [active |-> FALSE, holding |-> FALSE, heldKey |-> Space, pressesLeft |-> 0,
   nextActionIn |-> 0, cooldownIn |-> 0, wasDown |-> FALSE, sinceFire |-> MaxAge]

NotNegative(n) == IF n < 0 THEN 0 ELSE n
AtMost(n, top) == IF n > top THEN top ELSE n

(* Random::pick() and Random::chance(): what can come out of a draw. *)
Pick(range) == IF range.max <= range.min THEN {range.min} ELSE range.min .. range.max
Rolls(chance) == {roll \in BOOLEAN : IF roll THEN chance > 0 ELSE chance < 100}

(* Fault: the sequence is dropped and its key forgotten. *)
AbortKeepsKey(w) ==
  [w EXCEPT !.seq.active = FALSE, !.seq.holding = FALSE, !.seq.pressesLeft = 0]

AbortSequence(w) ==
  IF ~w.seq.active /\ ~w.seq.holding THEN w
  ELSE [seq |-> [w.seq EXCEPT !.active = FALSE, !.holding = FALSE, !.pressesLeft = 0],
        kb  |-> IF w.seq.holding THEN Release(w.kb, w.seq.heldKey) ELSE w.kb]

OnConfigured(old, new, w) ==
  LET moded    == [w EXCEPT !.kb = SetInjectMode(@, new.mode)]
      disabled == IF old.enabled /\ ~new.enabled THEN AbortSequence(moded) ELSE moded
  IN  IF disabled.seq.active /\ disabled.seq.heldKey # new.key
      THEN AbortSequence(disabled) ELSE disabled

(* Fault: repeats is taken as drawn. *)
BeginUnclamped(c, w, late, presses, delay) ==
  [w EXCEPT !.seq.active = TRUE, !.seq.pressesLeft = presses, !.seq.heldKey = c.key,
            !.seq.holding = FALSE, !.seq.nextActionIn = NotNegative(late + delay)]

(* The tail of onLocalPlayerHurt(), for the values it drew. *)
Begin(c, w, late, presses, delay) ==
  [w EXCEPT !.seq.active       = TRUE,
            !.seq.pressesLeft  = IF presses < 1 THEN 1 ELSE presses,
            !.seq.heldKey      = c.key,
            !.seq.holding      = FALSE,
            !.seq.nextActionIn = NotNegative(late + delay)]

Ignores(c, w, late) ==
  \/ ~c.enabled
  \/ late < w.seq.cooldownIn
  \/ w.seq.active /\ ~c.cancel

(* Fault: the roll comes before the check for a running sequence. *)
HurtRollsFirst(c, w, late) ==
  IF ~c.enabled \/ late < w.seq.cooldownIn THEN {w}
  ELSE {[w EXCEPT !.seq.cooldownIn = NotNegative(late + n)] : n \in Pick(c.cooldown)}
       \cup IF w.seq.active THEN {w}
            ELSE {Begin(c, w, late, presses, delay) :
                    presses \in Pick(c.repeats), delay \in Pick(c.delay)}

(* dispatchLocalPlayerHurt() and onLocalPlayerHurt().  late is how far
   event.now is past the instant the world's deadlines are counted from. *)
OnLocalPlayerHurt(c, w, late) ==
  IF Ignores(c, w, late) THEN {w}
  ELSE UNION {
    IF roll
    THEN {Begin(c, AbortSequence(w), late, presses, delay) :
            presses \in Pick(c.repeats), delay \in Pick(c.delay)}
    ELSE {[w EXCEPT !.seq.cooldownIn = NotNegative(late + n)] : n \in Pick(c.cooldown)}
    : roll \in Rolls(c.chance)}

PollAutoFire(c, w, late) ==
  IF c.enabled /\ c.autoFireMs > 0 /\ w.seq.sinceFire >= c.autoFireMs
  THEN OnLocalPlayerHurt(c, [w EXCEPT !.seq.sinceFire = 0], late)
  ELSE {w}

PollTriggerKey(c, w, late) ==
  IF ~c.enabled \/ c.debugKey = NoKey THEN {w}
  ELSE LET down == GameKeyDown(w.kb, c.debugKey)
       IN  {[v EXCEPT !.seq.wasDown = down] :
              v \in IF down /\ ~w.seq.wasDown THEN OnLocalPlayerHurt(c, w, late) ELSE {w}}

PollDebugKey(c, w, late) ==
  UNION {PollTriggerKey(c, v, late) : v \in PollAutoFire(c, w, late)}

(* Fault: the wrong range decides how long the key is held. *)
PressDownForRelease(c, w) ==
  {[seq |-> [w.seq EXCEPT !.holding = TRUE, !.nextActionIn = NotNegative(n)],
    kb  |-> Press(w.kb, w.seq.heldKey)] : n \in Pick(c.release)}

PressDown(c, w) ==
  {[seq |-> [w.seq EXCEPT !.holding = TRUE, !.nextActionIn = NotNegative(n)],
    kb  |-> Press(w.kb, w.seq.heldKey)] : n \in Pick(c.hold)}

(* Fault: presses are not counted down. *)
LetGoUncounted(w) ==
  [seq |-> [w.seq EXCEPT !.holding = FALSE], kb |-> Release(w.kb, w.seq.heldKey)]

LetGo(w) ==
  [seq |-> [w.seq EXCEPT !.holding = FALSE, !.pressesLeft = @ - 1],
   kb  |-> Release(w.kb, w.seq.heldKey)]

AfterPress(c, w) ==
  IF w.seq.pressesLeft > 0
  THEN {[w EXCEPT !.seq.nextActionIn = NotNegative(n)] : n \in Pick(c.release)}
  ELSE {[w EXCEPT !.seq.active = FALSE, !.seq.cooldownIn = NotNegative(n)] :
          n \in Pick(c.cooldown)}

Advance(c, w) ==
  IF ~w.seq.active \/ w.seq.nextActionIn > 0 THEN {w}
  ELSE IF w.seq.holding THEN AfterPress(c, LetGo(w)) ELSE PressDown(c, w)

OnTick(c, w, late) == UNION {Advance(c, v) : v \in PollDebugKey(c, w, late)}

(* e units of time go by: what is left of each deadline shrinks. *)
Elapsed(w, e) ==
  [seq |-> [w.seq EXCEPT !.nextActionIn = NotNegative(@ - e),
                         !.cooldownIn   = NotNegative(@ - e),
                         !.sinceFire    = AtMost(@ + e, MaxAge)],
   kb  |-> w.kb]
=============================================================================
