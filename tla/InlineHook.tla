----------------------------- MODULE InlineHook -----------------------------
(***************************************************************************)
(* The life of the inline hooks: install() during mod_init, before the     *)
(* game runs; then calls of the hooked game functions from the game's own  *)
(* threads; then removeAll() and removeHooks() from the destructor that    *)
(* runs shutdown(), whatever the game's threads are doing at that moment.  *)
(* A hooked function is its first bytes (its own, or a jump to the         *)
(* replacement), the trampoline made from them and the replacement's       *)
(* pointer to it.                                                          *)
(***************************************************************************)
EXTENDS Sequences

CONSTANTS
  Hooks,          \* the functions the mod may hook
  Forgotten,      \* those whose pointer removeHooks() clears
  Threads         \* threads of the game

ASSUME HooksAssumption == Hooks # {} /\ Forgotten \subseteq Hooks

VARIABLES
  writable,    \* TRUE: no page refuses to be written back
  code,        \* the first bytes of each function: "own" or "jump"
  trampoline,  \* "none", "mapped" or "freed"
  original,    \* whether the replacement's *originalOut is set
  gInstalled,  \* the records, in the order of installation
  records,     \* removeAll()'s local batch
  phase,       \* install, run, restore, unmap, forget, gone
  call         \* what each game thread is doing

vars == <<writable, code, trampoline, original, gInstalled, records, phase, call>>
hooks == <<writable, code, trampoline, original, gInstalled>>

Places == {"out", "own", "replacement", "trampoline", "original", "skipped"}

Idle == [at |-> "out", of |-> CHOOSE h \in Hooks : TRUE]

Init ==
  /\ writable \in BOOLEAN
  /\ code = [h \in Hooks |-> "own"]
  /\ trampoline = [h \in Hooks |-> "none"]
  /\ original = [h \in Hooks |-> FALSE]
  /\ gInstalled = << >> /\ records = << >>
  /\ phase = "install"
  /\ call = [t \in Threads |-> Idle]

(* Fault: *originalOut is set before the jump is known to have been written. *)
InstallEarly(h) ==
  /\ phase = "install" /\ code[h] = "own"
  /\ original' = [original EXCEPT ![h] = TRUE]
  /\ \/ /\ trampoline' = [trampoline EXCEPT ![h] = "mapped"]
        /\ code' = [code EXCEPT ![h] = "jump"]
        /\ gInstalled' = Append(gInstalled, h)
     \/ UNCHANGED <<trampoline, code, gInstalled>>
  /\ UNCHANGED <<writable, records, phase, call>>

(* install() that got through; one that is refused on the way (nothing to
   decode, no memory, the page not writable) leaves nothing behind. *)
Install(h) ==
  /\ phase = "install" /\ code[h] = "own"
  /\ trampoline' = [trampoline EXCEPT ![h] = "mapped"]
  /\ code' = [code EXCEPT ![h] = "jump"]
  /\ original' = [original EXCEPT ![h] = TRUE]
  /\ gInstalled' = Append(gInstalled, h)
  /\ UNCHANGED <<writable, records, phase, call>>

GameStarts ==
  /\ phase = "install" /\ phase' = "run"
  /\ UNCHANGED <<hooks, records, call>>

-----------------------------------------------------------------------------
Move(t, from, to) == call[t].at = from /\ call' = [call EXCEPT ![t].at = to]

(* The game calls one of its functions. *)
Call(t, h) ==
  /\ phase # "install"
  /\ call[t].at = "out"
  /\ call' = [call EXCEPT ![t] = [at |-> IF code[h] = "jump" THEN "replacement" ELSE "own",
                                  of |-> h]]
  /\ UNCHANGED <<hooks, records, phase>>

(* The replacements call the original first, when they have it. *)
CallOriginal(t) ==
  /\ Move(t, "replacement", IF original[call[t].of] THEN "trampoline" ELSE "skipped")
  /\ UNCHANGED <<hooks, records, phase>>

(* The displaced instructions, then the jump back into the function. *)
JumpBack(t) ==
  /\ Move(t, "trampoline", "original")
  /\ UNCHANGED <<hooks, records, phase>>

Return(t) ==
  /\ \E at \in {"own", "original", "skipped"} : Move(t, at, "out")
  /\ UNCHANGED <<hooks, records, phase>>

-----------------------------------------------------------------------------
(* Fault: removeHooks() clears the pointers first. *)
BeginByForgetting ==
  /\ phase = "run"
  /\ records' = gInstalled /\ gInstalled' = << >>
  /\ original' = [h \in Hooks |-> original[h] /\ h \notin Forgotten]
  /\ phase' = "restore"
  /\ UNCHANGED <<writable, code, trampoline, call>>

(* removeAll(): take the records, write the original bytes back one function
   after the other, free the trampoline of each that took. *)
BeginRemoval ==
  /\ phase = "run"
  /\ records' = gInstalled /\ gInstalled' = << >>
  /\ phase' = "restore"
  /\ UNCHANGED <<writable, code, trampoline, original, call>>

Restored(h) == code' = [code EXCEPT ![h] = "own"]

(* Fault: whether the bytes were taken back is not looked at. *)
RestoreUnchecked ==
  /\ phase = "restore" /\ records # << >>
  /\ \/ Restored(Head(records)) /\ phase' = "unmap"
     \/ ~writable /\ phase' = "unmap" /\ UNCHANGED code
  /\ UNCHANGED <<writable, records, trampoline, original, gInstalled, call>>

Restore ==
  /\ phase = "restore" /\ records # << >>
  /\ \/ Restored(Head(records)) /\ phase' = "unmap" /\ UNCHANGED records
     \/ ~writable /\ records' = Tail(records) /\ UNCHANGED <<code, phase>>
  /\ UNCHANGED <<writable, trampoline, original, gInstalled, call>>

(* Fault: the trampoline stays mapped. *)
UnmapForgotten ==
  /\ phase = "unmap"
  /\ records' = Tail(records)
  /\ phase' = "restore"
  /\ UNCHANGED <<writable, code, trampoline, original, gInstalled, call>>

Unmap ==
  /\ phase = "unmap"
  /\ trampoline' = [trampoline EXCEPT ![Head(records)] = "freed"]
  /\ records' = Tail(records)
  /\ phase' = "restore"
  /\ UNCHANGED <<writable, code, original, gInstalled, call>>

AllRestored ==
  /\ phase = "restore" /\ records = << >>
  /\ phase' = "forget"
  /\ UNCHANGED <<hooks, records, call>>

(* removeHooks(): the pointers to the trampolines go last. *)
Forget ==
  /\ phase = "forget"
  /\ original' = [h \in Hooks |-> original[h] /\ h \notin Forgotten]
  /\ phase' = "gone"
  /\ UNCHANGED <<writable, code, trampoline, gInstalled, records, call>>

Next ==
  \/ \E h \in Hooks : Install(h)
  \/ GameStarts
  \/ \E t \in Threads : (\E h \in Hooks : Call(t, h)) \/ CallOriginal(t) \/ JumpBack(t) \/ Return(t)
  \/ BeginRemoval \/ Restore \/ Unmap \/ AllRestored \/ Forget

Spec == Init /\ [][Next]_vars

-----------------------------------------------------------------------------
(* Type invariant; a replacement that has a pointer got it with a trampoline. *)
TypeOK ==
  /\ writable \in BOOLEAN
  /\ code \in [Hooks -> {"own", "jump"}]
  /\ trampoline \in [Hooks -> {"none", "mapped", "freed"}]
  /\ original \in [Hooks -> BOOLEAN]
  /\ \A h \in Hooks : original[h] => trampoline[h] # "none"
  /\ gInstalled \in Seq(Hooks) /\ records \in Seq(Hooks)
  /\ phase \in {"install", "run", "restore", "unmap", "forget", "gone"}
  /\ call \in [Threads -> [at: Places, of: Hooks]]

(* inline_hook.cpp: "the target still jumps into it, so unmapping would turn
   every later call into a crash": at no point, failed restores included, is a
   function patched whose trampoline is not there. *)
JumpsLeadSomewhere == \A h \in Hooks : code[h] = "jump" => trampoline[h] = "mapped"

(* mod_main.cpp: "put the game's code back the way we found it", which
   takes pages that can be written. *)
PutBack == phase = "gone" /\ writable => \A h \in Hooks : code[h] = "own" /\ trampoline[h] # "mapped"

(* inline_hook.h: "the replacement can call through to the original": a call the
   game made goes on into a trampoline, which is there as long as the mod runs; and
   even with the removal begun, whichever calls are under way and whatever fails to
   be restored, none is skipped before the mod is gone, and then only for want of a
   pointer removeHooks() clears.  (A trampoline may be gone by then, and a function
   that could not be restored is skipped: README, "Where code and documents part".) *)
CallsGoThrough ==
  \A t \in Threads :
    /\ call[t].at = "skipped" => phase = "gone" /\ call[t].of \in Forgotten
    /\ call[t].at = "trampoline" /\ phase = "run" => trampoline[call[t].of] = "mapped"
=============================================================================
