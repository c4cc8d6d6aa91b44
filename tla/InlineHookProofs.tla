-------------------------- MODULE InlineHookProofs --------------------------
(***************************************************************************)
(* The hooks leave the game intact: for every set of functions and any     *)
(* number of threads.  The argument is one batch, which holds every        *)
(* trampoline that is still mapped, until it is empty.                     *)
(***************************************************************************)
EXTENDS InlineHook, Integers, TLAPS

Elements(s) == {s[i] : i \in DOMAIN s}

(* Where the records of the mapped trampolines are. *)
Batch == IF phase \in {"install", "run"} THEN gInstalled ELSE records

(* Between the restore and the unmap of a function its own bytes are back. *)
HeadRestored == phase = "unmap" => records # << >> /\ code[Head(records)] = "own"

BatchHoldsAll ==
  /\ writable => \A h \in Hooks : trampoline[h] = "mapped" => h \in Elements(Batch)
  /\ phase \in {"forget", "gone"} => records = << >>

(* What a call in a replacement relies on: the pointer, until it is cleared. *)
Pointed(h) == original[h] \/ (phase = "gone" /\ h \in Forgotten)

SafeCall(t) ==
  /\ call[t].at = "replacement" => Pointed(call[t].of)
  /\ call[t].at = "skipped" => phase = "gone" /\ call[t].of \in Forgotten
  /\ call[t].at = "trampoline" => trampoline[call[t].of] # "none"

CallsAreSafe ==
  /\ \A h \in Hooks : code[h] = "jump" => Pointed(h)
  /\ phase \in {"install", "run"} => \A h \in Hooks : trampoline[h] # "freed"
  /\ \A t \in Threads : SafeCall(t)

Inv == TypeOK /\ JumpsLeadSomewhere /\ HeadRestored /\ BatchHoldsAll /\ CallsAreSafe

-----------------------------------------------------------------------------
LEMMA AppendElements ==
  ASSUME NEW S, NEW s \in Seq(S), NEW e \in S
  PROVE  Append(s, e) \in Seq(S) /\ Elements(Append(s, e)) = Elements(s) \cup {e}
<1>1. Append(s, e) \in Seq(S)
  OBVIOUS
<1>2. ASSUME NEW x \in Elements(s) PROVE x \in Elements(Append(s, e))
  <2>1. PICK i \in 1..Len(s) : x = s[i]
    BY DEF Elements
  <2>2. i \in 1..Len(Append(s, e)) /\ Append(s, e)[i] = x
    BY <2>1
  <2> QED
    BY <2>2 DEF Elements
<1>3. e \in Elements(Append(s, e))
  <2>1. Len(s) + 1 \in DOMAIN Append(s, e) /\ Append(s, e)[Len(s) + 1] = e
    OBVIOUS
  <2> QED
    BY <2>1 DEF Elements
<1>4. ASSUME NEW x \in Elements(Append(s, e)) PROVE x \in Elements(s) \cup {e}
  <2>1. PICK i \in 1..Len(s) + 1 : x = Append(s, e)[i]
    BY DEF Elements
  <2>2. i \in 1..Len(s) => x = s[i]
    BY <2>1
  <2>3. i \notin 1..Len(s) => x = e
    BY <2>1
  <2> QED
    BY <2>2, <2>3 DEF Elements
<1> QED
  BY <1>1, <1>2, <1>3, <1>4

LEMMA TailElements ==
  ASSUME NEW S, NEW s \in Seq(S), s # << >>
  PROVE  /\ Tail(s) \in Seq(S) /\ Head(s) \in S
         /\ Elements(s) \subseteq Elements(Tail(s)) \cup {Head(s)}
<1>1. Tail(s) \in Seq(S) /\ Head(s) \in S
  OBVIOUS
<1>2. ASSUME NEW x \in Elements(s), x # Head(s) PROVE x \in Elements(Tail(s))
  <2>1. PICK i \in 1..Len(s) : x = s[i]
    BY DEF Elements
  <2>2. i # 1
    BY <1>2, <2>1
  <2>3. i - 1 \in DOMAIN Tail(s) /\ Tail(s)[i - 1] = x
    BY <2>1, <2>2
  <2> QED
    BY <2>3 DEF Elements
<1> QED
  BY <1>1, <1>2

-----------------------------------------------------------------------------
LEMMA InitInv == Init => Inv
<1> SUFFICES ASSUME Init PROVE Inv
  OBVIOUS
<1>1. Idle \in [at: Places, of: Hooks] /\ Idle.at = "out"
  BY HooksAssumption DEF Idle, Places
<1>2. TypeOK
  BY <1>1 DEF Init, TypeOK
<1>3. JumpsLeadSomewhere /\ HeadRestored /\ BatchHoldsAll
  BY DEF Init, JumpsLeadSomewhere, HeadRestored, BatchHoldsAll
<1>4. CallsAreSafe
  BY <1>1 DEF Init, CallsAreSafe, SafeCall
<1> QED
  BY <1>2, <1>3, <1>4 DEF Inv

LEMMA InstallInv ==
  ASSUME Inv, NEW h \in Hooks, Install(h)
  PROVE  Inv'
<1> USE DEF Inv
<1>1. gInstalled' \in Seq(Hooks) /\ Elements(gInstalled') = Elements(gInstalled) \cup {h}
  BY AppendElements DEF Install, TypeOK
<1>2. TypeOK'
  BY <1>1 DEF Install, TypeOK
<1>3. JumpsLeadSomewhere' /\ HeadRestored'
  BY DEF Install, TypeOK, JumpsLeadSomewhere, HeadRestored
<1>4. BatchHoldsAll'
  BY <1>1 DEF Install, TypeOK, BatchHoldsAll, Batch
<1>5. CallsAreSafe'
  BY DEF Install, TypeOK, CallsAreSafe, SafeCall, Pointed
<1> QED
  BY <1>2, <1>3, <1>4, <1>5

(* What a thread of the game may find itself in. *)
Safe(c) ==
  /\ c.at = "replacement" => Pointed(c.of)
  /\ c.at = "skipped" => phase = "gone" /\ c.of \in Forgotten
  /\ c.at = "trampoline" => trampoline[c.of] # "none"

(* A step of the game changes nothing but where one thread is. *)
LEMMA CallInv ==
  ASSUME Inv, NEW t \in Threads, NEW c \in [at: Places, of: Hooks], Safe(c),
         call' = [call EXCEPT ![t] = c], UNCHANGED <<hooks, records, phase>>
  PROVE  Inv'
<1> USE DEF Inv, hooks
<1>1. TypeOK'
  BY DEF TypeOK
<1>2. JumpsLeadSomewhere' /\ HeadRestored' /\ BatchHoldsAll'
  BY DEF JumpsLeadSomewhere, HeadRestored, BatchHoldsAll, Batch
<1>3. ASSUME NEW u \in Threads PROVE SafeCall(u)'
  <2>1. CASE u = t
    BY <2>1 DEF TypeOK, Safe, SafeCall, Pointed
  <2>2. CASE u # t
    BY <2>2 DEF TypeOK, CallsAreSafe, SafeCall, Pointed
  <2> QED
    BY <2>1, <2>2
<1>4. CallsAreSafe'
  BY <1>3 DEF CallsAreSafe, Pointed
<1> QED
  BY <1>1, <1>2, <1>4

LEMMA ThreadInv ==
  ASSUME Inv, NEW t \in Threads,
         \/ \E h \in Hooks : Call(t, h)
         \/ CallOriginal(t) \/ JumpBack(t) \/ Return(t)
  PROVE  Inv'
<1> USE DEF Inv
<1>0. call[t] \in [at: Places, of: Hooks] /\ call \in [Threads -> [at: Places, of: Hooks]]
  BY DEF TypeOK
<1>1. ASSUME NEW h \in Hooks, Call(t, h) PROVE Inv'
  <2> DEFINE c == [at |-> IF code[h] = "jump" THEN "replacement" ELSE "own", of |-> h]
  <2>1. c \in [at: Places, of: Hooks]
    BY DEF Places
  <2>2. Safe(c)
    BY DEF Safe, CallsAreSafe
  <2>3. call' = [call EXCEPT ![t] = c] /\ UNCHANGED <<hooks, records, phase>>
    BY <1>1 DEF Call
  <2> HIDE DEF c
  <2> QED
    BY <2>1, <2>2, <2>3, CallInv
<1>2. ASSUME NEW from, NEW to \in Places, Move(t, from, to), Safe([at |-> to, of |-> call[t].of]),
             UNCHANGED <<hooks, records, phase>>
      PROVE  Inv'
  <2> DEFINE c == [at |-> to, of |-> call[t].of]
  <2>1. c \in [at: Places, of: Hooks] /\ Safe(c)
    BY <1>0, <1>2
  <2>2. call' = [call EXCEPT ![t] = c]
    <3>1. [call[t] EXCEPT !.at = to] = c
      BY <1>0
    <3>2. call' = [call EXCEPT ![t] = [call[t] EXCEPT !.at = to]]
      BY <1>0, <1>2 DEF Move
    <3> QED
      BY <3>1, <3>2
  <2> HIDE DEF c
  <2> QED
    BY <1>2, <2>1, <2>2, CallInv
<1>3. CASE CallOriginal(t)
  <2> DEFINE to == IF original[call[t].of] THEN "trampoline" ELSE "skipped"
  <2>1. SafeCall(t) /\ call[t].at = "replacement" /\ call[t].of \in Hooks
    BY <1>0, <1>3 DEF CallOriginal, Move, CallsAreSafe
  <2>2. Safe([at |-> to, of |-> call[t].of])
    BY <2>1 DEF SafeCall, Safe, Pointed, TypeOK
  <2> QED
    BY <1>2, <1>3, <2>2 DEF CallOriginal, Places
<1>4. CASE JumpBack(t)
  <2>1. Safe([at |-> "original", of |-> call[t].of])
    BY DEF Safe
  <2> QED
    BY <1>2, <1>4, <2>1 DEF JumpBack, Places
<1>5. CASE Return(t)
  <2>1. Safe([at |-> "out", of |-> call[t].of])
    BY DEF Safe
  <2> QED
    BY <1>2, <1>5, <2>1 DEF Return, Places
<1> QED
  BY <1>1, <1>3, <1>4, <1>5

LEMMA RestoreInv == ASSUME Inv, Restore PROVE Inv'
<1> USE DEF Inv
<1>1. Tail(records) \in Seq(Hooks) /\ Head(records) \in Hooks /\ records \in Seq(Hooks)
  BY TailElements DEF Restore, TypeOK
<1>2. CASE Restored(Head(records)) /\ phase' = "unmap" /\ UNCHANGED records
  <2>1. TypeOK'
    BY <1>1, <1>2 DEF Restore, Restored, TypeOK
  <2>2. JumpsLeadSomewhere' /\ HeadRestored'
    BY <1>1, <1>2 DEF Restore, Restored, TypeOK, JumpsLeadSomewhere, HeadRestored
  <2>3. BatchHoldsAll'
    BY <1>2 DEF Restore, BatchHoldsAll, Batch
  <2>4. CallsAreSafe'
    BY <1>1, <1>2 DEF Restore, Restored, TypeOK, CallsAreSafe, SafeCall, Pointed
  <2> QED
    BY <2>1, <2>2, <2>3, <2>4
<1>3. CASE ~writable /\ records' = Tail(records) /\ UNCHANGED <<code, phase>>
  <2>1. TypeOK'
    BY <1>1, <1>3 DEF Restore, TypeOK
  <2>2. JumpsLeadSomewhere' /\ HeadRestored' /\ BatchHoldsAll' /\ CallsAreSafe'
    BY <1>3 DEF Restore, JumpsLeadSomewhere, HeadRestored, BatchHoldsAll, CallsAreSafe, SafeCall, Pointed
  <2> QED
    BY <2>1, <2>2
<1> QED
  BY <1>2, <1>3 DEF Restore

LEMMA UnmapInv == ASSUME Inv, Unmap PROVE Inv'
<1> USE DEF Inv
<1>1. records # << >> /\ code[Head(records)] = "own" /\ records \in Seq(Hooks)
  BY DEF Unmap, HeadRestored, TypeOK
<1>2. /\ Tail(records) \in Seq(Hooks) /\ Head(records) \in Hooks
      /\ Elements(records) \subseteq Elements(Tail(records)) \cup {Head(records)}
  BY <1>1, TailElements
<1>3. TypeOK'
  BY <1>2 DEF Unmap, TypeOK
<1>4. JumpsLeadSomewhere' /\ HeadRestored'
  BY <1>1, <1>2 DEF Unmap, TypeOK, JumpsLeadSomewhere, HeadRestored
<1>5. BatchHoldsAll'
  BY <1>2 DEF Unmap, TypeOK, BatchHoldsAll, Batch
<1>6. CallsAreSafe'
  BY DEF Unmap, TypeOK, CallsAreSafe, SafeCall, Pointed
<1> QED
  BY <1>3, <1>4, <1>5, <1>6

LEMMA NextInv == Inv /\ [Next]_vars => Inv'
<1> SUFFICES ASSUME Inv, [Next]_vars PROVE Inv'
  OBVIOUS
<1> USE DEF Inv, hooks
<1>1. CASE \E h \in Hooks : Install(h)
  BY <1>1, InstallInv
<1>2. CASE GameStarts
  <2>1. TypeOK'
    BY <1>2 DEF GameStarts, TypeOK
  <2> QED
    BY <1>2, <2>1 DEF GameStarts, JumpsLeadSomewhere, HeadRestored, BatchHoldsAll, Batch, CallsAreSafe, SafeCall, Pointed
<1>3. CASE \E t \in Threads :
             (\E h \in Hooks : Call(t, h)) \/ CallOriginal(t) \/ JumpBack(t) \/ Return(t)
  BY <1>3, ThreadInv
<1>4. CASE BeginRemoval
  <2>1. TypeOK'
    BY <1>4 DEF BeginRemoval, TypeOK
  <2>2. JumpsLeadSomewhere' /\ HeadRestored' /\ BatchHoldsAll'
    BY <1>4 DEF BeginRemoval, JumpsLeadSomewhere, HeadRestored, BatchHoldsAll, Batch
  <2>3. CallsAreSafe'
    BY <1>4 DEF BeginRemoval, TypeOK, CallsAreSafe, SafeCall, Pointed
  <2> QED
    BY <2>1, <2>2, <2>3
<1>5. CASE Restore
  BY <1>5, RestoreInv
<1>6. CASE Unmap
  BY <1>6, UnmapInv
<1>7. CASE AllRestored
  <2>1. TypeOK'
    BY <1>7 DEF AllRestored, TypeOK
  <2> QED
    BY <1>7, <2>1 DEF AllRestored, JumpsLeadSomewhere, HeadRestored, BatchHoldsAll, Batch, CallsAreSafe, SafeCall, Pointed
<1>8. CASE Forget
  <2>1. TypeOK'
    BY <1>8 DEF Forget, TypeOK
  <2>2. JumpsLeadSomewhere' /\ HeadRestored' /\ BatchHoldsAll'
    BY <1>8 DEF Forget, JumpsLeadSomewhere, HeadRestored, BatchHoldsAll, Batch
  <2>3. CallsAreSafe'
    BY <1>8 DEF Forget, TypeOK, CallsAreSafe, SafeCall, Pointed
  <2> QED
    BY <2>1, <2>2, <2>3
<1>9. CASE UNCHANGED vars
  BY <1>9 DEF vars, TypeOK, JumpsLeadSomewhere, HeadRestored, BatchHoldsAll, Batch, CallsAreSafe, SafeCall, Pointed
<1> QED
  BY <1>1, <1>2, <1>3, <1>4, <1>5, <1>6, <1>7, <1>8, <1>9 DEF Next

-----------------------------------------------------------------------------
(* InlineHook's type invariant, and with it: a replacement that has a pointer got
   it with a trampoline. *)
THEOREM TypeCorrect == Spec => []TypeOK
<1>1. Inv => TypeOK
  BY DEF Inv
<1> QED
  BY <1>1, InitInv, NextInv, PTL DEF Spec

(* A function of the game is never patched while its trampoline is gone, whatever
   restores fail and whenever the game's threads call. *)
THEOREM NoJumpIntoNothing == Spec => []JumpsLeadSomewhere
<1>1. Inv => JumpsLeadSomewhere
  BY DEF Inv
<1> QED
  BY <1>1, InitInv, NextInv, PTL DEF Spec

(* Where pages can be written back the mod leaves the game's code as it found it,
   and no trampoline behind. *)
THEOREM AllIsPutBack == Spec => []PutBack
<1>1. Inv => PutBack
  <2> SUFFICES ASSUME Inv, phase = "gone", writable, NEW h \in Hooks
               PROVE  code[h] = "own" /\ trampoline[h] # "mapped"
    BY DEF PutBack
  <2>1. trampoline[h] # "mapped"
    BY DEF Inv, BatchHoldsAll, Batch, Elements
  <2> QED
    BY <2>1 DEF Inv, TypeOK, JumpsLeadSomewhere
<1> QED
  BY <1>1, InitInv, NextInv, PTL DEF Spec

(* A call of a hooked function finds the trampoline it goes on into for as long as
   the mod runs; and until the mod is gone, whatever restores fail, no call is
   skipped, and afterwards only one whose pointer removeHooks() clears. *)
THEOREM CallsReachTheGame == Spec => []CallsGoThrough
<1>1. Inv => CallsGoThrough
  BY DEF Inv, TypeOK, CallsGoThrough, CallsAreSafe, SafeCall
<1> QED
  BY <1>1, InitInv, NextInv, PTL DEF Spec
=============================================================================
