------------------------- MODULE TickThreadsProofs --------------------------
(***************************************************************************)
(* Three threads and a mutex that covers half a flush still are one        *)
(* channel, for any ticks, hits and shutdowns, as long as one source ticks *)
(* from the start: at any moment one thread at most has a batch in hand,   *)
(* so that what is in its hand and what is pending line up in the order it *)
(* was asked for.                                                          *)
(***************************************************************************)
EXTENDS TickThreads, SequenceTheorems, TLAPS

(* The frame callback comes with game_tick, not under a running timer; and who
   ticks on the game thread does not shut down. *)
OneSource == \A w \in Worlds : /\ w.frameCallback => w.gameTickHook
                               /\ w.gameTickHook => ~w.stops

(* Once the game can be reached it stays so. *)
Kept == \A w \in Worlds : w.reach # "fickle"

Typed ==
  /\ world \in Worlds /\ running \in BOOLEAN /\ frameLive \in BOOLEAN /\ ready \in BOOLEAN
  /\ pc \in [Threads -> Steps]
  /\ batch \in [Threads -> Seq(BOOLEAN)]
  /\ held \in BOOLEAN /\ game \in BOOLEAN
  /\ pending \in Seq(BOOLEAN)

(* Who may be where. *)
Apart ==
  /\ source = world.gameTickHook
  /\ ~world.gameTickHook => pc["game"] = "idle"
  /\ pc["timer"] \in PumpSteps => ~world.gameTickHook
  /\ pc["stop"] # "idle" => world.stops
  /\ pc["stop"] \notin {"idle", "join"} => pc["timer"] = "ended"

(* Only a thread between taking its batch and going on has one. *)
InHand == \A t \in Threads : pc[t] \notin {"deliver", "redeliver"} => batch[t] = << >>

OneHand == Typed /\ Apart /\ InHand

Underway(b, p) == b["timer"] \o b["game"] \o b["stop"] \o p

-----------------------------------------------------------------------------
(* Sequences. *)

LEMMA OthersEmpty ==
  ASSUME NEW b \in [Threads -> Seq(BOOLEAN)], NEW p \in Seq(BOOLEAN), NEW t \in Threads,
         \A u \in Threads \ {t} : b[u] = << >>
  PROVE  Underway(b, p) = b[t] \o p
<1>1. /\ b["timer"] \in Seq(BOOLEAN) /\ b["game"] \in Seq(BOOLEAN)
      /\ b["stop"] \in Seq(BOOLEAN) /\ << >> \in Seq(BOOLEAN)
  BY DEF Threads
<1>2. CASE t = "timer"
  <2>1. b["game"] = << >> /\ b["stop"] = << >>
    BY <1>2 DEF Threads
  <2> QED
    BY <1>1, <1>2, <2>1, ConcatEmptySeq DEF Underway
<1>3. CASE t = "game"
  <2>1. b["timer"] = << >> /\ b["stop"] = << >>
    BY <1>3 DEF Threads
  <2> QED
    BY <1>1, <1>3, <2>1, ConcatEmptySeq DEF Underway
<1>4. CASE t = "stop"
  <2>1. b["timer"] = << >> /\ b["game"] = << >>
    BY <1>4 DEF Threads
  <2> QED
    BY <1>1, <1>4, <2>1, ConcatEmptySeq DEF Underway
<1> QED
  BY <1>2, <1>3, <1>4 DEF Threads

LEMMA FromTheFront ==
  ASSUME NEW s \in Seq(BOOLEAN), s # << >>, NEW p \in Seq(BOOLEAN)
  PROVE  /\ s \o p # << >>
         /\ Head(s \o p) = Head(s)
         /\ Tail(s \o p) = Tail(s) \o p
         /\ Head(s) \in BOOLEAN /\ Tail(s) \in Seq(BOOLEAN)
OBVIOUS

LEMMA ToTheBack ==
  ASSUME NEW s \in Seq(BOOLEAN), NEW p \in Seq(BOOLEAN), NEW d \in BOOLEAN
  PROVE  s \o Append(p, d) = Append(s \o p, d)
OBVIOUS

LEMMA UnderwayAppend ==
  ASSUME NEW b \in [Threads -> Seq(BOOLEAN)], NEW p \in Seq(BOOLEAN), NEW d \in BOOLEAN
  PROVE  Underway(b, Append(p, d)) = Append(Underway(b, p), d)
<1>1. b["timer"] \o b["game"] \o b["stop"] \in Seq(BOOLEAN)
  BY DEF Threads
<1> QED
  BY <1>1, ToTheBack DEF Underway

-----------------------------------------------------------------------------
(* The invariant. *)

(* Whoever is about to take a batch, or hands one over, is the only one. *)
LEMMA Alone ==
  ASSUME OneHand, OneSource, NEW t \in Threads,
         pc[t] \in {"take", "deliver", "retake", "redeliver"}
  PROVE  \A u \in Threads \ {t} : batch[u] = << >>
<1>1. world.gameTickHook => ~world.stops
  BY DEF OneHand, Typed, OneSource
<1>2. CASE t = "timer"
  BY <1>1, <1>2 DEF OneHand, Apart, InHand, Threads, PumpSteps
<1>3. CASE t = "game"
  BY <1>1, <1>3 DEF OneHand, Apart, InHand, Threads, PumpSteps
<1>4. CASE t = "stop"
  BY <1>1, <1>4 DEF OneHand, Apart, InHand, Threads, PumpSteps
<1> QED
  BY <1>2, <1>3, <1>4 DEF Threads

LEMMA InitOneHand == Init => OneHand
<1> SUFFICES ASSUME Init PROVE OneHand
  OBVIOUS
<1>1. pc \in [Threads -> Steps]
  <2>1. "loop" \in Steps /\ "idle" \in Steps
    BY DEF Steps, LoopSteps
  <2> QED
    BY <2>1 DEF Init
<1>2. batch \in [Threads -> Seq(BOOLEAN)] /\ pending \in Seq(BOOLEAN)
  BY EmptySeq DEF Init
<1>3. Apart
  BY DEF Init, Apart, Threads, PumpSteps
<1>4. ready \in BOOLEAN
  BY DEF Init
<1> QED
  BY <1>1, <1>2, <1>3, <1>4 DEF Init, Typed, InHand, OneHand

LEMMA QueueTyped ==
  ASSUME Typed, NEW d \in BOOLEAN, Queue(d)
  PROVE  held' \in BOOLEAN /\ pending' \in Seq(BOOLEAN)
<1>1. Append(pending, d) \in Seq(BOOLEAN)
  BY AppendProperties DEF Typed
<1> QED
  BY <1>1 DEF Typed, Queue

LEMMA AskingTyped ==
  ASSUME Typed, NEW t \in Threads, NEW from, NEW to, NEW downs \in SUBSET BOOLEAN,
         Asking(t, from, to, downs)
  PROVE  /\ held' \in BOOLEAN /\ pending' \in Seq(BOOLEAN)
         /\ pc[t] = from /\ pc' = [pc EXCEPT ![t] = to]
         /\ UNCHANGED <<batch, game, flags>>
         /\ (\E down \in downs : Queue(down)) \/ UNCHANGED <<held, pending>>
<1>1. /\ pc[t] = from /\ pc' = [pc EXCEPT ![t] = to]
      /\ UNCHANGED <<batch, game, flags>>
      /\ (\E down \in downs : Queue(down)) \/ UNCHANGED <<held, pending>>
  BY DEF Asking, Goto, Ask
<1>2. held' \in BOOLEAN /\ pending' \in Seq(BOOLEAN)
  BY <1>1, QueueTyped DEF Typed
<1> QED
  BY <1>1, <1>2

(* The steps of a pump, by what they do. *)
LEMMA PumpKinds ==
  ASSUME NEW t \in {"timer", "game"}, NEW done, PumpStep(t, done)
  PROVE  \/ TestReady(t, "flush", "take", "poll") \/ TestReady(t, "reflush", "retake", done)
         \/ TakeBatch(t, "take", "deliver") \/ TakeBatch(t, "retake", "redeliver")
         \/ DeliverOne(t, "deliver") \/ DeliverOne(t, "redeliver")
         \/ Delivered(t, "deliver", "poll") \/ Delivered(t, "redeliver", done)
         \/ Asking(t, "reload", "flush", {FALSE}) \/ Asking(t, "poll", "tick", {FALSE})
         \/ Asking(t, "tick", IF t = "game" THEN "reflush" ELSE done, BOOLEAN)
BY DEF PumpStep, Flush, Reload, Poll, Tick

LEMMA StopKinds ==
  ASSUME Stop
  PROVE  \/ StopBegins \/ Join \/ Collect \/ ReleaseHeld
         \/ TestReady("stop", "flush", "take", "down") \/ TakeBatch("stop", "take", "deliver")
         \/ DeliverOne("stop", "deliver") \/ Delivered("stop", "deliver", "down")
BY DEF Stop, Flush

PlaceTyped == /\ pc \in [Threads -> Steps] /\ world \in Worlds /\ running \in BOOLEAN
              /\ frameLive \in BOOLEAN /\ ready \in BOOLEAN

(* Thread t goes on within its pump or leaves it. *)
Moved(t, done) ==
  /\ pc[t] \in PumpSteps /\ UNCHANGED flags
  /\ \E to \in PumpSteps \cup {done} : pc' = [pc EXCEPT ![t] = to]

LEMMA MovedApart ==
  ASSUME Typed, Apart, NEW t \in {"timer", "game"},
         NEW done \in {"sleep", "idle"}, done = (IF t = "timer" THEN "sleep" ELSE "idle"),
         Moved(t, done)
  PROVE  Apart' /\ PlaceTyped'
<1>1. PICK to \in PumpSteps \cup {done} : pc' = [pc EXCEPT ![t] = to]
  BY DEF Moved
<1>2. t \in Threads /\ UNCHANGED flags /\ pc[t] \in PumpSteps
  BY DEF Moved, Threads
<1>3. PlaceTyped'
  BY <1>1, <1>2 DEF Typed, PlaceTyped, flags, Steps, LoopSteps
<1>4. CASE t = "timer"
  BY <1>1, <1>2, <1>3, <1>4 DEF Apart, Typed, flags, PumpSteps, Threads
<1>5. CASE t = "game"
  BY <1>1, <1>2, <1>3, <1>5 DEF Apart, Typed, flags, PumpSteps, Threads
<1> QED
  BY <1>4, <1>5

(* Where a pump may go, and that whoever leaves a delivery has nothing left. *)
LEMMA PumpOneHand ==
  ASSUME OneHand, OneSource, NEW t \in {"timer", "game"},
         NEW done \in {"sleep", "idle"}, done = (IF t = "timer" THEN "sleep" ELSE "idle"),
         PumpStep(t, done)
  PROVE  OneHand'
<1> USE DEF OneHand
<1>t. t \in Threads /\ {FALSE} \in SUBSET BOOLEAN /\ BOOLEAN \in SUBSET BOOLEAN
  BY DEF Threads
<1>a. CASE \/ Asking(t, "reload", "flush", {FALSE}) \/ Asking(t, "poll", "tick", {FALSE})
           \/ Asking(t, "tick", IF t = "game" THEN "reflush" ELSE done, BOOLEAN)
  <2>1. PICK from \in {"reload", "poll", "tick"}, to \in PumpSteps \cup {done},
             downs \in SUBSET BOOLEAN : Asking(t, from, to, downs)
    BY <1>a, <1>t DEF PumpSteps
  <2>2. /\ held' \in BOOLEAN /\ pending' \in Seq(BOOLEAN)
        /\ pc[t] = from /\ pc' = [pc EXCEPT ![t] = to]
        /\ UNCHANGED <<batch, game, flags>>
    BY <1>t, <2>1, AskingTyped
  <2>3. Moved(t, done) /\ batch[t] = << >>
    BY <1>t, <2>2 DEF Moved, PumpSteps, InHand
  <2>4. Apart' /\ PlaceTyped'
    BY <2>3, MovedApart
  <2> QED
    BY <1>t, <2>2, <2>3, <2>4 DEF Typed, InHand, PlaceTyped
<1>b. CASE TestReady(t, "flush", "take", "poll") \/ TestReady(t, "reflush", "retake", done)
  <2>1. PICK to \in (PumpSteps \ {"deliver", "redeliver"}) \cup {done} :
          pc[t] \in {"flush", "reflush"} /\ pc' = [pc EXCEPT ![t] = to]
          /\ UNCHANGED <<queue, flags>>
    BY <1>b DEF TestReady, Goto, PumpSteps
  <2>2. Moved(t, done) /\ batch[t] = << >>
    BY <1>t, <2>1 DEF Moved, PumpSteps, InHand
  <2>3. Apart' /\ PlaceTyped'
    BY <2>2, MovedApart
  <2> QED
    BY <1>t, <2>1, <2>2, <2>3 DEF Typed, InHand, PlaceTyped, queue
<1>c. CASE TakeBatch(t, "take", "deliver") \/ TakeBatch(t, "retake", "redeliver")
  <2>1. PICK to \in {"deliver", "redeliver"} :
          /\ batch' = [batch EXCEPT ![t] = pending] /\ pending' = << >>
          /\ UNCHANGED <<held, game, flags>>
          /\ pc[t] \in {"take", "retake"} /\ pc' = [pc EXCEPT ![t] = to]
    BY <1>c DEF TakeBatch, Goto
  <2>2. Moved(t, done)
    BY <2>1 DEF Moved, PumpSteps
  <2>3. Apart' /\ PlaceTyped'
    BY <2>2, MovedApart
  <2> QED
    BY <1>t, <2>1, <2>3, EmptySeq DEF Typed, InHand, PlaceTyped
<1>d. CASE DeliverOne(t, "deliver") \/ DeliverOne(t, "redeliver")
  <2>1. /\ game' \in BOOLEAN /\ Tail(batch[t]) \in Seq(BOOLEAN)
        /\ batch' = [batch EXCEPT ![t] = Tail(batch[t])]
        /\ pc[t] \in {"deliver", "redeliver"}
        /\ UNCHANGED <<pc, held, pending, flags>>
    BY <1>d, <1>t, HeadTailProperties DEF DeliverOne, Typed
  <2> QED
    BY <1>t, <2>1 DEF Typed, Apart, InHand, flags
<1>e. CASE Delivered(t, "deliver", "poll") \/ Delivered(t, "redeliver", done)
  <2>1. PICK to \in (PumpSteps \ {"deliver", "redeliver"}) \cup {done} :
          pc[t] \in {"deliver", "redeliver"} /\ pc' = [pc EXCEPT ![t] = to]
          /\ batch[t] = << >> /\ UNCHANGED <<queue, flags>>
    BY <1>e DEF Delivered, Goto, PumpSteps
  <2>2. Moved(t, done)
    BY <2>1 DEF Moved, PumpSteps
  <2>3. Apart' /\ PlaceTyped'
    BY <2>2, MovedApart
  <2> QED
    BY <1>t, <2>1, <2>3 DEF Typed, InHand, PlaceTyped, queue
<1> QED
  BY <1>a, <1>b, <1>c, <1>d, <1>e, PumpKinds

(* The timer's loop and the entries of the game thread hand nothing over. *)
LEMMA EntriesOneHand ==
  ASSUME OneHand, OneSource,
         TestRunning \/ TestSource \/ Wake \/ Frame \/ TakeOver \/ GameTick \/ StopBegins
           \/ Join \/ Collect
  PROVE  OneHand'
<1> USE DEF OneHand
<1>1. /\ UNCHANGED queue /\ world' = world /\ running' \in BOOLEAN
      /\ frameLive' \in BOOLEAN /\ ready' = ready
  BY DEF TestRunning, TestSource, Wake, Frame, TakeOver, GameTick, StopBegins, Join,
         Collect, flags, Typed
<1>2. PICK t \in Threads, to \in Steps :
        /\ pc' = [pc EXCEPT ![t] = to]
        /\ pc[t] \notin {"deliver", "redeliver"} /\ to \notin {"deliver", "redeliver"}
  BY DEF TestRunning, TestSource, Wake, Frame, TakeOver, GameTick, StopBegins, Join,
         Collect, Goto, Threads, Steps, LoopSteps, PumpSteps, StopSteps
<1>3. Typed'
  BY <1>1, <1>2 DEF Typed, queue
<1>4. InHand'
  BY <1>1, <1>2 DEF InHand, queue, Typed
<1>5. Apart'
  <2>1. CASE TestRunning \/ TestSource \/ Wake
    BY <2>1 DEF TestRunning, TestSource, Wake, Goto, Apart, Typed, PumpSteps, Threads, flags
  <2>2. CASE Frame \/ TakeOver \/ GameTick
    <3>1. pc["game"] \in {"takeover"} \/ world.frameCallback \/ world.gameTickHook
      BY <2>2 DEF Frame, TakeOver, GameTick, Goto
    <3>2. world.gameTickHook
      BY <3>1 DEF Typed, OneSource, Apart
    <3>3. pc'["timer"] = pc["timer"] /\ pc'["stop"] = pc["stop"]
      BY <2>2 DEF Frame, TakeOver, GameTick, Goto, Typed, Threads
    <3>4. source' = source \/ source' = TRUE
      BY <2>2 DEF Frame, TakeOver, GameTick, flags
    <3>5. world.gameTickHook = TRUE
      BY <3>2, WorldsAssumption DEF Typed
    <3> QED
      BY <1>1, <3>3, <3>4, <3>5 DEF Apart
  <2>3. CASE StopBegins \/ Join \/ Collect
    BY <2>3 DEF StopBegins, Join, Collect, Goto, Apart, Typed, PumpSteps, Threads, flags
  <2> QED
    BY <2>1, <2>2, <2>3
<1> QED
  BY <1>3, <1>4, <1>5

LEMMA StopOneHand ==
  ASSUME OneHand, OneSource, Stop
  PROVE  OneHand'
<1> USE DEF OneHand
<1>1. CASE StopBegins \/ Join \/ Collect
  BY <1>1, EntriesOneHand
<1>2. CASE ReleaseHeld
  <2>1. /\ held' \in BOOLEAN /\ pending' \in Seq(BOOLEAN)
        /\ pc["stop"] = "release" /\ pc' = [pc EXCEPT !["stop"] = "flush"]
        /\ UNCHANGED <<batch, game, flags>>
    BY <1>2, QueueTyped DEF ReleaseHeld, Goto
  <2>2. Typed'
    BY <2>1 DEF Typed, flags, Steps, StopSteps
  <2> QED
    BY <2>1, <2>2 DEF Typed, Apart, InHand, flags, Threads
<1>3. CASE TakeBatch("stop", "take", "deliver")
  <2>1. /\ pc["stop"] = "take" /\ pc' = [pc EXCEPT !["stop"] = "deliver"]
        /\ batch' = [batch EXCEPT !["stop"] = pending] /\ pending' = << >>
        /\ UNCHANGED <<held, game, flags>>
    BY <1>3 DEF TakeBatch, Goto
  <2>2. Typed'
    BY <2>1, EmptySeq DEF Typed, flags, Steps, StopSteps
  <2> QED
    BY <2>1, <2>2 DEF Typed, Apart, InHand, flags, Threads
<1>4. CASE DeliverOne("stop", "deliver")
  <2>1. /\ pc["stop"] = "deliver" /\ batch' = [batch EXCEPT !["stop"] = Tail(batch["stop"])]
        /\ game' \in BOOLEAN /\ Tail(batch["stop"]) \in Seq(BOOLEAN)
        /\ UNCHANGED <<pc, held, pending, flags>>
    BY <1>4, HeadTailProperties DEF DeliverOne, Typed, Threads
  <2>2. Typed'
    BY <2>1 DEF Typed, flags
  <2> QED
    BY <2>1, <2>2 DEF Typed, Apart, InHand, flags, Threads
<1>5. CASE Delivered("stop", "deliver", "down")
  <2>1. /\ pc["stop"] = "deliver" /\ pc' = [pc EXCEPT !["stop"] = "down"]
        /\ batch["stop"] = << >> /\ UNCHANGED <<queue, flags>>
    BY <1>5 DEF Delivered, Goto
  <2>2. Typed'
    BY <2>1 DEF Typed, flags, queue, Steps, StopSteps
  <2> QED
    BY <2>1, <2>2 DEF Typed, Apart, InHand, flags, queue, Threads
<1>6. CASE TestReady("stop", "flush", "take", "down")
  <2>1. PICK to \in {"take", "down"} : /\ pc["stop"] = "flush" /\ pc' = [pc EXCEPT !["stop"] = to]
                                       /\ UNCHANGED <<queue, flags>>
    BY <1>6 DEF TestReady, Goto
  <2>2. Typed'
    BY <2>1 DEF Typed, flags, queue, Steps, StopSteps
  <2> QED
    BY <2>1, <2>2 DEF Typed, Apart, InHand, flags, queue, Threads
<1> QED
  BY <1>1, <1>2, <1>3, <1>4, <1>5, <1>6, StopKinds

LEMMA NextOneHand ==
  ASSUME OneHand, OneSource, [Next]_vars
  PROVE  OneHand'
<1>1. CASE Timer
  <2>1. PumpStep("timer", "sleep") => OneHand'
    BY PumpOneHand
  <2> QED
    BY <1>1, <2>1, EntriesOneHand DEF Timer
<1>2. CASE GameThread
  <2>1. PumpStep("game", "idle") => OneHand'
    BY PumpOneHand
  <2> QED
    BY <1>2, <2>1, EntriesOneHand DEF GameThread
<1>3. CASE Hurt
  <2>1. held' \in BOOLEAN /\ pending' \in Seq(BOOLEAN) /\ UNCHANGED <<pc, batch, game, flags>>
    BY <1>3, QueueTyped DEF Hurt, Ask, OneHand
  <2> QED
    BY <2>1 DEF OneHand, Typed, Apart, InHand, flags
<1>4. CASE Stop
  BY <1>4, StopOneHand
<1>5. CASE UNCHANGED vars
  BY <1>5 DEF vars, OneHand, Typed, Apart, InHand
<1>6. CASE OnCreate
  BY <1>6 DEF OnCreate, queue, OneHand, Typed, Apart, InHand
<1> QED
  BY <1>1, <1>2, <1>3, <1>4, <1>5, <1>6 DEF Next

-----------------------------------------------------------------------------
(* The refinement. *)

(* What the channel sees of a step. *)
Seen == <<OneHanded, ready, held, Underway(batch, pending), game>>

LEMMA QueueAsks ==
  ASSUME OneHand, NEW down \in BOOLEAN, Queue(down), UNCHANGED <<world, ready, batch, game>>
  PROVE  Channel!Ask \/ UNCHANGED Seen
<1>1. CASE held = down
  BY <1>1 DEF Queue, Seen, OneHanded, TakenOver, StoppedUnderFrames
<1>2. CASE held # down
  <2>1. held' = ~held /\ held' = down /\ pending' = Append(pending, down)
    BY <1>2 DEF Queue, OneHand, Typed
  <2>2. Underway(batch, pending)' = Append(Underway(batch, pending), down)
    BY <2>1, UnderwayAppend DEF OneHand, Typed, Underway
  <2> QED
    BY <2>1, <2>2 DEF Channel!Ask, Underway, OneHanded, TakenOver, StoppedUnderFrames
<1> QED
  BY <1>1, <1>2

LEMMA TakeIsSilent ==
  ASSUME OneHand, OneSource, NEW t \in Threads, NEW from \in {"take", "retake"}, NEW to,
         TakeBatch(t, from, to)
  PROVE  UNCHANGED Seen
<1>1. \A u \in Threads \ {t} : batch[u] = << >>
  BY Alone DEF TakeBatch, Goto
<1>2. batch[t] = << >>
  BY DEF TakeBatch, Goto, OneHand, InHand
<1>3. /\ batch \in [Threads -> Seq(BOOLEAN)] /\ pending \in Seq(BOOLEAN)
      /\ << >> \in Seq(BOOLEAN)
  BY EmptySeq DEF OneHand, Typed
<1>4. /\ batch' \in [Threads -> Seq(BOOLEAN)] /\ pending' = << >> /\ batch'[t] = pending
      /\ \A u \in Threads \ {t} : batch'[u] = << >>
  BY <1>1, <1>3 DEF TakeBatch
<1>5. Underway(batch, pending) = << >> \o pending
  BY <1>1, <1>2, <1>3, OthersEmpty
<1>6. Underway(batch', << >>) = pending \o << >>
  BY <1>3, <1>4, OthersEmpty
<1>7. Underway(batch, pending)' = Underway(batch, pending)
  BY <1>3, <1>4, <1>5, <1>6, ConcatEmptySeq DEF Underway
<1> QED
  BY <1>7 DEF Seen, TakeBatch, flags, OneHanded, TakenOver, StoppedUnderFrames

LEMMA DeliveryArrives ==
  ASSUME OneHand, OneSource, NEW t \in Threads, NEW at \in {"deliver", "redeliver"},
         DeliverOne(t, at)
  PROVE  Channel!Arrive
<1>1. /\ batch \in [Threads -> Seq(BOOLEAN)] /\ pending \in Seq(BOOLEAN)
      /\ batch[t] \in Seq(BOOLEAN) /\ batch[t] # << >>
  BY DEF OneHand, Typed, DeliverOne
<1>2. \A u \in Threads \ {t} : batch[u] = << >>
  BY Alone DEF DeliverOne
<1>3. /\ batch' \in [Threads -> Seq(BOOLEAN)] /\ batch'[t] = Tail(batch[t])
      /\ \A u \in Threads \ {t} : batch'[u] = << >>
  BY <1>1, <1>2, FromTheFront DEF DeliverOne
<1>4. Underway(batch, pending) = batch[t] \o pending
  BY <1>1, <1>2, OthersEmpty
<1>5. Underway(batch', pending) = Tail(batch[t]) \o pending
  BY <1>1, <1>3, OthersEmpty
<1>6. /\ Underway(batch, pending) # << >>
      /\ Head(Underway(batch, pending)) = Head(batch[t])
      /\ Tail(Underway(batch, pending)) = Underway(batch', pending)
  BY <1>1, <1>4, <1>5, FromTheFront
<1> QED
  BY <1>6 DEF Channel!Arrive, DeliverOne, Underway, flags, OneHanded, TakenOver, StoppedUnderFrames

(* Some thread is at handing over. *)
Delivering == \E t \in Threads : pc[t] \in {"deliver", "redeliver"}

Refined == \/ Channel!Ask
           \/ Channel!Arrive /\ Delivering
           \/ UNCHANGED Seen

LEMMA AskingRefines ==
  ASSUME OneHand, NEW t \in Threads, NEW from, NEW to, NEW downs \in SUBSET BOOLEAN,
         Asking(t, from, to, downs)
  PROVE  Refined
<1>1. /\ UNCHANGED <<world, ready, batch, game>>
      /\ (\E down \in downs : Queue(down)) \/ UNCHANGED <<held, pending>>
  BY AskingTyped DEF flags, OneHand
<1>2. CASE UNCHANGED <<held, pending>>
  BY <1>1, <1>2 DEF Refined, Seen, OneHanded, TakenOver, StoppedUnderFrames
<1>3. CASE \E down \in downs : Queue(down)
  BY <1>1, <1>3, QueueAsks DEF Refined
<1> QED
  BY <1>1, <1>2, <1>3

LEMMA PumpRefines ==
  ASSUME OneHand, OneSource, NEW t \in {"timer", "game"}, NEW done, PumpStep(t, done)
  PROVE  Refined
<1>t. t \in Threads
  BY DEF Threads
<1>1. CASE \/ Asking(t, "reload", "flush", {FALSE}) \/ Asking(t, "poll", "tick", {FALSE})
           \/ Asking(t, "tick", IF t = "game" THEN "reflush" ELSE done, BOOLEAN)
  <2>1. \E from, to : \E downs \in SUBSET BOOLEAN : Asking(t, from, to, downs)
    BY <1>1
  <2> QED
    BY <1>t, <2>1, AskingRefines
<1>2. CASE TakeBatch(t, "take", "deliver") \/ TakeBatch(t, "retake", "redeliver")
  BY <1>t, <1>2, TakeIsSilent DEF Refined
<1>3. CASE DeliverOne(t, "deliver") \/ DeliverOne(t, "redeliver")
  <2>1. Channel!Arrive
    BY <1>t, <1>3, DeliveryArrives
  <2> QED
    BY <1>t, <1>3, <2>1 DEF DeliverOne, Delivering, Refined
<1>4. CASE Delivered(t, "deliver", "poll") \/ Delivered(t, "redeliver", done)
  BY <1>4 DEF Delivered, queue, flags, Refined, Seen, OneHanded, TakenOver, StoppedUnderFrames
<1>5. CASE TestReady(t, "flush", "take", "poll") \/ TestReady(t, "reflush", "retake", done)
  BY <1>5 DEF TestReady, queue, flags, Refined, Seen, OneHanded, TakenOver, StoppedUnderFrames
<1> QED
  BY <1>1, <1>2, <1>3, <1>4, <1>5, PumpKinds

LEMMA EntriesAreSilent ==
  ASSUME TestRunning \/ TestSource \/ Wake \/ Frame \/ TakeOver \/ GameTick \/ StopBegins
           \/ Join \/ Collect \/ UNCHANGED vars
  PROVE  Refined
<1>1. UNCHANGED <<queue, world, ready>>
  BY DEF TestRunning, TestSource, Wake, Frame, TakeOver, GameTick, StopBegins, Join, Collect,
         vars, queue, flags
<1> QED
  BY <1>1 DEF queue, Refined, Seen, OneHanded, TakenOver, StoppedUnderFrames

LEMMA StopRefines ==
  ASSUME OneHand, OneSource, Stop
  PROVE  Refined
<1>t. "stop" \in Threads
  BY DEF Threads
<1>1. CASE StopBegins \/ Join \/ Collect
  BY <1>1, EntriesAreSilent
<1>2. CASE ReleaseHeld
  BY <1>2, QueueAsks DEF ReleaseHeld, flags, Refined
<1>3. CASE TakeBatch("stop", "take", "deliver")
  BY <1>t, <1>3, TakeIsSilent DEF Refined
<1>4. CASE DeliverOne("stop", "deliver")
  <2>1. Channel!Arrive
    BY <1>t, <1>4, DeliveryArrives
  <2> QED
    BY <1>t, <1>4, <2>1 DEF DeliverOne, Delivering, Refined
<1>5. CASE Delivered("stop", "deliver", "down") \/ TestReady("stop", "flush", "take", "down")
  BY <1>5 DEF Delivered, TestReady, queue, flags, Refined, Seen, OneHanded, TakenOver,
              StoppedUnderFrames
<1> QED
  BY <1>1, <1>2, <1>3, <1>4, <1>5, StopKinds

LEMMA NextRefines ==
  ASSUME OneHand, OneSource, [Next]_vars
  PROVE  Refined \/ Channel!Listen
<1>1. CASE Timer
  BY <1>1, PumpRefines, EntriesAreSilent DEF Timer
<1>2. CASE GameThread
  BY <1>2, PumpRefines, EntriesAreSilent DEF GameThread
<1>3. CASE Hurt
  BY <1>3, QueueAsks DEF Hurt, Ask, flags, Refined
<1>4. CASE Stop
  BY <1>4, StopRefines
<1>5. CASE UNCHANGED vars
  BY <1>5, EntriesAreSilent
<1>6. CASE OnCreate
  BY <1>6 DEF OnCreate, Channel!Listen, queue, OneHanded, TakenOver, StoppedUnderFrames
<1> QED
  BY <1>1, <1>2, <1>3, <1>4, <1>5, <1>6 DEF Next

(* The key queue is the channel it should be: where one source ticks from the
   start, every press and release reaches the game once and in the order asked
   for, wherever the threads are between the locks, but what an activity lost in
   between cannot take. *)
THEOREM QueueIsAChannel ==
  ASSUME OneSource
  PROVE  Spec => InOrder
<1>1. Init => Channel!Init
  <2> SUFFICES ASSUME Init PROVE Channel!Init
    OBVIOUS
  <2>1. OneHanded \in BOOLEAN /\ ready \in BOOLEAN
    BY DEF OneHanded, Init
  <2>2. batch["timer"] \o batch["game"] \o batch["stop"] \o pending = << >>
    BY EmptySeq, ConcatEmptySeq DEF Init, Threads
  <2> QED
    BY <2>1, <2>2 DEF Init, Channel!Init
<1>2. OneHand /\ [Next]_vars =>
        [\/ Channel!Ask \/ Channel!Arrive \/ Channel!Listen
         \/ Channel!Overtake \/ Channel!ArriveAnywhere]_(Channel!vars)
  BY NextRefines DEF Channel!vars, Refined, Seen, Underway
<1>3. OneHand /\ [Next]_vars => OneHand'
  BY NextOneHand
<1> QED
  BY <1>1, <1>2, <1>3, InitOneHand, PTL DEF Spec, InOrder, Channel!Spec

-----------------------------------------------------------------------------
(* What the channel ends in. *)

(* What is left underway leads to what the mod asked for last. *)
LeadsHome ==
  LET u == Underway(batch, pending)
  IN IF u = << >> THEN game = held ELSE u[Len(u)] = held

LEMMA UnderwayTyped ==
  ASSUME Typed PROVE Underway(batch, pending) \in Seq(BOOLEAN)
BY DEF Typed, Underway, Threads

LEMMA ChannelLeadsHome ==
  ASSUME Typed, LeadsHome, Delivering => ready, Refined \/ Channel!Listen
  PROVE  LeadsHome'
<1> DEFINE u == Underway(batch, pending)
<1>0. u \in Seq(BOOLEAN)
  BY UnderwayTyped
<1>1. CASE Channel!Ask
  <2>1. u' = Append(u, held')
    BY <1>1 DEF Channel!Ask, Underway
  <2>2. u' # << >> /\ u'[Len(u')] = held'
    BY <1>0, <2>1
  <2> QED
    BY <2>2 DEF LeadsHome
<1>2. CASE Channel!Arrive /\ Delivering
  <2>1. u # << >> /\ u' = Tail(u) /\ game' = Head(u) /\ held' = held
    BY <1>2 DEF Channel!Arrive, Underway
  <2>2. CASE Len(u) = 1
    <3>1. u' = << >> /\ game' = u[1]
      BY <1>0, <2>1, <2>2
    <3> QED
      BY <2>1, <2>2, <3>1 DEF LeadsHome
  <2>3. CASE Len(u) # 1
    <3>1. ASSUME NEW s \in Seq(BOOLEAN), s # << >>, Len(s) # 1
          PROVE  Tail(s) # << >> /\ Tail(s)[Len(Tail(s))] = s[Len(s)]
      <4>0. Len(s) \in Nat \ {0} /\ Len(Tail(s)) = Len(s) - 1
        BY <3>1, EmptySeq, HeadTailProperties
      <4>1. Len(s) \in Nat /\ Len(s) > 1 /\ Len(Tail(s)) = Len(s) - 1
        BY <3>1, <4>0
      <4>2. \A i \in 1 .. Len(Tail(s)) : Tail(s)[i] = s[i + 1]
        BY <3>1, HeadTailProperties
      <4>3. Len(s) - 1 \in 1 .. Len(Tail(s)) /\ (Len(s) - 1) + 1 = Len(s)
        BY <4>1
      <4>4. Tail(s)[Len(s) - 1] = s[Len(s)]
        BY <4>2, <4>3
      <4>5. Tail(s) # << >>
        <5>1. \A t \in Seq(BOOLEAN) : Len(t) > 0 => t # << >>
          OBVIOUS
        <5>2. Tail(s) \in Seq(BOOLEAN) /\ Len(Tail(s)) > 0
          BY <3>1, <4>1, HeadTailProperties
        <5> QED
          BY <5>1, <5>2, Zenon
      <4> QED
        BY <4>1, <4>4, <4>5
    <3>2. u' # << >> /\ u'[Len(u')] = u[Len(u)]
      BY <1>0, <2>1, <2>3, <3>1
    <3> QED
      BY <2>1, <3>2 DEF LeadsHome
  <2> QED
    BY <2>2, <2>3
<1>3. CASE UNCHANGED Seen
  BY <1>3 DEF Seen, LeadsHome
<1>4. CASE Channel!Listen
  BY <1>4 DEF Channel!Listen, LeadsHome, Underway
<1> QED
  BY <1>1, <1>2, <1>3, <1>4 DEF Refined

-----------------------------------------------------------------------------
(* Who hands over found the game in reach, and it still is. *)

Handing == {"take", "deliver", "retake", "redeliver"}

Heard ==
  /\ world.reach = "exported" => ready
  /\ world.reach # "fickle" => \A t \in Threads : pc[t] \in Handing => ready

(* A thread that moves on gets to handing over only from there, or by asking. *)
Onwards ==
  \/ pc' = pc
  \/ \E t \in Threads, to \in Steps :
       /\ pc' = [pc EXCEPT ![t] = to]
       /\ to \in Handing => pc[t] \in Handing \/ ready

LEMMA OnwardsHeard ==
  ASSUME Typed, Heard, Onwards, UNCHANGED <<world, ready>>
  PROVE  Heard'
BY DEF Typed, Heard, Onwards

LEMMA PumpOnwards ==
  ASSUME Typed, NEW t \in {"timer", "game"}, NEW done \in {"sleep", "idle"}, PumpStep(t, done)
  PROVE  Onwards /\ UNCHANGED <<world, ready>>
<1>t. t \in Threads /\ {FALSE} \in SUBSET BOOLEAN /\ BOOLEAN \in SUBSET BOOLEAN
  BY DEF Threads
<1>1. CASE \/ Asking(t, "reload", "flush", {FALSE}) \/ Asking(t, "poll", "tick", {FALSE})
           \/ Asking(t, "tick", IF t = "game" THEN "reflush" ELSE done, BOOLEAN)
  BY <1>1, <1>t DEF Asking, Goto, Onwards, flags, Handing, Steps, PumpSteps, LoopSteps
<1>2. CASE TakeBatch(t, "take", "deliver") \/ TakeBatch(t, "retake", "redeliver")
  BY <1>2, <1>t DEF TakeBatch, Goto, Onwards, flags, Handing, Steps, PumpSteps
<1>3. CASE DeliverOne(t, "deliver") \/ DeliverOne(t, "redeliver")
  BY <1>3 DEF DeliverOne, Onwards, flags
<1>4. CASE Delivered(t, "deliver", "poll") \/ Delivered(t, "redeliver", done)
  BY <1>4, <1>t DEF Delivered, Goto, Onwards, flags, Handing, Steps, PumpSteps, LoopSteps
<1>5. CASE TestReady(t, "flush", "take", "poll") \/ TestReady(t, "reflush", "retake", done)
  BY <1>5, <1>t DEF TestReady, Goto, Onwards, flags, Handing, Steps, PumpSteps, LoopSteps
<1> QED
  BY <1>1, <1>2, <1>3, <1>4, <1>5, PumpKinds

LEMMA StopOnwards ==
  ASSUME Typed, Stop
  PROVE  Onwards /\ UNCHANGED <<world, ready>>
<1>t. "stop" \in Threads
  BY DEF Threads
<1>1. CASE StopBegins \/ Join \/ Collect \/ ReleaseHeld
  BY <1>1, <1>t DEF StopBegins, Join, Collect, ReleaseHeld, Goto, Onwards, flags, Handing, Steps,
                    StopSteps
<1>2. CASE TakeBatch("stop", "take", "deliver")
  BY <1>2, <1>t DEF TakeBatch, Goto, Onwards, flags, Handing, Steps, StopSteps
<1>3. CASE DeliverOne("stop", "deliver")
  BY <1>3 DEF DeliverOne, Onwards, flags
<1>4. CASE Delivered("stop", "deliver", "down") \/ TestReady("stop", "flush", "take", "down")
  BY <1>4, <1>t DEF Delivered, TestReady, Goto, Onwards, flags, Handing, Steps, StopSteps
<1> QED
  BY <1>1, <1>2, <1>3, <1>4, StopKinds

LEMMA NextHeard ==
  ASSUME Typed, Heard, [Next]_vars
  PROVE  Heard'
<1>1. CASE TestRunning \/ TestSource \/ Wake \/ Frame \/ TakeOver \/ GameTick
  <2>1. /\ UNCHANGED <<world, ready>>
        /\ \E t \in Threads, to \in Steps \ Handing : pc' = [pc EXCEPT ![t] = to]
    BY <1>1 DEF TestRunning, TestSource, Wake, Frame, TakeOver, GameTick, Goto, flags, Threads,
                Handing, Steps, PumpSteps, LoopSteps
  <2> QED
    BY <2>1, OnwardsHeard DEF Onwards
<1>2. CASE PumpStep("timer", "sleep") \/ PumpStep("game", "idle")
  BY <1>2, PumpOnwards, OnwardsHeard
<1>3. CASE Hurt
  BY <1>3, OnwardsHeard DEF Hurt, flags, Onwards
<1>4. CASE Stop
  BY <1>4, StopOnwards, OnwardsHeard
<1>5. CASE UNCHANGED vars
  BY <1>5, OnwardsHeard DEF vars, Onwards
<1>6. CASE OnCreate
  <2>1. world.reach # "exported" /\ (world.reach # "fickle" => ready' = TRUE)
    <3>1. world.reach \in Reaches
      BY WorldsAssumption DEF Typed
    <3> QED
      BY <1>6, <3>1 DEF OnCreate, Reaches, Typed
  <2> QED
    BY <1>6, <2>1 DEF OnCreate, Heard
<1> QED
  BY <1>1, <1>2, <1>3, <1>4, <1>5, <1>6 DEF Next, Timer, GameThread

LEMMA InitHeard == Init => Heard
BY DEF Init, Heard, Handing, Threads

(* Where one source ticks from the start, and an activity once captured is kept, no
   key is left down in the game: once nothing is in hand the game has what the mod
   asked for last.  The run that takes the ticking over under a running timer shows
   why it says "one". *)
THEOREM OneSourceLeavesNoKeyDown ==
  ASSUME OneSource, Kept
  PROVE  Spec => []NothingLeftDown
<1>1. Init => LeadsHome
  <2> SUFFICES ASSUME Init PROVE LeadsHome
    OBVIOUS
  <2>1. Underway(batch, pending) = << >>
    BY EmptySeq, ConcatEmptySeq DEF Init, Threads, Underway
  <2> QED
    BY <2>1 DEF Init, LeadsHome
<1>2. OneHand /\ Heard /\ LeadsHome /\ [Next]_vars => LeadsHome'
  <2> SUFFICES ASSUME OneHand, Heard, LeadsHome, [Next]_vars PROVE LeadsHome'
    OBVIOUS
  <2>1. Delivering => ready
    BY DEF Delivering, Heard, Handing, Kept, OneHand, Typed
  <2>2. Refined \/ Channel!Listen
    BY NextRefines
  <2> QED
    BY <2>1, <2>2, ChannelLeadsHome DEF OneHand
<1>3. OneHand /\ LeadsHome => NothingLeftDown
  <2> SUFFICES ASSUME OneHand, LeadsHome, Resting
               PROVE  game = held
    BY DEF NothingLeftDown
  <2>1. Underway(batch, pending) = << >>
    BY EmptySeq, ConcatEmptySeq DEF Resting, Threads, Underway
  <2> QED
    BY <2>1 DEF LeadsHome
<1>4. OneHand /\ [Next]_vars => OneHand'
  BY NextOneHand
<1>5. OneHand /\ Heard /\ [Next]_vars => Heard'
  BY NextHeard DEF OneHand
<1> QED
  BY <1>1, <1>2, <1>3, <1>4, <1>5, InitOneHand, InitHeard, PTL DEF Spec

-----------------------------------------------------------------------------
(* How much can be pending. *)

(* Where the game is always in reach a press is only ever queued behind a release, and
   by a tick, which comes after a flush that took all there was: between the two
   nothing can be pending but a release. *)
Short ==
  /\ held  => pending \in {<< >>, <<TRUE>>, <<FALSE, TRUE>>}
  /\ ~held => pending \in {<< >>, <<FALSE>>, <<TRUE, FALSE>>, <<FALSE, TRUE, FALSE>>}
  /\ \A t \in {"timer", "game"} :
       pc[t] \in {"deliver", "poll", "tick"} => pending \in {<< >>, <<FALSE>>}

Reached == OneHand /\ Heard /\ world.reach = "exported" /\ Short

LEMMA BehindOne ==
  ASSUME NEW e \in BOOLEAN, NEW d \in BOOLEAN
  PROVE  Append(<<e>>, d) = <<e, d>>
<1>1. <<e>> \in Seq(BOOLEAN) /\ <<e,d>> \in Seq(BOOLEAN) /\ Append(<<e>>, d) \in Seq(BOOLEAN)
  OBVIOUS
<1>2. Len(Append(<<e>>, d)) = 2 /\ Append(<<e>>, d)[1] = e /\ Append(<<e>>, d)[2] = d
  OBVIOUS
<1>3. Len(<<e, d>>) = 2 /\ <<e, d>>[1] = e /\ <<e, d>>[2] = d
  OBVIOUS
<1>4. \A i \in 1 .. 2 : i = 1 \/ i = 2
  OBVIOUS
<1>5. \A i \in 1 .. 2 : Append(<<e>>, d)[i] = <<e, d>>[i]
  BY <1>2, <1>3, <1>4
<1>6. \A s, t \in Seq(BOOLEAN) : Len(s) = Len(t) /\ (\A i \in 1 .. Len(s) : s[i] = t[i]) => s = t
  BY SeqEqual
<1>7. \A s, t \in Seq(BOOLEAN) : Len(s) = 2 /\ Len(t) = 2 /\ (\A i \in 1 .. 2 : s[i] = t[i]) => s = t
  BY <1>6
<1> QED
  BY <1>1, <1>2, <1>3, <1>5, <1>7, Zenon

LEMMA BehindTwo ==
  ASSUME NEW c \in BOOLEAN, NEW e \in BOOLEAN, NEW d \in BOOLEAN
  PROVE  Append(<<c, e>>, d) = <<c, e, d>>
<1>1. <<c, e>> \in Seq(BOOLEAN) /\ <<c, e,d>> \in Seq(BOOLEAN) /\ Append(<<c, e>>, d) \in Seq(BOOLEAN)
  OBVIOUS
<1>2. Len(Append(<<c, e>>, d)) = 3 /\ Append(<<c, e>>, d)[1] = c /\ Append(<<c, e>>, d)[2] = e /\ Append(<<c, e>>, d)[3] = d
  OBVIOUS
<1>3. Len(<<c, e, d>>) = 3 /\ <<c, e, d>>[1] = c /\ <<c, e, d>>[2] = e /\ <<c, e, d>>[3] = d
  OBVIOUS
<1>4. \A i \in 1 .. 3 : i = 1 \/ i = 2 \/ i = 3
  OBVIOUS
<1>5. \A i \in 1 .. 3 : Append(<<c, e>>, d)[i] = <<c, e, d>>[i]
  BY <1>2, <1>3, <1>4
<1>6. \A s, t \in Seq(BOOLEAN) : Len(s) = Len(t) /\ (\A i \in 1 .. Len(s) : s[i] = t[i]) => s = t
  BY SeqEqual
<1>7. \A s, t \in Seq(BOOLEAN) : Len(s) = 3 /\ Len(t) = 3 /\ (\A i \in 1 .. 3 : s[i] = t[i]) => s = t
  BY <1>6
<1> QED
  BY <1>1, <1>2, <1>3, <1>5, <1>7, Zenon

(* What a tick or a hit makes of what may be pending. *)
LEMMA Behind ==
  /\ Append(<< >>, FALSE) = <<FALSE>> /\ Append(<< >>, TRUE) = <<TRUE>>
  /\ Append(<<TRUE>>, FALSE) = <<TRUE, FALSE>>
  /\ Append(<<FALSE>>, TRUE) = <<FALSE, TRUE>>
  /\ Append(<<FALSE, TRUE>>, FALSE) = <<FALSE, TRUE, FALSE>>
<1>1. Append(<< >>, FALSE) = <<FALSE>> /\ Append(<< >>, TRUE) = <<TRUE>>
  OBVIOUS
<1> QED
  BY <1>1, BehindOne, BehindTwo

(* While the key is held, a release alone cannot be what is pending. *)
LEMMA ReleaseIsNoPress ==
  ASSUME pending \in {<< >>, <<TRUE>>, <<FALSE, TRUE>>}, pending \in {<< >>, <<FALSE>>}
  PROVE  pending = << >>
<1>1. /\ Len(<<FALSE>>) = 1 /\ <<FALSE>>[1] = FALSE /\ Len(<<TRUE>>) = 1 /\ <<TRUE>>[1] = TRUE
      /\ Len(<<FALSE, TRUE>>) = 2
  OBVIOUS
<1>2. <<FALSE>> # <<TRUE>> /\ <<FALSE>> # <<FALSE, TRUE>>
  BY <1>1
<1> QED
  BY <1>2

LEMMA ReleaseStaysShort ==
  ASSUME Typed, Short, Queue(FALSE)
  PROVE  /\ ~held'
         /\ pending' \in {<< >>, <<FALSE>>, <<TRUE, FALSE>>, <<FALSE, TRUE, FALSE>>}
         /\ pending \in {<< >>, <<FALSE>>} => pending' \in {<< >>, <<FALSE>>}
<1>1. CASE ~held
  BY <1>1 DEF Queue, Short, Typed
<1>2. CASE held
  <2>1. ~held' /\ pending' = Append(pending, FALSE)
    BY <1>2 DEF Queue, Typed
  <2>2. pending \in {<< >>, <<TRUE>>, <<FALSE, TRUE>>}
    BY <1>2 DEF Short
  <2>3. pending \in {<< >>, <<FALSE>>} => pending = << >>
    BY <2>2, ReleaseIsNoPress
  <2>4. pending' \in {<<FALSE>>, <<TRUE, FALSE>>, <<FALSE, TRUE, FALSE>>}
    BY <2>1, <2>2, Behind
  <2>5. pending = << >> => pending' = <<FALSE>>
    BY <2>1, Behind
  <2> QED
    BY <2>1, <2>3, <2>4, <2>5
<1> QED
  BY <1>1, <1>2

(* A thread goes on to a step where anything may be pending. *)
LEMMA OnwardsStaysShort ==
  ASSUME Typed, Short, NEW t \in Threads, NEW to, to \notin {"deliver", "poll", "tick"},
         pc' = [pc EXCEPT ![t] = to], UNCHANGED <<held, pending>>
  PROVE  Short'
<1>1. \A u \in {"timer", "game"} : pc'[u] \in {"deliver", "poll", "tick"} => pc[u] = pc'[u]
  BY DEF Typed, Threads
<1>2. \A u \in {"timer", "game"} :
        pc'[u] \in {"deliver", "poll", "tick"} => pending' \in {<< >>, <<FALSE>>}
  BY <1>1 DEF Short
<1> QED
  BY <1>2 DEF Short

LEMMA TakenIsShort ==
  ASSUME pending' = << >>
  PROVE  Short'
BY DEF Short

(* A release, by a thread on its way or by a hit. *)
LEMMA ReleasedStaysShort ==
  ASSUME Typed, Short, Queue(FALSE),
         \A u \in {"timer", "game"} : pc'[u] \in {"deliver", "poll", "tick"} =>
           pc[u] \in {"deliver", "poll", "tick"}
  PROVE  Short'
<1>1. /\ ~held' /\ pending' \in {<< >>, <<FALSE>>, <<TRUE, FALSE>>, <<FALSE, TRUE, FALSE>>}
      /\ pending \in {<< >>, <<FALSE>>} => pending' \in {<< >>, <<FALSE>>}
  BY ReleaseStaysShort
<1> QED
  BY <1>1 DEF Short

LEMMA TickStaysShort ==
  ASSUME Reached, OneSource, NEW t \in {"timer", "game"},
         NEW next \in {"reflush", "sleep", "idle"}, Asking(t, "tick", next, BOOLEAN)
  PROVE  Short'
<1>0. Typed /\ t \in Threads /\ BOOLEAN \in SUBSET BOOLEAN
  BY DEF Reached, OneHand, Threads
<1>1. /\ pc[t] = "tick" /\ pc' = [pc EXCEPT ![t] = next]
      /\ (\E down \in BOOLEAN : Queue(down)) \/ UNCHANGED <<held, pending>>
  BY <1>0, AskingTyped
<1>2. pending \in {<< >>, <<FALSE>>}
  BY <1>1 DEF Reached, Short
<1>3. \A u \in {"timer", "game"} : pc'[u] \notin {"deliver", "poll", "tick"}
  BY <1>0, <1>1 DEF Reached, OneHand, Apart, Typed, PumpSteps, Threads
<1>4. /\ held' => pending' \in {<< >>, <<TRUE>>, <<FALSE, TRUE>>}
      /\ ~held' => pending' \in {<< >>, <<FALSE>>, <<TRUE, FALSE>>, <<FALSE, TRUE, FALSE>>}
  <2>1. CASE UNCHANGED <<held, pending>>
    BY <2>1 DEF Reached, Short
  <2>2. CASE Queue(TRUE)
    <3>1. CASE held
      BY <1>0, <2>2, <3>1 DEF Queue, Reached, Short, Typed
    <3>2. CASE ~held
      <4>1. held' = TRUE /\ pending' = Append(pending, TRUE)
        BY <1>0, <2>2, <3>2 DEF Queue, Typed
      <4>2. pending' \in {<<TRUE>>, <<FALSE, TRUE>>}
        BY <1>2, <4>1, Behind
      <4> QED
        BY <4>1, <4>2
    <3> QED
      BY <3>1, <3>2
  <2>3. CASE Queue(FALSE)
    BY <1>0, <2>3, ReleaseStaysShort DEF Reached
  <2> QED
    BY <1>1, <2>1, <2>2, <2>3
<1> QED
  BY <1>3, <1>4 DEF Short

LEMMA PumpStaysShort ==
  ASSUME Reached, OneSource, NEW t \in {"timer", "game"},
         NEW done \in {"sleep", "idle"}, PumpStep(t, done)
  PROVE  Short'
<1>t. t \in Threads /\ Typed /\ Short /\ {FALSE} \in SUBSET BOOLEAN
  BY DEF Threads, Reached, OneHand
<1>1. CASE Asking(t, "reload", "flush", {FALSE}) \/ Asking(t, "poll", "tick", {FALSE})
  <2>1. /\ \/ pc[t] = "reload" /\ pc' = [pc EXCEPT ![t] = "flush"]
           \/ pc[t] = "poll" /\ pc' = [pc EXCEPT ![t] = "tick"]
        /\ Queue(FALSE) \/ UNCHANGED <<held, pending>>
    BY <1>1 DEF Asking, Goto, Ask
  <2>2. \A u \in {"timer", "game"} : pc'[u] \in {"deliver", "poll", "tick"} =>
          pc[u] \in {"deliver", "poll", "tick"}
    BY <1>t, <2>1 DEF Typed, Threads
  <2>3. CASE UNCHANGED <<held, pending>>
    BY <1>t, <2>2, <2>3 DEF Short
  <2>4. CASE Queue(FALSE)
    BY <1>t, <2>2, <2>4, ReleasedStaysShort
  <2> QED
    BY <2>1, <2>3, <2>4
<1>2. CASE Asking(t, "tick", IF t = "game" THEN "reflush" ELSE done, BOOLEAN)
  BY <1>2, TickStaysShort
<1>3. CASE TakeBatch(t, "take", "deliver") \/ TakeBatch(t, "retake", "redeliver")
  BY <1>3, TakenIsShort DEF TakeBatch
<1>4. CASE DeliverOne(t, "deliver") \/ DeliverOne(t, "redeliver")
  <2>1. UNCHANGED <<pc, held, pending>>
    BY <1>4 DEF DeliverOne
  <2> QED
    BY <1>t, <2>1 DEF Short
<1>5. CASE Delivered(t, "deliver", "poll")
  BY <1>t, <1>5 DEF Delivered, Goto, queue, Short, Typed
<1>6. CASE Delivered(t, "redeliver", done)
  BY <1>t, <1>6, OnwardsStaysShort DEF Delivered, Goto, queue
<1>7. CASE TestReady(t, "flush", "take", "poll") \/ TestReady(t, "reflush", "retake", done)
  <2>1. ready
    BY DEF Reached, Heard
  <2>2. \E to \in {"take", "retake"} : pc' = [pc EXCEPT ![t] = to] /\ UNCHANGED <<held, pending>>
    BY <1>7, <2>1 DEF TestReady, Goto, queue
  <2> QED
    BY <1>t, <2>2, OnwardsStaysShort
<1> QED
  BY <1>1, <1>2, <1>3, <1>4, <1>5, <1>6, <1>7, PumpKinds

LEMMA EntriesStayShort ==
  ASSUME Reached,
         TestRunning \/ TestSource \/ Wake \/ Frame \/ TakeOver \/ GameTick \/ StopBegins
           \/ Join \/ Collect
  PROVE  Short'
<1>1. UNCHANGED queue
  BY DEF TestRunning, TestSource, Wake, Frame, TakeOver, GameTick, StopBegins, Join,
         Collect
<1>2. PICK t \in Threads, to \in Steps \ {"deliver", "poll", "tick"} :
        pc' = [pc EXCEPT ![t] = to]
  BY DEF TestRunning, TestSource, Wake, Frame, TakeOver, GameTick, StopBegins, Join,
         Collect, Goto, Threads, Steps, LoopSteps, PumpSteps, StopSteps
<1> QED
  BY <1>1, <1>2, OnwardsStaysShort DEF Reached, OneHand, queue

LEMMA StopStaysShort ==
  ASSUME Reached, Stop
  PROVE  Short'
<1>t. Typed /\ Short /\ "stop" \in Threads
  BY DEF Reached, OneHand, Threads
<1>1. CASE StopBegins \/ Join \/ Collect
  BY <1>1, EntriesStayShort
<1>2. CASE ReleaseHeld
  <2>1. pc' = [pc EXCEPT !["stop"] = "flush"] /\ Queue(FALSE)
    BY <1>2 DEF ReleaseHeld, Goto
  <2>2. \A u \in {"timer", "game"} : pc'[u] = pc[u]
    BY <1>t, <2>1 DEF Typed, Threads
  <2> QED
    BY <1>t, <2>1, <2>2, ReleasedStaysShort
<1>3. CASE TakeBatch("stop", "take", "deliver")
  BY <1>3, TakenIsShort DEF TakeBatch
<1>4. CASE DeliverOne("stop", "deliver")
  BY <1>t, <1>4 DEF DeliverOne, Short
<1>5. CASE Delivered("stop", "deliver", "down") \/ TestReady("stop", "flush", "take", "down")
  <2>1. \E to \in {"down", "take"} : pc' = [pc EXCEPT !["stop"] = to]
                                   /\ UNCHANGED <<held, pending>>
    BY <1>5 DEF Delivered, TestReady, Goto, queue
  <2> QED
    BY <1>t, <2>1, OnwardsStaysShort
<1> QED
  BY <1>1, <1>2, <1>3, <1>4, <1>5, StopKinds

LEMMA NextStaysShort ==
  ASSUME Reached, OneSource, [Next]_vars
  PROVE  Short'
<1>1. CASE Timer
  BY <1>1, PumpStaysShort, EntriesStayShort DEF Timer
<1>2. CASE GameThread
  BY <1>2, PumpStaysShort, EntriesStayShort DEF GameThread
<1>3. CASE Hurt
  <2>1. pc' = pc /\ Queue(FALSE)
    BY <1>3 DEF Hurt, Ask
  <2> QED
    BY <2>1, ReleasedStaysShort DEF Reached, OneHand
<1>4. CASE Stop
  BY <1>4, StopStaysShort
<1>5. CASE UNCHANGED vars
  BY <1>5 DEF vars, Reached, Short
<1>6. CASE OnCreate
  BY <1>6 DEF OnCreate, Reached
<1> QED
  BY <1>1, <1>2, <1>3, <1>4, <1>5, <1>6 DEF Next

LEMMA WorldStays == [Next]_vars => world' = world
BY DEF Next, Timer, GameThread, Stop, PumpStep, Flush, Reload, Poll, Tick, Asking, TestReady,
       TakeBatch, DeliverOne, Delivered, TestRunning, TestSource, Wake, Frame, TakeOver, GameTick,
       Hurt, OnCreate, StopBegins, Join, Collect, ReleaseHeld, flags, vars

(* Where one source ticks from the start every reachable state is well typed; and while
   the game is in reach never more than a release, a press and a release are pending,
   whenever hits, reloads and shutdowns come between two flushes. *)
THEOREM TypeCorrect ==
  ASSUME OneSource
  PROVE  Spec => []TypeOK
<1> DEFINE ShortInReach == world.reach = "exported" => Short
<1>1. Init => ShortInReach
  BY DEF Init, Short
<1>2. OneHand /\ Heard /\ ShortInReach /\ [Next]_vars => ShortInReach'
  BY NextStaysShort, WorldStays DEF Reached
<1>3. OneHand /\ ShortInReach => TypeOK
  <2> SUFFICES ASSUME OneHand, ShortInReach PROVE TypeOK
    OBVIOUS
  <2>1. world.reach = "exported" => Len(pending) <= 3
    <3>1. ASSUME world.reach = "exported"
          PROVE  pending \in {<< >>, <<TRUE>>, <<FALSE, TRUE>>, <<FALSE>>, <<TRUE, FALSE>>,
                              <<FALSE, TRUE, FALSE>>}
      BY <3>1 DEF Short, OneHand, Typed
    <3>2. /\ Len(<< >>) <= 3 /\ Len(<<TRUE>>) <= 3 /\ Len(<<FALSE, TRUE>>) <= 3
          /\ Len(<<FALSE>>) <= 3 /\ Len(<<TRUE, FALSE>>) <= 3
          /\ Len(<<FALSE, TRUE, FALSE>>) <= 3
      OBVIOUS
    <3> QED
      BY <3>1, <3>2
  <2>2. source \in BOOLEAN
    BY WorldsAssumption DEF OneHand, Typed, Apart
  <2> QED
    BY <2>1, <2>2 DEF OneHand, Typed, TypeOK
<1>4. OneHand /\ [Next]_vars => OneHand'
  BY NextOneHand
<1>5. OneHand /\ Heard /\ [Next]_vars => Heard'
  BY NextHeard DEF OneHand
<1> QED
  BY <1>1, <1>2, <1>3, <1>4, <1>5, InitOneHand, InitHeard, PTL DEF Spec
=============================================================================
