---------------------------- MODULE TickThreads -----------------------------
(***************************************************************************)
(* The two tick sources and shutdown as threads: the timer thread of       *)
(* tick.cpp, the game thread entering through the frame callback or the    *)
(* game_tick hook, and the thread that runs stop().  flush() is split the  *)
(* way gMutex splits it: ask whether the game can be reached, take the     *)
(* batch under the lock, hand it over transition by transition outside it. *)
(* One key stands for all, and what a tick asks of it is arbitrary: any    *)
(* module may be behind it.                                                *)
(***************************************************************************)
EXTENDS Naturals, Sequences

CONSTANTS
  Worlds,      \* what may differ from one start to the next: [frameCallback: the
               \* launcher offers the per-frame callback, gameTickHook: game_tick got
               \* hooked, and marked the source, before start(), stops: it shuts down,
               \* reach: how the game is reached]
  MaxPending   \* bound: from here on the mod queues nothing while the game is out of reach

(* By exported objects, always there; by an activity that is captured some time, or
   never, and then kept; by one that may be lost again. *)
Reaches == {"exported", "kept", "fickle"}

ASSUME WorldsAssumption ==
  Worlds \subseteq [frameCallback: BOOLEAN, gameTickHook: BOOLEAN, stops: BOOLEAN,
                   reach: Reaches]
ASSUME PendingAssumption == MaxPending \in Nat

VARIABLES
  world,      \* this start's
  running,    \* gRunning
  source,     \* gGameThreadSource
  frameLive,  \* gFrameLive
  ready,      \* ready(): the objects are there, or gActivity takes key events
  pc,         \* where each thread is
  batch,      \* flush()'s local batch, per thread
  held,       \* gHeld of the key
  pending,    \* gPending of the key
  game        \* what the game last got for it

vars == <<world, running, source, frameLive, ready, pc, batch, held, pending, game>>
queue == <<batch, held, pending, game>>
flags == <<world, running, source, frameLive, ready>>

Threads == {"timer", "game", "stop"}

(* Inside pump(): reload, first flush, tick, second flush. *)
PumpSteps  == {"reload", "flush", "take", "deliver", "poll", "tick",
               "reflush", "retake", "redeliver"}
StopSteps  == {"join", "collect", "release", "flush", "take", "deliver", "down"}
LoopSteps  == {"loop", "test", "sleep", "ended"}
Steps == {"idle", "takeover"} \cup PumpSteps \cup StopSteps \cup LoopSteps

Init ==
  /\ world \in Worlds
  /\ running = TRUE /\ source = world.gameTickHook /\ frameLive = FALSE
  /\ ready = (world.reach = "exported")
  /\ pc = [t \in Threads |-> IF t = "timer" THEN "loop" ELSE "idle"]
  /\ batch = [t \in Threads |-> << >>]
  /\ held = FALSE /\ pending = << >> /\ game = FALSE

Goto(t, from, to) == pc[t] = from /\ pc' = [pc EXCEPT ![t] = to]

(* queue(): under gMutex, and only when it changes something. *)
Queue(down) ==
  IF held = down THEN UNCHANGED <<held, pending>>
  ELSE held' = down /\ pending' = Append(pending, down)

(* Nothing in the code bounds what is pending while the game is out of reach; here
   the mod asks for nothing more at MaxPending. *)
Room == world.reach = "exported" \/ Len(pending) < MaxPending

Ask(down) == (held # down => Room) /\ Queue(down)

-----------------------------------------------------------------------------
(* flush(): nothing is taken while the game is out of reach... *)
TestReady(t, from, take, done) ==
  /\ Goto(t, from, IF ready THEN take ELSE done)
  /\ UNCHANGED <<queue, flags>>

(* ...else batch.swap(gPending) under the lock... *)

(* Fault: the batch is a copy and gPending keeps its content. *)
TakeACopy(t, from, to) ==
  /\ Goto(t, from, to)
  /\ batch' = [batch EXCEPT ![t] = pending]
  /\ UNCHANGED <<held, pending, game, flags>>

(* Fault: gPending is cleared before it was taken. *)
TakeNothing(t, from, to) ==
  /\ Goto(t, from, to)
  /\ pending' = << >>
  /\ UNCHANGED <<batch, held, game, flags>>

TakeBatch(t, from, to) ==
  /\ Goto(t, from, to)
  /\ batch' = [batch EXCEPT ![t] = pending]
  /\ pending' = << >>
  /\ UNCHANGED <<held, game, flags>>

(* ...then one transition after the other, with no lock.  send() asks once more and
   drops what an activity lost in the meantime cannot take. *)
DeliverOne(t, at) ==
  /\ pc[t] = at /\ batch[t] # << >>
  /\ game' = IF ready THEN Head(batch[t]) ELSE game
  /\ batch' = [batch EXCEPT ![t] = Tail(@)]
  /\ UNCHANGED <<pc, held, pending, flags>>

Delivered(t, from, to) ==
  /\ batch[t] = << >>
  /\ Goto(t, from, to)
  /\ UNCHANGED <<queue, flags>>

Flush(t, from, take, give, done) ==
  \/ TestReady(t, from, take, done)
  \/ TakeBatch(t, take, give)
  \/ DeliverOne(t, give)
  \/ Delivered(t, give, done)

(* A step of thread t that may queue one transition. *)
Asking(t, from, to, downs) ==
  /\ Goto(t, from, to)
  /\ (\E down \in downs : Ask(down)) \/ UNCHANGED <<held, pending>>
  /\ UNCHANGED <<batch, game, flags>>

(* A reload that changes the mode or the key, or disables the module, lets
   the key go (setInjectMode(), abortSequence()); the flush of setInjectMode()'s
   releaseAll() is left to the one that follows. *)
Reload(t) == Asking(t, "reload", "flush", {FALSE})

(* onTick(): a hit made up by pollDebugKey() may abort a hold... *)
Poll(t) == Asking(t, "poll", "tick", {FALSE})

(* ...and then, in the same tick, the sequence presses or releases. *)
Tick(t, next) == Asking(t, "tick", next, BOOLEAN)

(* pump(): thread t from its first step to where it goes when it is done.
   Only the game thread flushes again after the tick. *)
PumpStep(t, done) ==
  \/ Reload(t)
  \/ Flush(t, "flush", "take", "deliver", "poll")
  \/ Poll(t)
  \/ Tick(t, IF t = "game" THEN "reflush" ELSE done)
  \/ Flush(t, "reflush", "retake", "redeliver", done)

-----------------------------------------------------------------------------
(* Fault: a game thread source does not make the timer stand down. *)
TestIgnoringSource ==
  /\ Goto("timer", "test", "reload")
  /\ UNCHANGED <<queue, flags>>

(* timerLoop(): gRunning, then the source, then the pump, each read apart. *)
TestRunning ==
  /\ Goto("timer", "loop", IF running THEN "test" ELSE "ended")
  /\ UNCHANGED <<queue, flags>>

TestSource ==
  /\ Goto("timer", "test", IF source THEN "sleep" ELSE "reload")
  /\ UNCHANGED <<queue, flags>>

(* wait_for(): the interval, or stop()'s notify, whichever is first. *)
Wake ==
  /\ Goto("timer", "sleep", "loop")
  /\ UNCHANGED <<queue, flags>>

Timer == TestRunning \/ TestSource \/ Wake \/ PumpStep("timer", "sleep")

(* onSwapBuffers(): the first frame takes the ticking over. *)
Frame ==
  /\ world.frameCallback
  /\ Goto("game", "idle", IF frameLive THEN "reload" ELSE "takeover")
  /\ frameLive' = TRUE
  /\ UNCHANGED <<world, running, source, ready, queue>>

TakeOver ==
  /\ Goto("game", "takeover", "reload")
  /\ source' = TRUE
  /\ UNCHANGED <<world, running, frameLive, ready, queue>>

GameTick ==
  /\ world.gameTickHook
  /\ Goto("game", "idle", "reload")
  /\ UNCHANGED <<flags, queue>>

(* The damage hook, on the game thread: a hit may abort a hold. *)
Hurt ==
  /\ pc["game"] = "idle"
  /\ Ask(FALSE)
  /\ UNCHANGED <<pc, batch, game, flags>>

(* onCreateHook(), on the thread the launcher starts the activity from. *)
OnCreate ==
  /\ world.reach = "kept" => ~ready
  /\ world.reach # "exported"
  /\ ready' = ~ready
  /\ UNCHANGED <<world, running, source, frameLive, pc, queue>>

GameThread == Frame \/ TakeOver \/ GameTick \/ PumpStep("game", "idle")

(* Fault: the timer is waited for without being told. *)
StopUntold ==
  /\ world.stops /\ Goto("stop", "idle", "join")
  /\ UNCHANGED <<flags, queue>>

(* stop(): clear the flag and notify, join the timer, releaseAll(). *)
StopBegins ==
  /\ world.stops /\ Goto("stop", "idle", "join")
  /\ running' = FALSE
  /\ UNCHANGED <<world, source, frameLive, ready, queue>>

Join ==
  /\ pc["timer"] = "ended"
  /\ Goto("stop", "join", "collect")
  /\ UNCHANGED <<flags, queue>>

(* releaseAll(): a scan under the lock, then a release of what it found. *)
Collect ==
  /\ Goto("stop", "collect", IF held THEN "release" ELSE "flush")
  /\ UNCHANGED <<flags, queue>>

ReleaseHeld ==
  /\ Goto("stop", "release", "flush")
  /\ Queue(FALSE)
  /\ UNCHANGED <<batch, game, flags>>

Stop ==
  \/ StopBegins \/ Join \/ Collect \/ ReleaseHeld
  \/ Flush("stop", "flush", "take", "deliver", "down")

Next == Timer \/ GameThread \/ Hurt \/ OnCreate \/ Stop

Spec == Init /\ [][Next]_vars

(* Each thread that is in the middle of something goes on; frames, hits and
   activities need never come. *)
Fairness == /\ WF_vars(Timer)
            /\ WF_vars(PumpStep("game", "idle") \/ TakeOver)
            /\ WF_vars(Stop /\ pc["stop"] # "idle")

FairSpec == Spec /\ Fairness

-----------------------------------------------------------------------------
(* The frame callback appears under a running timer: tick.cpp would have the
   timer stop pumping "rather than dispatching from both, which would race the
   game thread over the key queue", but tests the source before it pumps. *)
TakenOver == world.frameCallback /\ ~world.gameTickHook

(* Frames go on while stop() lets go: nothing stands the game thread down. *)
StoppedUnderFrames == world.stops /\ (world.frameCallback \/ world.gameTickHook)

OneHanded == ~TakenOver /\ ~StoppedUnderFrames

(* Type invariant; where one thread at a time hands over and the game is always in
   reach gPending stays short, because whoever queues a press flushes before it queues
   the next.  Out of reach it grows with every press and release (MaxPending is the
   model's, not the code's). *)
TypeOK ==
  /\ world \in Worlds
  /\ running \in BOOLEAN /\ source \in BOOLEAN /\ frameLive \in BOOLEAN
  /\ ready \in BOOLEAN
  /\ pc \in [Threads -> Steps]
  /\ batch \in [Threads -> Seq(BOOLEAN)]
  /\ held \in BOOLEAN /\ game \in BOOLEAN
  /\ pending \in Seq(BOOLEAN)
  /\ OneHanded /\ world.reach = "exported" => Len(pending) <= 3

Pumping(t) == pc[t] \in PumpSteps

(* The three batches and gPending line up as one channel: no transition is lost
   or handed over twice, but to an activity that is gone when its turn comes, and
   none out of order where one thread at a time hands over. *)
Channel == INSTANCE KeyChannel WITH
             oneHand <- OneHanded,
             heard <- ready,
             underway <- batch["timer"] \o batch["game"] \o batch["stop"] \o pending

InOrder == Channel!Spec

(* No thread has anything in hand. *)
Resting == pending = << >> /\ \A t \in Threads : batch[t] = << >>

(* tick.cpp: the timer is to stop pumping "rather than dispatching from both,
   which would race the game thread over the key queue": a takeover leaves no
   key down either. *)
NothingLeftDown == Resting => game = held

(* stop() returns whoever else pumps; and where no frames do, and an activity once
   captured is kept, it leaves the key up in the game for good. *)
StopReturns ==
  pc["stop"] = "join" ~>
    [](pc["stop"] = "down" /\ (OneHanded /\ world.reach # "fickle" => ~game))

(* The timer stands down for good once the game thread took over. *)
TimerStandsDown == source ~> [](~Pumping("timer"))
=============================================================================
