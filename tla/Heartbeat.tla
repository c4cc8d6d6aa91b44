----------------------------- MODULE Heartbeat ------------------------------
(***************************************************************************)
(* The mod at run time, as one heartbeat drives it: tick::pump() from the  *)
(* fallback timer or from the game thread, the damage hook, the captured   *)
(* GameActivity, the player's keyboard and shutdown.  Handlers are atomic  *)
(* here, which is what they are when everything runs on the game thread;   *)
(* what two threads can do to each other is the subject of TickThreads     *)
(* and SequenceRaces.                                                      *)
(***************************************************************************)
EXTENDS AutoJumpReset

CONSTANTS
  Configs,        \* what jpr.json can say: the settings a reload may bring
  PlayerKeys,     \* keys the player's own fingers use
  Activities,     \* callbacks tables GameActivity_onCreate may come back with
  FrameCallback,  \* the launcher publishes game_window_add_swap_buffers_callback
  GameTickHook,   \* the signature file's game_tick resolved and got hooked
  MaxLag,         \* bound: how long a pump takes from reading the clock to its last flush
  MaxPending      \* bound: what may be pending for a key out of reach of the game

ASSUME ConfigsAssumption == Configs \subseteq Settings
ASSUME WorldAssumption == /\ PlayerKeys \subseteq Keys
                          /\ Activities \subseteq Callbacks
                          /\ FrameCallback \in BOOLEAN
                          /\ GameTickHook \in BOOLEAN
ASSUME BoundsAssumption == MaxLag \in Nat /\ MaxPending \in Nat

VARIABLES
  settings,   \* the fields settings() binds
  seq,        \* the module's sequence fields
  kb,         \* the key queue and what the game was told
  source,     \* gGameThreadSource: who pumps
  running,    \* false once shutdown() ran
  downFor     \* history: time since a press last reached the game, up to MaxAge

vars == <<settings, seq, kb, source, running, downFor>>

World == [seq |-> seq, kb |-> kb]
Becomes(w) == seq' = w.seq /\ kb' = w.kb

Init ==
  /\ settings \in Configs
  /\ seq = InitialSequence
  /\ kb = InitialKeyboard(settings.mode)
  /\ source = IF GameTickHook THEN "game" ELSE "timer"
  /\ running = TRUE
  /\ downFor = 0

(* Fault: the game thread too leaves its input for the next tick. *)
PumpedOnce(old, new, w, late, onGameThread) ==
  LET configured == OnConfigured(old, new, [w EXCEPT !.kb = NewPump(@)])
      ticked     == OnTick(new, [configured EXCEPT !.kb = Flush(@)], late)
  IN  {Elapsed(v, late) : v \in ticked}

(* One pump: reload when the file changed, hand over what the last tick
   queued, tick the modules and, on the game thread, hand over again.  All of it
   goes by the clock as read at the start, late before the input is out. *)
Pumped(old, new, w, late, onGameThread) ==
  LET configured == OnConfigured(old, new, [w EXCEPT !.kb = NewPump(@)])
      ticked     == OnTick(new, [configured EXCEPT !.kb = Flush(@)], late)
  IN  {Elapsed(IF onGameThread THEN [v EXCEPT !.kb = Flush(@)] ELSE v, late) : v \in ticked}

HasPress(batch) == \E i \in DOMAIN batch : batch[i]

(* Nothing in the code bounds what is pending while the game cannot be reached; here
   MaxPending does, by stopping the ticks until it can. *)
MayPump == Ready(kb) \/ \A k \in Keys : Len(kb.pending[k]) <= MaxPending

Pump(onGameThread) ==
  /\ MayPump
  /\ \E new \in Configs, late \in 0..MaxLag :
       /\ \E w \in Pumped(settings, new, World, late, onGameThread) : Becomes(w)
       /\ settings' = new
       /\ downFor' = IF \E k \in Keys : HasPress(kb'.sent[k]) THEN 0
                     ELSE AtMost(downFor + late, MaxAge)

TimerPump ==
  /\ running /\ source = "timer"
  /\ Pump(FALSE)
  /\ UNCHANGED <<source, running>>

(* onSwapBuffers() is never unregistered; removeHooks() takes gameTickHook
   away. *)
GamePump ==
  /\ FrameCallback \/ (GameTickHook /\ running)
  /\ Pump(TRUE)
  /\ source' = "game"
  /\ UNCHANGED running

Hurt ==
  /\ running
  /\ \E w \in OnLocalPlayerHurt(settings, World, 0) : Becomes(w)
  /\ UNCHANGED <<settings, source, running, downFor>>

OnCreate ==
  /\ Backend = "GameActivity"
  /\ \E callbacks \in Activities : kb' = Captured(kb, callbacks)
  /\ UNCHANGED <<settings, seq, source, running, downFor>>

PlayerKey ==
  /\ \E k \in PlayerKeys, down \in BOOLEAN : kb' = Touched(kb, k, down)
  /\ UNCHANGED <<settings, seq, source, running, downFor>>

(* tick::stop() and keyboard::releaseAll(), then removeHooks(). *)
Shutdown ==
  /\ running
  /\ running' = FALSE
  /\ kb' = ReleaseAll(NewPump(kb))
  /\ UNCHANGED <<settings, seq, source, downFor>>

Elapse ==
  /\ Becomes(Elapsed(World, 1))
  /\ downFor' = AtMost(downFor + 1, MaxAge)
  /\ UNCHANGED <<settings, source, running>>

Next == \/ TimerPump \/ GamePump \/ Hurt \/ OnCreate
        \/ PlayerKey \/ Shutdown \/ Elapse

Spec == Init /\ [][Next]_vars

(* The timer thread keeps looping until it stands down, the game keeps
   rendering once it began, and time goes by. *)
Fairness == /\ WF_vars(TimerPump)
            /\ WF_vars(GamePump /\ source = "game")
            /\ WF_vars(Elapse)

-----------------------------------------------------------------------------
(* Type invariant: in particular pressesLeft_ never goes below zero, and no
   deadline or bound of the model is overrun. *)
TypeOK ==
  /\ settings \in Configs
  /\ seq \in SequenceState
  /\ kb \in KeyboardState
  /\ source \in {"timer", "game"}
  /\ running \in BOOLEAN
  /\ downFor \in 0..MaxAge

ModKeys == Keys \ PlayerKeys

(* gHeld says a key is down only while the sequence that pressed it is still
   holding it: every way out of a hold (its end, a new hit, a reload that
   disables the module, changes the key or the inject mode) lets go. *)
HeldBySequence ==
  \A k \in Keys : kb.held[k] => seq.active /\ seq.holding /\ seq.heldKey = k

(* Whatever was pressed, aborted, reloaded or flushed, the game ends up seeing
   each key of the mod where gHeld says it is. *)
GameAgrees == \A k \in ModKeys : Agrees(kb, k)

(* A key no finger is on is down in the game only while the sequence holds it
   or its release is already in the queue. *)
NoStuckKey ==
  \A k \in ModKeys :
    GameSees(kb, k) /\ kb.pending[k] = << >>
      => seq.active /\ seq.holding /\ seq.heldKey = k

(* tick.cpp: "a press and its release never collapse into the same frame". *)
NoCollapse ==
  \A k \in Keys : \A i, j \in DOMAIN kb.sent[k] :
    i < j /\ kb.sent[k][i] => kb.sent[k][j]

(* With cancel_on_new_hit off nothing arms the cooldown while a sequence runs,
   so the cooldown a sequence ends with is always the full one. *)
CooldownStartsAtTheEnd == seq.active => seq.cooldownIn = 0

(* mod_main.cpp stops the ticks, lets go and only then removes the hooks: if the
   game can be reached at all, it sees every key of the mod up afterwards. *)
ShutdownLetsGo ==
  [][running /\ ~running' /\ Ready(kb) => \A k \in ModKeys : ~GameSees(kb', k)]_vars

(* hold_ms, "how long the key stays held", as far as it goes: the hold runs from
   the reading of the clock and the press goes out at the end of that pump.  While
   the mod runs, its settings are left alone and no hit may cut in, the pump that
   lets the key up in the game began when it had been down there for the shortest
   hold of the config, less at most what one pump takes. *)
HoldHonoured ==
  [][running' /\ settings' = settings => \A k \in ModKeys :
       GameSees(kb, k) /\ ~GameSees(kb', k) => downFor + MaxLag >= settings.hold.min]_vars

(* Every sequence ends (or the mod does). *)
SequenceEnds == (running /\ seq.active) ~> ~(running /\ seq.active)
=============================================================================
