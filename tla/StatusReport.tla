---------------------------- MODULE StatusReport ----------------------------
(***************************************************************************)
(* status.txt: the mod from its entry points on, as Heartbeat says it runs *)
(* once it is up, with the counters of status.cpp and what the file last   *)
(* written says under WHAT TO CHECK.  Of the counters the file's advice    *)
(* only tells nought from more.  The directory takes every write.          *)
(***************************************************************************)
EXTENDS Heartbeat

CONSTANT WriteInterval   \* kWriteIntervalMs

ASSUME WriteIntervalAssumption == WriteInterval \in Nat \ {0}

VARIABLES
  phase,      \* gPhase, "" before mod_preinit and "up" once mod_init returned
  hurts,      \* gHurtEvents is not 0
  queued,     \* gPressesQueued is not 0
  written,    \* gEventsWritten or gStatesWritten is not 0
  sinceWrite, \* time since gLastWrite, up to WriteInterval
  report      \* the file's advice, "missing" while there is no file

counters == <<hurts, queued, written>>
reportVars == <<vars, phase, counters, sinceWrite, report>>

Advice == {"startup", "load a world", "unavailable", "no damage", "no press", "flowing"}

ReportInit ==
  /\ Init
  /\ phase = "" /\ hurts = FALSE /\ queued = FALSE /\ written = FALSE
  /\ sinceWrite = WriteInterval   \* gLastWrite is 0
  /\ report = "missing"

-----------------------------------------------------------------------------
(* The advice write() gives; symbols().resolved is set by keyboard::init(). *)
AdviceFor(resolved, keyboard, hits, presses) ==
  CASE ~resolved -> "startup"
    [] resolved /\ ~Ready(keyboard) ->
         IF Backend = "GameActivity" THEN "load a world" ELSE "unavailable"
    [] resolved /\ Ready(keyboard) ->
         IF ~hits THEN "no damage" ELSE IF ~presses THEN "no press" ELSE "flowing"

Write == report' = AdviceFor(phase' = "up", kb', hurts', queued')

(* mod_preinit(), and the first thing mod_init() does. *)
MarkLoaded(from, to) ==
  /\ phase = from /\ phase' = to
  /\ UNCHANGED <<vars, counters, sinceWrite>>
  /\ Write

Preinit == MarkLoaded("", "mod_preinit")

InitEntered == MarkLoaded("mod_preinit", "mod_init")

(* The rest of mod_init(), which ends with a write of its own. *)
Started ==
  /\ phase = "mod_init" /\ phase' = "up"
  /\ UNCHANGED <<vars, counters, sinceWrite>>
  /\ Write

(* Queueing a press marks its key held; a batch handed over is in sent until the
   next pump. *)
CountPresses ==
  /\ queued' = (queued \/ \E k \in Keys : kb'.held[k])
  /\ written' = (written \/ \E k \in Keys : kb'.sent[k] # << >>)

Counted(hit) == hurts' = (hurts \/ hit) /\ CountPresses

(* Fault: only the game's own hits are counted. *)
FiresNever(c, w) == FALSE

(* Whether pollDebugKey() makes up a hit. *)
Fires(c, w) ==
  /\ c.enabled
  /\ \/ c.autoFireMs > 0 /\ w.seq.sinceFire >= c.autoFireMs
     \/ c.debugKey # NoKey /\ GameKeyDown(w.kb, c.debugKey) /\ ~w.seq.wasDown

(* What pump() has made of the world when the modules get their tick. *)
Handed(new) ==
  LET configured == OnConfigured(settings, new, [World EXCEPT !.kb = NewPump(@)])
  IN  [configured EXCEPT !.kb = Flush(@)]

(* Fault: the interval runs from the last pump. *)
WriteThrottledAnew(took) ==
  /\ IF sinceWrite >= WriteInterval THEN Write ELSE UNCHANGED report
  /\ sinceWrite' = AtMost(took, WriteInterval)

(* writeThrottled(), of a pump that took this long. *)
WriteThrottled(took) ==
  IF sinceWrite >= WriteInterval
  THEN Write /\ sinceWrite' = AtMost(took, WriteInterval)
  ELSE UNCHANGED report /\ sinceWrite' = AtMost(sinceWrite + took, WriteInterval)

(* How long a pump took is drawn here again, apart from what it was to Heartbeat. *)
Reported ==
  /\ phase = "up" /\ UNCHANGED phase
  /\ Counted(Fires(settings', Handed(settings')))
  /\ \E took \in 0..MaxLag : WriteThrottled(took)

ReportTimerPump == TimerPump /\ Reported

ReportGamePump == GamePump /\ Reported

(* dispatchLocalPlayerHurt() counts the hit whatever the module makes of it. *)
CountedHurt ==
  /\ phase = "up" /\ Hurt
  /\ Counted(TRUE)
  /\ UNCHANGED <<phase, sinceWrite, report>>

(* What else happens to the keyboard writes no report. *)
Unreported ==
  /\ phase = "up" /\ Counted(FALSE)
  /\ UNCHANGED <<phase, sinceWrite, report>>

ReportedOnCreate == OnCreate /\ Unreported

ReportedPlayerKey == PlayerKey /\ Unreported

ReportedShutdown == Shutdown /\ Unreported

ReportElapse ==
  /\ phase = "up" /\ Elapse
  /\ sinceWrite' = AtMost(sinceWrite + 1, WriteInterval)
  /\ UNCHANGED <<phase, counters, report>>

ReportNext ==
  \/ Preinit \/ InitEntered \/ Started
  \/ ReportTimerPump \/ ReportGamePump \/ CountedHurt
  \/ ReportedOnCreate \/ ReportedPlayerKey \/ ReportedShutdown \/ ReportElapse

(* mod_init() gets to its end; from there on Heartbeat's fairness. *)
ReportFairness ==
  /\ WF_reportVars(Preinit \/ InitEntered \/ Started)
  /\ WF_reportVars(ReportTimerPump)
  /\ WF_reportVars(ReportGamePump /\ source = "game")
  /\ WF_reportVars(ReportElapse)

ReportSpec == ReportInit /\ [][ReportNext]_reportVars /\ ReportFairness

-----------------------------------------------------------------------------
(* The mod is up, and the bound on what is pending does not keep it from ticking. *)
Ticking == phase = "up" /\ running /\ MayPump

(* "If it is stale or missing, the mod is not running": a mod that runs brings
   its report up to date again and again, whoever ticks it and whatever happens
   to the activity in between. *)
ReportKeptCurrent ==
  Ticking ~> (~Ticking \/ report = AdviceFor(TRUE, kb, hurts, queued))

(* Where the advice leads.  With debug_auto_fire_ms set, and the game there to be
   reached, "'damage events seen' should then climb": the report gets from every
   other advice to the presses being queued and written, and they are. *)
Driven ==
  /\ running /\ Ready(kb)
  /\ settings.enabled /\ settings.chance = 100 /\ settings.autoFireMs > 0

AutoFireShows == <>[]Driven => <>[](report = "flowing" /\ written)
=============================================================================
