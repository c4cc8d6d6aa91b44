--------------------------- MODULE MCTickThreads ----------------------------
(* One start for each way of ticking: the timer alone, the game thread alone,
   the frame callback that appears under a running timer, and frames that go on
   while the mod shuts down; and for each way of reaching the game where one
   thread at a time hands over. *)
EXTENDS TickThreads

TimerOnly == [frameCallback |-> FALSE, gameTickHook |-> FALSE, stops |-> TRUE,
              reach |-> "exported"]
GameOnly  == [TimerOnly EXCEPT !.frameCallback = TRUE, !.gameTickHook = TRUE, !.stops = FALSE]
TakeOvers == [TimerOnly EXCEPT !.frameCallback = TRUE, !.stops = FALSE]
GameStops == [GameOnly EXCEPT !.stops = TRUE]

MCWorlds == {TimerOnly, GameOnly, TakeOvers, GameStops,
             [TimerOnly EXCEPT !.reach = "kept"], [TimerOnly EXCEPT !.reach = "fickle"],
             [GameOnly EXCEPT !.reach = "kept"], [GameOnly EXCEPT !.reach = "fickle"],
             [TakeOvers EXCEPT !.reach = "kept"]}

TakeOverWorlds == {TakeOvers}
=============================================================================
