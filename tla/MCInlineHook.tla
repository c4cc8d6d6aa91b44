---------------------------- MODULE MCInlineHook ----------------------------
(* The three functions the mod hooks and two threads of the game. *)
EXTENDS InlineHook

CONSTANTS onCreate, hurt, gameTick, render, server

MCHooks     == {onCreate, hurt, gameTick}
MCForgotten == {hurt, gameTick}
MCThreads   == {render, server}
=============================================================================
