---------------------------- MODULE MCBotBridge ----------------------------
(* The instance of BotBridge for TLC: one operator asks, another has a module unloaded or a sync started. *)
EXTENDS BotBridge, TLC

CONSTANTS q, r
TwoOperators == q :> {"query", "load", "sync"} @@ r :> {"unload", "sync"}
=============================================================================
