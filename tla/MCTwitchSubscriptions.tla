----------------------- MODULE MCTwitchSubscriptions -----------------------
(* Two guilds follow one streamer: the instance of TwitchSubscriptions for TLC. *)
EXTENDS TwitchSubscriptions

CONSTANTS a, b, s
OneStreamer == [c \in {a, b} |-> s]
=============================================================================
