--------------------------- MODULE MCGuildLogEvents ---------------------------
(* A small instance of GuildLogEvents: one guild and a log of a few ids.   *)
EXTENDS GuildLogEvents
CONSTANT guild
MCGuilds == {guild}
=============================================================================
