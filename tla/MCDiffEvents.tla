----------------------------- MODULE MCDiffEvents -----------------------------
(* A small instance of DiffEvents: a death count that only rises and a     *)
(* daily count that resets, each with its own family goroutine.            *)
EXTENDS DiffEvents, TLC

CONSTANTS deaths, bosses, characters, resets

MCKeys == {deaths, bosses}
MCResettable == {bosses}
MCCallers == {characters, resets}
MCKeysOf == characters :> {deaths} @@ resets :> {bosses}
=============================================================================
