----------------------------- MODULE MCSeenEvents -----------------------------
(* Small instances of SeenEvents: transactions with two ids, pvp with one;  *)
(* and, for the run that checks liveness too, one id each.                  *)
EXTENDS SeenEvents, TLC

CONSTANTS t1, t2, g1, transactions, pvp

MCIds == {t1, t2, g1}
MCCallers == {transactions, pvp}
MCIdsOf == transactions :> {t1, t2} @@ pvp :> {g1}

MCFewIds == {t1, g1}
MCFewIdsOf == transactions :> {t1} @@ pvp :> {g1}
=============================================================================
