----------------------------- MODULE MCLifecycle -----------------------------
(* Three of the tables are enough to have calls before and after a change. *)
(* Two intervals, of which one may be anything; the key is set or not.     *)
EXTENDS Lifecycle
MCTables == <<"currencies", "totals", "quests">>
MCIntervals == {"account", "value"}
MCEnvironment ==
    {[key |-> k, account |-> v, value |-> "unset"] :
        k \in {"positive", "blank"},
        v \in {"unset", "garbage", "positive", "zero", "negative"}}
=============================================================================
