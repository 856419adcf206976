------------------------------- MODULE PlanRules -------------------------------
(***************************************************************************)
(* What the plans of PollPlans must keep to for the machine of Poller to   *)
(* be right: the order of the calls, setters and emits inside each poll    *)
(* function of internal/poller/poller.go, said without running them.       *)
(*                                                                         *)
(* StepsKeepToRules of Poller checks them of the plans of poller.go, at    *)
(* every step a poll comes to; PollerProofs proves them of those plans,    *)
(* and from them, and nothing else of a plan, what the machine promises.   *)
(***************************************************************************)
EXTENDS Naturals, Sequences

CONSTANTS
    Families,    \* one goroutine each
    PlanOf,      \* PlanOf[f]: the steps of a poll of f (module PollPlans)
    NeedsOf,     \* NeedsOf[k]: the answers a snapshot of k is made of
    Late         \* families that call the API after setting their own key

OwnKey(f) == <<f, 0>>

Fatal   == {"get", "once", "missing", "stored"}  \* a failure ends the poll
Asking  == Fatal \union {"soft"}
Setting == {"set", "unmarked"}

StepsOf(f) == 1..Len(PlanOf[f])
Does(f, n, ops, of) == PlanOf[f][n].op \in ops /\ PlanOf[f][n].of = of

-----------------------------------------------------------------------------
(* What a handler of the emitter is given comes from one goroutine, and in *)
(* each of its polls from one call, made in that poll.                     *)
FeedsAlone(f, n) ==
    PlanOf[f][n].op = "emit" =>
        LET e == PlanOf[f][n].of IN
        /\ \A g \in Families \ {f} :
              \A m \in StepsOf(g) : ~Does(g, m, {"emit"}, e)
        /\ \A m \in StepsOf(f) : ~Does(f, m, {"stored"}, e)
        /\ \A m, o \in StepsOf(f) :
              Does(f, m, Asking, e) /\ Does(f, o, Asking, e) => m = o

OneFeeder == \A f \in Families : \A n \in StepsOf(f) : FeedsAlone(f, n)

(* No setter stands before a call whose answer its snapshot needs.         *)
SetsWhole(f, n) ==
    PlanOf[f][n].op \in Setting =>
        \A e \in NeedsOf[PlanOf[f][n].of[1]] :
            \E m \in 1..(n - 1) : Does(f, m, {"get", "stored"}, e)

WholeWhenSet == \A f \in Families : \A n \in StepsOf(f) : SetsWhole(f, n)

(* What is taken from another family's snapshot is an answer that snapshot *)
(* needs.                                                                  *)
TakesNeeded(f, n) ==
    PlanOf[f][n].op = "stored" => PlanOf[f][n].of \in NeedsOf[PlanOf[f][n].of[1]]

StoredIsNeeded == \A f \in Families : \A n \in StepsOf(f) : TakesNeeded(f, n)

(* A family marks its own key alone, and no fatal call follows.            *)
MarksLast(g, n) ==
    \A f \in Families \ Late : Does(g, n, {"set"}, OwnKey(f)) =>
        /\ g = f
        /\ \A m \in StepsOf(f) : m > n => PlanOf[f][m].op \notin Fatal

MarkedLast == \A g \in Families : \A n \in StepsOf(g) : MarksLast(g, n)
=============================================================================
