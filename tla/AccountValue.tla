----------------------------- MODULE AccountValue -----------------------------
(***************************************************************************)
(* The value poll of internal/poller with value.Compute: what the account  *)
(* owns, item counts times trading-post prices, summed by component.       *)
(*                                                                         *)
(* The poll asks for one place after another while the player goes on      *)
(* playing.  The world of the model only moves worth about: from place to  *)
(* place, or into coin at the buy price (listing fees are left out).       *)
(***************************************************************************)
EXTENDS Integers, Sequences, FiniteSets, Functions

CONSTANTS
    Items,       \* item ids
    Buys, Sells, \* prices of the items that are traded
    CategoryOf,  \* CategoryOf[i]: the material category of item i
    Accepts,     \* Accepts[p]: the items that place p can hold
    AtFirst,     \* AtFirst[p][i]: how many i are in p when the poller starts
    Gems,        \* the worth of the gems in the wallet
    NoValue,     \* nothing valued yet
    MaxMoves     \* bound: moves of the player

Places == {"bank", "materials", "shared", "characters", "equipment"}
Priced == DOMAIN Buys
Categories == {CategoryOf[i] : i \in Items}

ASSUME ValueAssumption ==
    /\ IsFiniteSet(Items)
    /\ Priced \subseteq Items
    /\ Buys \in [Priced -> Nat]
    /\ Sells \in [Priced -> Nat]
    /\ AtFirst \in [Places -> [Items -> Nat]]
    /\ Gems \in Nat
    /\ MaxMoves \in Nat

VARIABLES
    held,     \* held[p][i]: how many i are in p now
    coin,     \* the coin in the wallet now
    call,     \* the call of the poll under way, 0 between polls
    answer,   \* answer[p]: what the poll was told of place p
    purse,    \* what the poll was told of the wallet
    valued,   \* Store.accountValue
    slack,    \* history: worth moved during the poll under way
    leeway,   \* history: worth moved during the poll that valued the account
    moves     \* history: moves of the player so far

worldVars == <<held, coin, moves>>
pollVars  == <<call, answer, purse>>
valueVars == <<worldVars, pollVars, valued, slack, leeway>>

Empty == [i \in Items |-> 0]

ValueInit ==
    /\ held = AtFirst
    /\ coin = 0
    /\ call = 0
    /\ answer = [p \in Places |-> Empty]
    /\ purse = 0
    /\ valued = NoValue
    /\ slack = 0
    /\ leeway = 0
    /\ moves = 0

-----------------------------------------------------------------------------
(* value.Compute.                                                          *)
(* Mutation of Asked: the ids of what characters wear are not asked for.   *)
AskedBagsOnly(has) == {i \in Items : \E p \in Places \ {"equipment"} : has[p][i] > 0}

(* The ids whose prices the poll asks for.                                 *)
Asked(has) == {i \in Items : \E p \in Places : has[p][i] > 0}

Worth(counts, prices, ids) ==
    SumFunction([i \in ids \intersect Priced |-> counts[i] * prices[i]])

(* Mutation of Components: the wallet is not in the total.                 *)
ComponentsNoWallet(has, copper, prices) ==
    LET worth == [p \in Places |-> Worth(has[p], prices, Asked(has))]
    IN  [c \in Places \union {"wallet", "total"} |->
            CASE c = "wallet" -> copper
              [] c = "total"  -> SumFunction(worth)
              [] OTHER        -> worth[c]]

Components(has, copper, prices) ==
    LET worth == [p \in Places |-> Worth(has[p], prices, Asked(has))]
    IN  [c \in Places \union {"wallet", "total"} |->
            CASE c = "wallet" -> copper
              [] c = "total"  -> SumFunction(worth) + copper
              [] OTHER        -> worth[c]]

OfCategory(stock, category, ids) ==
    Worth(stock, Sells, {i \in ids : CategoryOf[i] = category})

Compute(has, copper) ==
    [buy      |-> Components(has, copper, Buys),
     sell     |-> Components(has, copper, Sells),
     category |-> [k \in Categories |->
                     OfCategory(has["materials"], k, Asked(has))]]

-----------------------------------------------------------------------------
(* The player: an item goes elsewhere, or is sold to a buy order.          *)
Shift(p, i, n) == [held[p] EXCEPT ![i] = @ + n]

(* Worth has moved under a poll.                                           *)
Loosen(i) ==
    slack' = IF call > 0 /\ i \in Priced THEN slack + Buys[i] ELSE slack

MoveItem(i, p, q) ==
    /\ moves < MaxMoves
    /\ p # q /\ i \in Accepts[q] /\ held[p][i] > 0
    /\ held' = [held EXCEPT ![p] = Shift(p, i, -1), ![q] = Shift(q, i, 1)]
    /\ moves' = moves + 1
    /\ Loosen(i)
    /\ UNCHANGED <<coin, pollVars, valued, leeway>>

SellItem(i, p) ==
    /\ moves < MaxMoves
    /\ i \in Priced /\ held[p][i] > 0
    /\ held' = [held EXCEPT ![p] = Shift(p, i, -1)]
    /\ coin' = coin + Buys[i]
    /\ moves' = moves + 1
    /\ Loosen(i)
    /\ UNCHANGED <<pollVars, valued, leeway>>

-----------------------------------------------------------------------------
(* The poll: its calls in their order, and what each tells.                *)
Calls == <<{"bank"}, {"materials"}, {"shared"}, {"characters", "equipment"},
           {"wallet"}, {"rate"}, {"prices"}>>

StartValuePoll ==
    /\ call = 0
    /\ call' = 1
    /\ UNCHANGED <<worldVars, answer, purse, valued, slack, leeway>>

ValueCall ==
    /\ call \in 1..Len(Calls)
    /\ answer' = [p \in Places |-> IF p \in Calls[call] THEN held[p] ELSE answer[p]]
    /\ purse' = IF "wallet" \in Calls[call] THEN coin + Gems ELSE purse
    /\ call' = call + 1
    /\ UNCHANGED <<worldVars, valued, slack, leeway>>

(* The poll returns and forgets what it was told.                          *)
Forget ==
    /\ call' = 0
    /\ answer' = [p \in Places |-> Empty]
    /\ purse' = 0
    /\ slack' = 0

(* A call fails: the poll returns the error and values nothing.            *)
ValueCallFails ==
    /\ call \in 1..Len(Calls)
    /\ Forget
    /\ UNCHANGED <<worldVars, valued, leeway>>

SetAccountValue ==
    /\ call = Len(Calls) + 1
    /\ valued' = Compute(answer, purse)
    /\ leeway' = slack
    /\ Forget
    /\ UNCHANGED worldVars

ValueNext ==
    \/ \E i \in Items, p, q \in Places : MoveItem(i, p, q)
    \/ \E i \in Items, p \in Places : SellItem(i, p)
    \/ StartValuePoll
    \/ ValueCall
    \/ ValueCallFails
    \/ SetAccountValue

ValueSpec == ValueInit /\ [][ValueNext]_valueVars

-----------------------------------------------------------------------------
(* What the account is worth, all of it looked at in one moment.           *)
TrueWorth ==
    SumFunction([p \in Places |-> Worth(held[p], Buys, Items)]) + coin + Gems

(* The published total is off by no more than the worth that moved while   *)
(* the poll was asking place after place: an item can be counted twice or  *)
(* not at all, and when nothing moves the total is exact, what characters  *)
(* wear included (poller.go:335-417, value.go:33-104).                     *)
DistortionIsBounded ==
    valued # NoValue =>
        /\ valued.buy["total"] - TrueWorth <= leeway
        /\ TrueWorth - valued.buy["total"] <= leeway

(* One breakdown adds up on both bases, and its material categories to the *)
(* materials, although prices, counts and the wallet come from different   *)
(* calls (value.go:79-103).                                                *)
AddsUp(v) ==
    /\ \A basis \in {v.buy, v.sell} :
          basis["total"] = SumFunctionOnSet(basis, Places \union {"wallet"})
    /\ v.sell["materials"] = SumFunction(v.category)
=============================================================================
