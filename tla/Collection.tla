------------------------------ MODULE Collection ------------------------------
(***************************************************************************)
(* The metrics callback of internal/metrics, between the store its getters *)
(* read, the reference tables its look-ups read, and the exports it makes. *)
(*                                                                         *)
(* Each getter takes the store's lock for itself and each look-up loads    *)
(* the table pointer anew, so polls and refreshes fall between any two of  *)
(* them.  A poll is one step here (module Poller takes it apart), but for  *)
(* the value poll of AccountValue.  Builds and answers share one clock: at *)
(* time t the game is at build t, and data of time t is as of t.           *)
(***************************************************************************)
EXTENDS AccountValue, FiniteSetsExt, SequencesExt

CONSTANTS
    Slices,       \* sets of store keys whose polls get to run together
    Timed,        \* bound: the slices in which the clock moves
    Quests,       \* story quests
    SeasonOf,     \* SeasonOf[q]: the story season of quest q
    Introduced,   \* Introduced[q]: the build that brings quest q
    Guilds,       \* guilds the account may be in
    Led,          \* those it leads
    NoData,       \* nothing stored
    MaxTime,      \* bound: the clock
    MaxFailures   \* bound: failed soft calls

Times == 1..MaxTime
Seasons == {SeasonOf[q] : q \in Quests}
Present(t) == {q \in Quests : Introduced[q] <= t}

(* Store keys that are marked; the standings are stored without a mark.    *)
Marked == {"account", "progression", "achievements", "legendary", "resets",
           "wvw", "storage", "wardrobe", "wallet", "characters", "commerce",
           "guild", "pvp", "unlocks", "wizardsvault", "prices",
           "craft_profits", "story", "value"}
Keys == Marked \union {"standings"}

ASSUME CollectionAssumption ==
    /\ \A S \in Slices : S \subseteq Keys
    /\ IsFiniteSet(Quests)
    /\ Introduced \in [Quests -> Nat]
    /\ IsFiniteSet(Guilds)
    /\ Led \subseteq Guilds
    /\ MaxTime \in Nat \ {0}
    /\ MaxFailures \in Nat

VARIABLES
    now,          \* the clock
    awake,        \* the keys whose polls run
    done,         \* the quests completed so far
    member,       \* the guilds the account is in
    snapshot,     \* snapshot[k]: what is stored under k, as of snapshot[k].at
    lastSuccess,  \* lastSuccess[k], 0 where absent
    tables,       \* the build of the published tables, 0 for none
    registered,   \* the callback is registered
    pc,           \* the reading the callback is at, 0 between collections
    series,       \* what the collection under way has observed
    exported,     \* what the last one has observed
    failures      \* history: soft calls that failed

gameVars   == <<now, done, member, worldVars>>
storeVars  == <<snapshot, lastSuccess, valued, leeway>>
exportVars == <<pc, series, exported>>
vars == <<gameVars, awake, storeVars, pollVars, slack, tables, registered,
          exportVars, failures>>

Absent == [at |-> 0, data |-> NoData]

(* An observation: snapshots, names by kind, story counts, timestamps.     *)
Nothing ==
    [read      |-> [k \in Keys |-> Absent],
     names     |-> {},
     completed |-> [s \in Seasons |-> 0],
     totals    |-> [s \in Seasons |-> 0],
     stamps    |-> [k \in Marked |-> 0]]

Init ==
    /\ ValueInit
    /\ awake \in Slices
    /\ now = IF awake \in Timed THEN 1 ELSE MaxTime
    /\ done = {}
    /\ member = Guilds
    /\ snapshot = [k \in Keys |-> Absent]
    /\ lastSuccess = [k \in Marked |-> 0]
    /\ tables = 0
    /\ registered = TRUE
    /\ pc = 0
    /\ series = Nothing
    /\ exported = Nothing
    /\ failures = 0

-----------------------------------------------------------------------------
(* The game: builds come, quests are completed, guilds joined and left.    *)
Advance ==
    /\ now < MaxTime
    /\ now' = now + 1
    /\ UNCHANGED <<done, member, worldVars, awake, storeVars, pollVars, slack,
                   tables, registered, exportVars, failures>>

Complete(q) ==
    /\ "story" \in awake
    /\ q \in Present(now) \ done
    /\ done' = done \union {q}
    /\ UNCHANGED <<now, member, worldVars, awake, storeVars, pollVars, slack,
                   tables, registered, exportVars, failures>>

Enrol(g) ==
    /\ "guild" \in awake
    /\ member' = IF g \in member THEN member \ {g} ELSE member \union {g}
    /\ UNCHANGED <<now, done, worldVars, awake, storeVars, pollVars, slack,
                   tables, registered, exportVars, failures>>

(* One step of the player in the places or of the value poll.              *)
PlayerMoves ==
    /\ "value" \in awake
    /\ \/ \E i \in Items, p, q \in Places : MoveItem(i, p, q)
       \/ \E i \in Items, p \in Places : SellItem(i, p)
    /\ UNCHANGED <<now, done, member, awake, snapshot, lastSuccess, tables,
                   registered, exportVars, failures>>

-----------------------------------------------------------------------------
(* The polls.  A setter stores the snapshot and its time under one lock.   *)
Polled(k) == k \in awake /\ registered

(* Mutation of Store: a key that is marked stays as it is.                 *)
StoreMarkOnce(k, data) ==
    /\ snapshot' = [snapshot EXCEPT ![k] = [at |-> now, data |-> data]]
    /\ lastSuccess' = IF k \in Marked /\ lastSuccess[k] = 0
                      THEN [lastSuccess EXCEPT ![k] = now]
                      ELSE lastSuccess
    /\ UNCHANGED <<gameVars, awake, valued, leeway, pollVars, slack, tables,
                   registered, exportVars>>

Store(k, data) ==
    /\ snapshot' = [snapshot EXCEPT ![k] = [at |-> now, data |-> data]]
    /\ lastSuccess' = IF k \in Marked THEN [lastSuccess EXCEPT ![k] = now]
                                      ELSE lastSuccess
    /\ UNCHANGED <<gameVars, awake, valued, leeway, pollVars, slack, tables,
                   registered, exportVars>>

(* Families whose snapshots the callback copies out as they are.           *)
Plain == Keys \ {"story", "guild", "commerce", "value", "account"}

PollPlain(k) ==
    /\ Polled(k) /\ k \in Plain
    /\ Store(k, NoData)
    /\ UNCHANGED failures

PollAccount ==
    /\ Polled("account")
    /\ Store("account", member)
    /\ UNCHANGED failures

PollStory ==
    /\ Polled("story")
    /\ Store("story", done)
    /\ UNCHANGED failures

(* A soft call that fails leaves the field at its zero.                    *)
SoftCalls(failed) ==
    /\ failures + Cardinality(failed) <= MaxFailures
    /\ failures' = failures + Cardinality(failed)

(* Mutation of PollCommerce: orders once lost are not asked for again.     *)
PollCommerceKeeping ==
    /\ Polled("commerce")
    /\ \E failed \in SUBSET {"buys", "sells"} :
          /\ SoftCalls(failed)
          /\ Store("commerce",
                IF snapshot["commerce"].at = 0
                THEN [side \in {"buys", "sells"} |-> side \notin failed]
                ELSE snapshot["commerce"].data)

(* The open orders: TRUE where their number is known, FALSE for a bare 0.  *)
PollCommerce ==
    /\ Polled("commerce")
    /\ \E failed \in SUBSET {"buys", "sells"} :
          /\ SoftCalls(failed)
          /\ Store("commerce", [side \in {"buys", "sells"} |-> side \notin failed])

(* The guilds of the stored account, or of the account asked for now.      *)
GuildList ==
    IF snapshot["account"].at = 0 THEN member ELSE snapshot["account"].data

(* What is stored of the leader-only fields: nothing without the number of *)
(* upgrades (-1), and a zero for a treasury that could not be read.        *)
Internals(g, failed) ==
    CASE g \notin Led                -> "hidden"
      [] <<g, "upgrades">> \in failed -> "hidden"
      [] <<g, "treasury">> \in failed -> "zero"
      [] OTHER                       -> "true"

(* Mutation of PollGuild: infos of earlier polls are kept in the list.     *)
PollGuildAdding ==
    /\ Polled("guild")
    /\ GuildList # {}
    /\ \E failed \in SUBSET ((GuildList \intersect Led) \X {"upgrades", "treasury"}) :
          /\ SoftCalls(failed)
          /\ LET kept == IF snapshot["guild"].at = 0 THEN {}
                         ELSE DOMAIN snapshot["guild"].data
             IN  Store("guild", [g \in GuildList \union kept |-> Internals(g, failed)])

PollGuild ==
    /\ Polled("guild")
    /\ GuildList # {}
    /\ \E failed \in SUBSET ((GuildList \intersect Led) \X {"upgrades", "treasury"}) :
          /\ SoftCalls(failed)
          /\ Store("guild", [g \in GuildList |-> Internals(g, failed)])

(* The value poll; its last step sets the breakdown and marks the key.     *)
PollValue ==
    /\ Polled("value")
    /\ \/ (StartValuePoll \/ ValueCall \/ SetAccountValue) /\ UNCHANGED failures
       \/ ValueCallFails /\ failures < MaxFailures /\ failures' = failures + 1
    /\ IF call = Len(Calls) + 1
       THEN /\ snapshot' = [snapshot EXCEPT !["value"] = [at |-> now, data |-> valued']]
            /\ lastSuccess' = [lastSuccess EXCEPT !["value"] = now]
       ELSE UNCHANGED <<snapshot, lastSuccess>>
    /\ UNCHANGED <<now, done, member, awake, tables, registered, exportVars>>

-----------------------------------------------------------------------------
(* The callback, reading by reading, in the order of its text.             *)
Get(k)     == [op |-> "get",    key |-> k,       of |-> k]
Name(k)    == [op |-> "name",   key |-> k,       of |-> k]
Season(q)  == [op |-> "season", key |-> "story", of |-> q]
Totals     == [op |-> "totals", key |-> "story", of |-> "story"]
Stamps     == [op |-> "stamps", key |-> "all",   of |-> "all"]

QuestLookups == [n \in 1..Cardinality(Quests) |-> Season(SetToSeq(Quests)[n])]

(* Mutations of Readings: the totals, or the timestamps, are read first.   *)
ReadingsTotalsFirst ==
    <<Get("account"), Get("guild"), Get("value"), Totals, Get("story")>>
        \o QuestLookups \o <<Stamps>>

ReadingsStampsFirst ==
    <<Stamps, Get("account"), Get("guild"), Get("value"), Get("story")>>
        \o QuestLookups \o <<Totals>>

FirstReadings ==
    <<Get("account"), Get("progression"), Get("achievements"),
      Get("legendary"), Get("resets"), Get("wvw"),
      Get("storage"), Name("storage"), Get("wardrobe"),
      Get("wallet"), Name("wallet"), Get("characters"), Get("commerce"),
      Get("guild"), Get("pvp"), Get("standings"),
      Get("unlocks"), Name("unlocks"), Get("wizardsvault"),
      Get("prices"), Name("prices"),
      Get("craft_profits"), Name("craft_profits"),
      Get("story")>>

LastReadings == <<Totals, Get("value"), Name("value"), Stamps>>

Readings == FirstReadings \o QuestLookups \o LastReadings
End == Len(Readings) + 1

(* A getter whose key no poll sets in this run reads nothing: passed over. *)
Text == {n \in 1..Len(Readings) : Readings[n].key \in awake \union {"all"}}
After(n) == Min({m \in Text : m > n} \union {End})

(* The tables change only where something looks them up: else left out.    *)
ReadsTables == \E n \in Text : Readings[n].op \in {"name", "season", "totals"}

(* Mutation of Publish: the tables are emptied while they are rebuilt.     *)
PublishInTwo ==
    /\ registered /\ ReadsTables
    /\ \E b \in (tables + 1)..now : tables' \in {0, b}
    /\ UNCHANGED <<gameVars, awake, storeVars, pollVars, slack, registered,
                   exportVars, failures>>

(* A refresh: tables of a build that is newer than theirs, in one store.   *)
Publish ==
    /\ registered /\ ReadsTables
    /\ \E b \in (tables + 1)..now : tables' = b
    /\ UNCHANGED <<gameVars, awake, storeVars, pollVars, slack, registered,
                   exportVars, failures>>

Collect ==
    /\ registered
    /\ pc = 0
    /\ pc' = After(0)
    /\ series' = Nothing
    /\ UNCHANGED <<gameVars, awake, storeVars, pollVars, slack, tables,
                   registered, exported, failures>>

Observes(s) ==
    /\ series' = s
    /\ pc' = After(pc)
    /\ UNCHANGED <<gameVars, awake, storeVars, pollVars, slack, tables,
                   registered, exported, failures>>

At(op) == pc \in 1..Len(Readings) /\ Readings[pc].op = op
Of == Readings[pc].of

(* Of the account only its age and ranks are exported, not its guilds.     *)
Observed(k) == IF k = "account" THEN [snapshot[k] EXCEPT !.data = NoData]
                                ELSE snapshot[k]

ReadSnapshot ==
    /\ At("get")
    /\ Observes([series EXCEPT !.read[Of] = Observed(Of)])

(* Currency, category, item and collection look-ups for what was read.     *)
LookUpName ==
    /\ At("name")
    /\ Observes(IF series.read[Of].at > 0 /\ tables > 0
                THEN [series EXCEPT !.names = @ \union {Of}]
                ELSE series)

(* A completed quest counts for its season if the tables know the quest.   *)
LookUpSeason ==
    /\ At("season")
    /\ LET known == /\ series.read["story"].at > 0
                    /\ Of \in series.read["story"].data
                    /\ tables > 0
                    /\ Of \in Present(tables)
       IN Observes(IF known
                   THEN [series EXCEPT !.completed[SeasonOf[Of]] = @ + 1]
                   ELSE series)

SeasonTotal(t, s) == Cardinality({q \in Present(t) : SeasonOf[q] = s})

ReadTotals ==
    /\ At("totals")
    /\ Observes(IF tables = 0 THEN series
                ELSE [series EXCEPT !.totals =
                        [s \in Seasons |-> SeasonTotal(tables, s)]])

ReadStamps ==
    /\ At("stamps")
    /\ Observes([series EXCEPT !.stamps = lastSuccess])

(* The callback returns; the reader exports what it observed.              *)
Export ==
    /\ pc = End
    /\ exported' = series
    /\ series' = Nothing
    /\ pc' = 0
    /\ UNCHANGED <<gameVars, awake, storeVars, pollVars, slack, tables,
                   registered, failures>>

(* main unregisters after Wait; a collection under way is let finish.      *)
Unregister ==
    /\ registered
    /\ pc = 0
    /\ registered' = FALSE
    /\ UNCHANGED <<gameVars, awake, storeVars, pollVars, slack, tables,
                   exportVars, failures>>

Ended == ~registered /\ UNCHANGED vars

Reading == ReadSnapshot \/ LookUpName \/ LookUpSeason \/ ReadTotals \/ ReadStamps

Poll(k) ==
    \/ PollPlain(k)
    \/ k = "account" /\ PollAccount
    \/ k = "story" /\ PollStory
    \/ k = "commerce" /\ PollCommerce
    \/ k = "guild" /\ PollGuild
    \/ k = "value" /\ PollValue

Next ==
    \/ Advance
    \/ \E q \in Quests : Complete(q)
    \/ \E g \in Guilds : Enrol(g)
    \/ PlayerMoves
    \/ \E k \in Keys : Poll(k)
    \/ Publish
    \/ Collect
    \/ Reading
    \/ Export
    \/ Unregister
    \/ Ended

Spec == Init /\ [][Next]_vars

(* Tickers and the reader's timer fire, calls and callbacks return.        *)
Fairness ==
    /\ \A k \in Keys : WF_vars(Poll(k))
    /\ WF_vars(Publish)
    /\ WF_vars(Collect)
    /\ WF_vars(Reading)
    /\ WF_vars(Export)

FairSpec == Spec /\ Fairness

-----------------------------------------------------------------------------
TypeOK ==
    /\ now \in Times
    /\ awake \in Slices
    /\ done \subseteq Present(now)
    /\ member \subseteq Guilds
    /\ \A k \in Keys : snapshot[k].at \in {0} \union Times
    /\ lastSuccess = [k \in Marked |-> snapshot[k].at]
    /\ tables \in {0} \union Times
    /\ registered \in BOOLEAN
    /\ pc \in 0..End
    /\ \A s \in {series, exported} :
          /\ \A k \in Keys : s.read[k].at \in {0} \union Times
          /\ s.names \subseteq Keys
          /\ s.completed \in [Seasons -> Nat]
          /\ s.totals \in [Seasons -> Nat]
          /\ s.stamps \in [Marked -> {0} \union Times]
    /\ failures \in 0..MaxFailures

(* Data never comes without its timestamp, nor with an older one; and what *)
(* a timestamp claims, which a poll between the two readings can make too  *)
(* much, the next export has: the data is read first, the timestamps last, *)
(* and a setter does both under one lock (metrics.go:518, 843-846).        *)
StampsBracketData ==
    [][exported' # exported =>
          \A k \in Marked : /\ exported'.read[k].at <= exported'.stamps[k]
                            /\ exported.stamps[k] <= exported'.read[k].at]_vars

(* No export has more completed quests of a season than quests, although   *)
(* the tables may be replaced between any two look-ups (metrics.go:804-821)*)
StoryWithinTotals ==
    \A s \in Seasons : exported.completed[s] <= exported.totals[s]

(* A series that was once exported with its name keeps it: a rename would  *)
(* break it in two (metrics.go:632-640, 767-773, 882-891).                 *)
NamesStay ==
    [][exported' # exported => exported.names \subseteq exported'.names]_vars

(* One export's value breakdown is one that was computed: it adds up.      *)
BreakdownAddsUp ==
    LET value == exported.read["value"] IN value.at > 0 => AddsUp(value.data)

(* When builds stop coming and the account stays as it is, the exports end *)
(* up telling the truth: zeros of failed soft calls heal, guilds left      *)
(* behind disappear, the value is exact.  An account without any guild is  *)
(* left out: its last guild stays (poller.go:297).                         *)
Truthful ==
    /\ \A k \in awake : exported.read[k].at > 0
    /\ {r.of : r \in {Readings[n] : n \in Text} \intersect {Name(k) : k \in Keys}}
          \subseteq exported.names
    /\ "story" \in awake =>
          \A s \in Seasons :
             /\ exported.completed[s] = Cardinality({q \in done : SeasonOf[q] = s})
             /\ exported.totals[s] = SeasonTotal(now, s)
    /\ "guild" \in awake =>
          exported.read["guild"].data = [g \in member |-> Internals(g, {})]
    /\ "commerce" \in awake =>
          \A side \in {"buys", "sells"} : exported.read["commerce"].data[side]
    /\ "value" \in awake =>
          exported.read["value"].data.buy["total"] = TrueWorth

ExportsConverge ==
    \A home \in SUBSET Guilds \ {{}} :
        <>[](registered /\ now = MaxTime /\ member = home) => <>[]Truthful
=============================================================================
