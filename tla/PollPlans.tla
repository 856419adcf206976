------------------------------ MODULE PollPlans ------------------------------
(***************************************************************************)
(* What one poll of each family does: the fetch functions that             *)
(* Poller.Start hands to Poller.run (internal/poller/poller.go), as        *)
(* sequences of steps for the machine of module Poller.                    *)
(*                                                                         *)
(* An endpoint is a pair <<path, i>>; i tells apart the calls of a loop.   *)
(* The numbers of the answers are left out: what matters is which answers  *)
(* a snapshot is made of, and what a failure at any step leaves behind.    *)
(***************************************************************************)
EXTENDS Naturals, Sequences, SequencesExt

CONSTANTS
    Guilds,       \* the guilds of the account, in the order of its answer
    Led,          \* the guilds the key's account leads
    Roster,       \* number of characters
    Collections,  \* number of entries of gw2.Collections
    ResetKinds,   \* number of entries of resetFamilies
    Tracked       \* number of tracked items, 0 for none

(* The account names each of its guilds once.                              *)
ASSUME PlanAssumption ==
    /\ Len(Guilds) \in Nat
    /\ \A m, n \in 1..Len(Guilds) : Guilds[m] = Guilds[n] => m = n
    /\ {Roster, Collections, ResetKinds, Tracked} \subseteq Nat

(* A fatal call: on error the poll returns it.                             *)
Get(path)     == [op |-> "get", of |-> <<path, 0>>]
GetOf(path, i) == [op |-> "get", of |-> <<path, i>>]
(* A call whose error is ignored.                                          *)
Soft(path, i) == [op |-> "soft", of |-> <<path, i>>]
(* A fatal call made until it has succeeded once in the process.           *)
Once(path, i) == [op |-> "once", of |-> <<path, i>>]
(* A fatal call made only when ids without a cached definition turned up.  *)
Missing(path) == [op |-> "missing", of |-> <<path, 0>>]
(* The stored snapshot of another family, or a fatal call if there is none.*)
Stored(path)  == [op |-> "stored", of |-> <<path, 0>>]
(* Return early, without error, when the account has nothing to poll.      *)
Unless(what)  == [op |-> "unless", of |-> <<what, 0>>]
(* A setter of the store; SetPvPStandings alone does not mark a success.   *)
Set(key)      == [op |-> "set", of |-> <<key, 0>>]
SetUnmarked(key) == [op |-> "unmarked", of |-> <<key, 0>>]
(* A call of the emitter with the answer of one endpoint, if it came.      *)
Emit(path, i) == [op |-> "emit", of |-> <<path, i>>]

(* A loop: the steps of every turn, one after another.                     *)
Each(items, body(_)) == FlattenSeq([n \in 1..Len(items) |-> body(items[n])])
Upto(n) == [i \in 1..n |-> i]

-----------------------------------------------------------------------------
PollAccount == <<Get("account"), Set("account"), Emit("account", 0)>>

PollWallet == <<Get("wallet"), Set("wallet")>>

PollCharacters ==
    <<Get("characters"), Set("characters"), Emit("characters", 0)>>

PollProgression ==
    <<Get("masteries"), Get("mastery/points"), Get("luck"),
      Get("progression"), Get("legendaryarmory"), Get("armory"),
      Set("progression")>>

PollAchievements ==
    <<Get("achievements"), Once("categories", 0), Set("legendary"),
      Missing("definitions"), Set("achievements")>>

(* Mutation of PollStorage: the snapshot is set before its last answer.    *)
PollStorageEarly ==
    <<Get("bank"), Get("inventory"), Set("storage"), Get("materials")>>

PollStorage ==
    <<Get("bank"), Get("inventory"), Get("materials"), Set("storage")>>

PollWizardsVault ==
    Each(Upto(3), LAMBDA period : <<GetOf("wizardsvault", period)>>)
        \o <<Set("wizardsvault")>>

LeaderOnly(g) ==
    <<Soft("upgrades", g), Soft("treasury", g), Soft("stash", g),
      Soft("storage", g), Soft("log", g), Emit("log", g)>>

PollGuild ==
    <<Stored("account"), Unless("guilds")>>
        \o Each(Guilds, LAMBDA g : <<GetOf("guild", g)>>
                                   \o IF g \in Led THEN LeaderOnly(g) ELSE <<>>)
        \o <<Set("guild")>>

PollValue ==
    <<Get("bank"), Get("materials"), Get("inventory"), Get("characters"),
      Get("wallet"), Get("exchange/gems"), Get("prices"), Set("value")>>

PollResets ==
    Each(Upto(ResetKinds),
         LAMBDA kind : <<GetOf("resets", kind), Emit("resets", kind)>>)
        \o <<Set("resets")>>

(* Mutation of PollStory: it calls OnCharacters as well.                   *)
PollStoryEmitting ==
    <<Stored("characters"), Emit("characters", 0)>>
        \o Each(Upto(Roster), LAMBDA c : <<GetOf("quests", c)>>)
        \o <<Set("story")>>

PollStory ==
    <<Stored("characters")>>
        \o Each(Upto(Roster), LAMBDA c : <<GetOf("quests", c)>>)
        \o <<Set("story")>>

(* Mutation of PollWvW: the key is marked before the last fatal call.      *)
PollWvWEarly ==
    <<Stored("account"), Unless("world"), Set("wvw"), Get("match")>>

PollWvW ==
    <<Stored("account"), Unless("world"), Get("match"), Set("wvw")>>

PollPvP ==
    <<Get("pvp/stats"), Set("pvp"), Get("standings"),
      SetUnmarked("standings"), Get("games"), Emit("games", 0)>>

PollUnlocks ==
    Each(Upto(Collections), LAMBDA c : <<GetOf("unlocks", c)>>)
        \o <<Set("unlocks"), Emit("unlocks", Collections)>>

PollWardrobe ==
    <<Get("skins"), Missing("skins/defs"), Get("dyes"), Missing("dyes/defs"),
      Set("wardrobe")>>

PollTransactions ==
    <<Get("buys"), Emit("buys", 0), Get("sells"), Emit("sells", 0)>>

PollCrafts ==
    <<Get("prices"), Set("prices")>>
        \o Each(Upto(Tracked), LAMBDA item : <<Once("recipe", item)>>)
        \o <<Missing("ingredients"), Set("craft_profits")>>

PollCommerce ==
    <<Get("exchange/coins"), Get("exchange/gems"), Get("delivery"),
      Soft("open", 1), Soft("open", 2), Set("commerce")>>
        \o IF Tracked > 0 THEN PollCrafts ELSE <<>>

(* Poller.Start: one goroutine per family.                                 *)
Plan ==
    [account      |-> PollAccount,      wallet     |-> PollWallet,
     characters   |-> PollCharacters,   progression |-> PollProgression,
     achievements |-> PollAchievements, storage    |-> PollStorage,
     wizardsvault |-> PollWizardsVault, guild      |-> PollGuild,
     value        |-> PollValue,        resets     |-> PollResets,
     story        |-> PollStory,        wvw        |-> PollWvW,
     pvp          |-> PollPvP,          unlocks    |-> PollUnlocks,
     wardrobe     |-> PollWardrobe,     transactions |-> PollTransactions,
     commerce     |-> PollCommerce]

-----------------------------------------------------------------------------
(* What the snapshot of each key is made of: the fields of the structs of  *)
(* internal/store, and the slices and maps the setters take.  Answers the  *)
(* code treats as optional are left out (leader-only guild data and open   *)
(* orders), and so are definitions that are kept from poll to poll.        *)
Whole(path) == {<<path, 0>>}
AllOf(path, n) == {<<path, i>> : i \in 1..n}

Needs ==
    [account      |-> Whole("account"),
     wallet       |-> Whole("wallet"),
     characters   |-> Whole("characters"),
     progression  |-> {<<e, 0>> : e \in {"masteries", "mastery/points", "luck",
                          "progression", "legendaryarmory", "armory"}},
     legendary    |-> Whole("achievements"),
     achievements |-> Whole("achievements"),
     storage      |-> {<<e, 0>> : e \in {"bank", "inventory", "materials"}},
     wizardsvault |-> AllOf("wizardsvault", 3),
     guild        |-> {<<"guild", Guilds[n]>> : n \in 1..Len(Guilds)},
     value        |-> {<<e, 0>> : e \in {"bank", "materials", "inventory",
                          "characters", "wallet", "exchange/gems", "prices"}},
     resets       |-> AllOf("resets", ResetKinds),
     story        |-> AllOf("quests", Roster),
     wvw          |-> Whole("account") \union Whole("match"),
     pvp          |-> Whole("pvp/stats"),
     standings    |-> Whole("standings"),
     unlocks      |-> AllOf("unlocks", Collections),
     wardrobe     |-> Whole("skins") \union Whole("dyes"),
     commerce     |-> {<<e, 0>> : e \in {"exchange/coins", "exchange/gems",
                                         "delivery"}},
     prices       |-> Whole("prices"),
     craft_profits |-> Whole("prices")]
=============================================================================
