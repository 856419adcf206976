----------------------------- MODULE MCCollection -----------------------------
(* Three quests of two seasons, the last new in build 2; one guild led and *)
(* one not; ore that is traded and is a material, a rune that is worn, and *)
(* an account-bound blade.                                                 *)
EXTENDS Collection

MCSlices == {{"story"}, {"account", "guild"}, {"commerce", "prices"},
             {"storage", "standings"}, {"value"}}

MCTimed == {{"story"}, {"commerce", "prices"}}

MCQuests == 1..3
MCSeasonOf == <<"hot", "pof", "hot">>
MCIntroduced == <<1, 1, 2>>

MCGuilds == {"own", "other"}
MCLed == {"own"}

MCItems == {"ore", "rune", "blade"}
MCBuys == [ore |-> 1, rune |-> 3]
MCSells == [ore |-> 2, rune |-> 5]
MCCategoryOf == [ore |-> "basic", rune |-> "none", blade |-> "none"]
MCAccepts ==
    [bank |-> MCItems, materials |-> {"ore"}, shared |-> MCItems,
     characters |-> MCItems, equipment |-> {"rune", "blade"}]
MCAtFirst ==
    [bank       |-> [ore |-> 0, rune |-> 0, blade |-> 0],
     materials  |-> [ore |-> 2, rune |-> 0, blade |-> 0],
     shared     |-> [ore |-> 0, rune |-> 0, blade |-> 0],
     characters |-> [ore |-> 0, rune |-> 0, blade |-> 0],
     equipment  |-> [ore |-> 0, rune |-> 1, blade |-> 1]]
=============================================================================
