------------------------------- MODULE MCPoller -------------------------------
(* The plans of PollPlans on the machine of Poller, for two guilds of      *)
(* which the first is led, and loops of two turns.                         *)
EXTENDS PollPlans, Poller

MCFamilies == DOMAIN Plan

MCGuilds == <<1, 2>>
MCLed == {1}
MCLacksNothing == {}
MCLacks == {<<"guilds", 1>>, <<"world", 1>>}
MCLate == {"pvp", "commerce"}

(* Families that read each other's snapshots run together; the others have *)
(* nothing in common and run in pairs or alone.                            *)
MCSlices == {{"account", "wvw"}, {"guild"}, {"characters", "story"},
             {"wallet", "storage"}, {"progression"}, {"achievements"},
             {"wizardsvault"}, {"value"}, {"resets"}, {"pvp"}, {"unlocks"},
             {"wardrobe"}, {"transactions"}, {"commerce"}}
MCPvP == {{"pvp"}}
MCTransactions == {{"transactions"}}

(* For liveness: two families linked by the account snapshot.              *)
MCLinkedFamilies == {"account", "wvw"}
MCLinked == {MCLinkedFamilies}
=============================================================================
