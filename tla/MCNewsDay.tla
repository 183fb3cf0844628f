------------------------------- MODULE MCNewsDay -------------------------------
(* Small instances of NewsDay for TLC. *)
EXTENDS NewsDay, TLC

CONSTANTS premium, lite, newsroom, office

TwoModels == {premium, lite}
TwoProcs == {newsroom, office}
PremiumChain == <<premium, lite>>
RoutineChain == <<lite>>
Trades == {"trade"}
OnePerMinute == premium :> 1 @@ lite :> 1
TwoPerDay == premium :> 2 @@ lite :> 2
=============================================================================
