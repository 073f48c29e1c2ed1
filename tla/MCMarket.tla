------------------------------- MODULE MCMarket -------------------------------
(* Instances of Market small enough for TLC. *)
EXTENDS Market

\* The symbol that fails comes first.
FlakyFirst == <<"BTCUSDT", "ETHUSDT">>
FlakySymbol == {"BTCUSDT"}
BothSymbols == ToSet(FlakyFirst)

\* The prices of ETHUSDT call for both strategies, stay in reach of an entry
\* (1010 and 1013) and leave it.
MCQuotes == [s \in BothSymbols |-> IF s = "BTCUSDT" THEN {1000} ELSE {960, 1010, 1013}]

SomeModes == {"OBSERVE_ONLY", "LIVE"}
=============================================================================
