--------------------------- MODULE MCCollectionRun ---------------------------
(* Three links: a mirrors the text of b, c is a directory that shows b.     *)
EXTENDS IntelligenceRun

CONSTANTS a, b, c, x, y

MCBodyOf == [l \in {a, b, c} |-> IF l = c THEN y ELSE x]
MCFinalOf == [l \in {a, b, c} |-> l]
MCChildrenOf == [l \in {a, b, c} |-> IF l = c THEN {b} ELSE {}]
MCLimit == [http |-> 1, browser |-> 2, auth |-> 1, gateway |-> 5, vision |-> 2]
=============================================================================
