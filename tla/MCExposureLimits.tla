-------------------------- MODULE MCExposureLimits --------------------------
(***************************************************************************)
(* Three orders: two buys in a symbol with multiplier 2, a sell in another. *)
(***************************************************************************)
EXTENDS ExposureLimits

CONSTANTS b1, b2, s1, fut, eq

MCSymbolOf == [o \in {b1, b2, s1} |-> IF o = s1 THEN eq ELSE fut]
MCSign == [o \in {b1, b2, s1} |-> IF o = s1 THEN -1 ELSE 1]
MCLots == [o \in {b1, b2, s1} |-> IF o = b2 THEN 1 ELSE 2]
MCMultiplier == [s \in {fut, eq} |-> IF s = fut THEN 2 ELSE 1]
=============================================================================
