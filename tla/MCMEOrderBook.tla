--------------------------- MODULE MCMEOrderBook ---------------------------
(* MEOrderBook on a few orders, prices and levels.  The two tables are     *)
(* zeroed, or start with a wild pointer in a place that requests lead to.  *)
EXTENDS MEOrderBook

Fresh(wild, places) == [x \in places |-> IF x \in wild THEN Wild ELSE Null]

ZeroedPrices == {Fresh({}, Slots)}
ZeroedIds == {[c \in Clients |-> Fresh({}, OrderIds)]}

OneWildPrice == {Fresh({2}, Slots)}
OneWildId == {[c \in Clients |-> Fresh(IF c = 0 THEN {0} ELSE {}, OrderIds)]}

SomePrices == ZeroedPrices \cup OneWildPrice
SomeIds == ZeroedIds \cup OneWildId
=============================================================================
