--------------------------- MODULE MCCandleCache ----------------------------
(* Small instances of CandleCache for TLC: two clients of one symbol.      *)
EXTENDS CandleCache, TLC

CONSTANTS c1, c2

MCClients == {c1, c2}
MCSymmetry == Permutations(MCClients)

MCBars      == {[price |-> 1, volume |-> 1]}
MCDirtyBars == {[price |-> 1, volume |-> 1], [price |-> 2, volume |-> -1]}

MCNewDisk   == {NoFile, Unreadable, {}}
\* Unreadable bytes, a row without a date, and two bars of one day.
Good == [price |-> 1, volume |-> 1]
MCDirtyDisk == {Unreadable, {[day |-> d, bar |-> Good] : d \in {Undated, 1}},
                {[day |-> 1, bar |-> b] : b \in MCDirtyBars}}

MCDownloaders       == [c \in MCClients |-> {"direct", "prefetch"}]
MCRepairAndPrefetch == [c \in MCClients |-> IF c = c1 THEN {"repair"} ELSE {"prefetch"}]
MCReaders           == [c \in MCClients |-> {"direct"}]
=============================================================================
