--------------------------- MODULE MC_StoreReaders ---------------------------
EXTENDS StoreReaders, TLC
CONSTANTS r1, s1, s2, noarch, a, b, short, unseen, absent
MCArch == [p \in Packages |-> noarch]
MCPayloadLen == [p \in Packages |-> 1]
Symmetry == Permutations(Readers) \cup Permutations(Names)

\* What tells two states apart: not the locals of an upload that is over,
\* nor what torn holds (Cardinality has TLC evaluate it before it is stored).
View == <<present, disk, burst, Cardinality(torn) \in Nat, readers,
          [q \in Requests |-> IF pc[q] \in InFlight
                              THEN <<pc[q], path[q], pkg[q], off[q]>> ELSE <<>>]>>
=============================================================================
