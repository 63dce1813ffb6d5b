------------------------------- MODULE MCCache -------------------------------
(* Small caches for model checking: two indices per way.  Data cache (2   *)
(* words a row): words 0-1, 4-5 and 8-9 are blocks of index 0 with tags   *)
(* 0, 1 and 2.  Instruction cache (4 words a row): words 0-3 and 8-11 are *)
(* blocks of index 0, words 4-7 of index 1.                               *)
EXTENDS Cache

R(a, s) == [kind |-> "r", addr |-> a, size |-> s, val |-> 0]
W(a, s, v) == [kind |-> "w", addr |-> a, size |-> s, val |-> v]

\* neighbouring words differ, and so do the words at the same offset of
\* the blocks of one index
MCMemD == [w \in 0..11 |-> w % 3]
MCMemI == [w \in 0..15 |-> (w + w \div 4) % 4]

\* four accesses, each any read or write of index 0's three blocks
AnyD == {R(0, 4), R(4, 8), R(8, 4), W(0, 4, 3), W(4, 8, 3), W(8, 8, 3)}
ProgD == <<AnyD, AnyD, AnyD, AnyD>>
\* read a block, write it (a hit), then evict it with two other blocks
ProgWriteHit == <<{R(0, 4)}, {W(0, 4, 3)}, {R(4, 4)}, {R(8, 4)}, {R(0, 4)}>>
\* fill both ways, then write the block of way 1
ProgWayOne == <<{R(0, 4)}, {R(4, 4)}, {W(4, 4, 3)}, {R(0, 4)}>>
\* way 0 dirty, way 1 clean, then a 4-byte write miss
ProgOob == <<{W(8, 8, 3)}, {R(0, 4)}, {W(4, 4, 3)}>>

\* fetches from both indices, at every offset of a row
AnyI == {R(0, 4), R(1, 4), R(5, 4), R(10, 4), R(15, 4)}
ProgI == <<AnyI, AnyI, AnyI>>
\* one fetch from the middle of a row
ProgMid == <<{R(1, 4)}>>
\* a fetch, redirected to another block while its fill is pending
ProgRedirect == <<{R(0, 4), R(8, 4)}>>
=============================================================================
