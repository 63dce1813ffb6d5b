-------------------------------- MODULE MCTLB --------------------------------
(* Page tables and addresses for model checking the TLB.  The first-level *)
(* table is at 64; its entry for superpages 0..255 points at a second-    *)
(* level table at 4096 (base 1); the next one (68) is invalid.            *)
EXTENDS TLB, TLC

PTE_(v, b) == [valid |-> v, base |-> b]

\* second-level entries, one per 4 KB page: a slot maps a 16 KB superpage,
\* so the pages of a superpage map to consecutive frames of one 16 KB frame
\* (base \div 4 is that frame): superpage 0 -> frame 5 (pages 0 and 1; page
\* 2 unmapped), superpage 1 -> frame 8, superpage 2 unmapped, superpage 9 ->
\* frame 7
MCPageTable ==
  64 :> PTE_(TRUE, 1) @@ 68 :> PTE_(FALSE, 0) @@
  4096 :> PTE_(TRUE, 20) @@ 4100 :> PTE_(TRUE, 21) @@ 4104 :> PTE_(FALSE, 0) @@
  4112 :> PTE_(TRUE, 32) @@ 4128 :> PTE_(FALSE, 0) @@ 4240 :> PTE_(TRUE, 28)

\* superpage 0 (slot 0, tag 0), pages 0 and 1; superpage 9 (slot 1, tag 1)
MappedVAs == {16, 4100, 147464}
\* superpage 2 has no second-level entry
FaultVAs == {16, 32768}
\* superpage 1: slot 1 but tag 0
AbortVAs == {16, 16388}
\* page 2 of superpage 0, whose pages 0 and 1 are mapped
PartialVAs == {16, 8192}
\* the mapped ones, the faulting and aborting ones, and an address of the
\* second first-level entry (invalid)
AllVAs == MappedVAs \cup {32768, 16388, 4194304}
\* the first-level entry at 68 made valid, pointing at a second-level table
\* at 8192 that maps superpage 256's page 1024 to frame 10
StaleCsiPageTable ==
  [MCPageTable EXCEPT ![68] = PTE_(TRUE, 2)] @@ 8192 :> PTE_(TRUE, 40)
\* one address under each valid first-level entry
StaleCsiVAs == {16, 4194304}
=============================================================================
