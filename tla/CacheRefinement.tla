---------------------------- MODULE CacheRefinement ----------------------------
(***************************************************************************)
(* The instruction cache implements a read-only memory: the proof that     *)
(* Cache, with CType = "I", refines ROM under the mapping addr <- acc.addr *)
(* (RefinesROM), for every number of blocks, memory image and fetch        *)
(* program, with or without redirects of the pc.                           *)
(*                                                                         *)
(* The one hypothesis besides the cache type is the harness's: a           *)
(* memory_read of n bytes fills the row from the start of the n-byte block *)
(* that holds the address (AlignedReads).  evict_read passes the access's  *)
(* own address (cache.c 71); under the other reading TLC finds the         *)
(* refinement violated (MCCache_unaligned.cfg).                            *)
(*                                                                         *)
(* The step argument needs an invariant: the instruction cache never       *)
(* writes, so the store keeps its initial image and every request is a     *)
(* read, and a valid row holds the words of the block its tag and index    *)
(* name.  A fetch then returns the word at its address whether it hits or  *)
(* fills, and every other step leaves the fetch unanswered.                *)
(***************************************************************************)
EXTENDS CacheProofs

\* the requests a cache that only reads leaves in the store
ReadReqs == {Store!Idle, Store!Done, Store!RPending}

\* every valid row holds the words of its block
RowsHoldBlocks ==
  \A i \in RowIds : rows[i].valid =>
    rows[i].data = Store!ReadWords(MemInit, (rows[i].tag * NBlocks + i) * WPB, WPB)

RomInv ==
  /\ IInv
  /\ mem = MemInit /\ req \in [Words -> ReadReqs]
  /\ RowsHoldBlocks
  /\ acc.size = 4

\* the row evict_read installs on a fill, and the row it leaves on a miss
\* still waiting for memory, on the instruction cache (no write-back)
Filled(a) == [tag |-> TagOf(a), valid |-> TRUE, dirty |-> FALSE,
              data |-> Store!ReadWords(mem, ReadBase(a), WPB)]
Kept(r) == [tag |-> r.tag, valid |-> r.valid, dirty |-> FALSE, data |-> r.data]

IEvictEffect(e, a, got, okR) ==
  /\ e.mem = mem /\ e.oob = FALSE
  /\ e.req = IF fu THEN req ELSE Store!ReadReq(req, a, okR)
  /\ e.row = IF got THEN IndexOf(a) ELSE -1
  /\ e.rows = [rows EXCEPT ![IndexOf(a)] =
                 IF got THEN Filled(a) ELSE Kept(rows[IndexOf(a)])]

-----------------------------------------------------------------------------
(* Arithmetic: the tag and index of an address name its block.            *)

LEMMA DivUnique ==
  ASSUME NEW x \in Nat, NEW d \in Nat \ {0}, NEW q \in Nat, NEW r \in Nat,
         x = d * q + r, r < d
  PROVE  x \div d = q /\ x % d = r
  BY SMT

LEMMA DivProduct ==
  ASSUME NEW a \in Nat, NEW N \in Nat \ {0}
  PROVE  (a \div (4 * N)) * N + ((a \div 4) % N) = a \div 4
  <1> DEFINE q == a \div 4
             Q == q \div N
             R == q % N
             r0 == a % 4
  <1>1. /\ q \in Nat /\ Q \in Nat /\ R \in 0..N-1 /\ r0 \in 0..3
        /\ a = 4 * q + r0 /\ q = N * Q + R
    BY SMT DEF q, Q, R, r0
  <1>2. a = 4 * (N * Q) + (4 * R + r0)
    BY <1>1, SMT
  <1>3. /\ 4 * R + r0 < 4 * N /\ 4 * R + r0 \in Nat /\ 4 * N \in Nat \ {0}
        /\ 4 * (N * Q) = (4 * N) * Q
    BY <1>1, SMT
  <1>4. a \div (4 * N) = Q
    BY <1>1, <1>2, <1>3, DivUnique
  <1>5. QED
    BY <1>1, <1>4, SMT DEF q, Q, R, r0

\* The instruction cache's geometry.
LEMMA IShape ==
  ASSUME CType = "I"
  PROVE  /\ ~D /\ WPB = 4 /\ Ways = 1
         /\ RowIds = 0..NBlocks-1 /\ Allocated = RowIds
  BY CacheAssumption DEF D, WPB, Ways, RowIds, Allocated

\* An instruction-cache row's tag and index name the block of an address
\* that maps to it, and the word at the subindex is the address's word.
LEMMA BlockOfAddress ==
  ASSUME CType = "I", NEW a \in Words
  PROVE  /\ (TagOf(a) * NBlocks + IndexOf(a)) * WPB = a - SubOf(a)
         /\ Store!ReadWords(MemInit, a - SubOf(a), WPB)[SubOf(a)] = MemInit[a]
  <1>1. WPB = 4 /\ a \in Nat /\ NBlocks \in Nat \ {0}
    BY IShape, CacheAssumption
  <1>2. TagOf(a) * NBlocks + IndexOf(a) = a \div 4
    BY <1>1, DivProduct DEF TagOf, IndexOf
  <1>3. (a \div 4) * 4 = a - SubOf(a) /\ SubOf(a) \in 0..3
    BY <1>1, SMT DEF SubOf
  <1>4. (a - SubOf(a)) + SubOf(a) = a
    BY <1>1, <1>3, SMT
  <1>5. SubOf(a) \in 0..WPB-1 /\ (a - SubOf(a)) + SubOf(a) \in DOMAIN MemInit
    BY <1>1, <1>3, <1>4 DEF Words
  <1>6. QED
    BY <1>1, <1>2, <1>3, <1>4, <1>5, SMT DEF Store!ReadWords

\* evict_read on the instruction cache (cache.c 31-78): no row is dirty
\* that it must write back, so it evicts the address's own row, issues
\* (or follows up) the read and installs the block when the read has
\* completed, and otherwise leaves the row's tag, valid bit and words.
LEMMA IEvictRead ==
  ASSUME CType = "I", TypeInv, NEW a \in Words,
         NEW okW \in BOOLEAN, NEW okR \in BOOLEAN
  PROVE  IEvictEffect(EvictRead(a, IndexOf(a), TagOf(a), okW, okR), a,
                      IF fu THEN Store!Completed(req, a) ELSE okR, okR)
<1> DEFINE i  == IndexOf(a)
           t  == TagOf(a)
           r  == rows[i]
           got == IF fu THEN Store!Completed(req, a) ELSE okR
<1>1. ~D /\ i \in Allocated /\ i \in RowIds
  BY IShape, AddressFields
<1>2. EvictIndex(i) = i
  BY <1>1, EvictIndexRange
<1>3. r \in Row
  BY <1>1 DEF TypeInv
<1>4. (r.dirty /\ FALSE) = FALSE
  BY <1>3 DEF Row
<1>5. LET e == EvictRead(a, i, t, okW, okR) IN
        /\ e.mem = mem /\ e.oob = FALSE
        /\ e.req = IF fu THEN req ELSE Store!ReadReq(req, a, okR)
        /\ e.row = IF got THEN i ELSE -1
        /\ e.rows = [rows EXCEPT ![i] =
             IF got THEN [tag |-> t, valid |-> TRUE, dirty |-> FALSE,
                          data |-> Store!ReadWords(mem, ReadBase(a), WPB)]
             ELSE [tag |-> r.tag, valid |-> r.valid, dirty |-> r.dirty /\ FALSE,
                   data |-> r.data]]
  BY <1>1, <1>2 DEF EvictRead, FillReq
<1>6. QED
  BY <1>4, <1>5 DEF IEvictEffect, Filled, Kept

\* A one-word read returns the word at the subindex.
LEMMA OneWord ==
  ASSUME NEW d, NEW s \in Int
  PROVE  Value(d, s, 4) = <<d[s]>>
  <1>1. 1..(4 \div 4) = 1..1 /\ s + 1 - 1 = s
    BY SMT
  <1>2. QED
    BY <1>1 DEF Value
-----------------------------------------------------------------------------
(* The invariant and the refinement, one action at a time.                 *)

\* construct_cache starts every row invalid and the store holds the image.
LEMMA RomInit ==
  ASSUME CType = "I", Init
  PROVE  RomInv /\ ROMSpec!Init
<1>1. IInv
  BY InitIInv
<1>2. Allocated = RowIds
  BY IShape
<1>3. RowsHoldBlocks
  BY <1>2 DEF Init, RowsHoldBlocks, EmptyRow
<1>4. mem = MemInit /\ req \in [Words -> ReadReqs] /\ acc.size = 4
  BY DEF Init, ReadReqs, NoAccess
<1>5. ROMSpec!Init
  <2>1. NoAccess.addr \in Words
    BY CacheAssumption DEF NoAccess
  <2>2. QED
    BY <2>1 DEF Init, ROMSpec!Init, Words
<1>6. QED
  BY <1>1, <1>3, <1>4, <1>5 DEF RomInv

\* The accesses fetch makes are 4-byte reads of a word of the store.
LEMMA FetchAccess ==
  ASSUME CType = "I", NEW n \in 1..Len(Program), NEW x \in Program[n]
  PROVE  x.size = 4 /\ x.addr \in Words /\ x.addr \in DOMAIN MemInit
BY CacheAssumption DEF AccessT, Words

\* Fetch takes up the next pc: a request of the memory.
LEMMA RomStart ==
  ASSUME CType = "I", RomInv, Start
  PROVE  RomInv' /\ ROMSpec!Next
<1>1. IInv'
  BY OtherSteps DEF RomInv
<1>2. PICK x \in Program[count + 1] : acc' = x
  BY DEF Start
<1>3. count + 1 \in 1..Len(Program)
  BY DEF Start, RomInv, IInv, TypeInv
<1>4. x.size = 4 /\ x.addr \in DOMAIN MemInit
  BY <1>3, FetchAccess
<1>5. RomInv'
  BY <1>1, <1>2, <1>4 DEF Start, RomInv, RowsHoldBlocks
<1>6. ROMSpec!Request(x.addr)
  BY <1>2 DEF Start, ROMSpec!Request
<1>7. QED
  BY <1>4, <1>5, <1>6 DEF ROMSpec!Next

\* A redirect of the pc retargets the pending request.
LEMMA RomRedirect ==
  ASSUME CType = "I", RomInv, RedirectPc
  PROVE  RomInv' /\ ROMSpec!Next
<1>1. IInv'
  BY OtherSteps DEF RomInv
<1>2. PICK x \in Program[count] : acc' = x
  BY DEF RedirectPc
<1>3. count \in 1..Len(Program)
  BY DEF RedirectPc, RomInv, IInv, TypeInv
<1>4. x.size = 4 /\ x.addr \in DOMAIN MemInit
  BY <1>3, FetchAccess
<1>5. RomInv'
  BY <1>1, <1>2, <1>4 DEF RedirectPc, RomInv, RowsHoldBlocks
<1>6. ROMSpec!Retarget(x.addr)
  BY <1>2 DEF RedirectPc, ROMSpec!Retarget
<1>7. QED
  BY <1>4, <1>5, <1>6 DEF ROMSpec!Next

\* The store completes a read: the image stays as it was.
LEMMA RomMemComplete ==
  ASSUME RomInv, NEW w \in Words, MemComplete(w)
  PROVE  RomInv' /\ UNCHANGED ROMSpec!vars
<1>1. IInv'
  BY OtherSteps DEF RomInv
<1>2. req[w] \in ReadReqs
  BY DEF RomInv
<1>3. req[w].st # "wpend"
  BY <1>2 DEF ReadReqs, Store!Idle, Store!Done, Store!RPending
<1>4. mem' = MemInit
  BY <1>3 DEF MemComplete, Store!CompleteMem, RomInv
<1>5. req' \in [Words -> ReadReqs]
  BY DEF MemComplete, Store!CompleteReq, RomInv, ReadReqs
<1>6. QED
  BY <1>1, <1>4, <1>5 DEF MemComplete, RomInv, RowsHoldBlocks, ROMSpec!vars
\* A call of read_access (cache.c 80-152) answers the fetch with the word
\* the store holds at its address, from a hit row or from the row just
\* filled, or leaves it pending (a miss waiting for memory, or no memory
\* port this cycle).
LEMMA RomCall ==
  ASSUME CType = "I", AlignedReads = TRUE, RomInv, Call
  PROVE  RomInv' /\ [ROMSpec!Next]_ROMSpec!vars
<1> DEFINE a == acc.addr
           i == IndexOf(a)
           t == TagOf(a)
           d == Store!ReadWords(MemInit, a - SubOf(a), WPB)
<1>1. IInv'
  BY CallStep DEF RomInv
<1>2. /\ ~D /\ WPB = 4 /\ acc.kind = "r" /\ acc.size = 4 /\ busy
      /\ a \in Words /\ i \in RowIds /\ i # -1 /\ SubOf(a) \in Int
      /\ rows \in [RowIds -> Row] /\ mem = MemInit
      /\ req \in [Words -> ReadReqs] /\ RowsHoldBlocks
  BY IShape, AddressFields DEF RomInv, IInv, TypeInv, AccessT, Call
<1>3. TypeInv
  BY DEF RomInv, IInv
<1>4. PICK okW \in BOOLEAN, okR \in BOOLEAN : ReadAccess(okW, okR)
  BY <1>2 DEF Call
<1>5. acc' = acc /\ busy' = (ret' # 0) /\ busy = TRUE
  BY <1>3 DEF Call, TypeInv
<1>6. (t * NBlocks + i) * WPB = a - SubOf(a) /\ d[SubOf(a)] = MemInit[a]
  BY <1>2, BlockOfAddress
<1>7. HitRow(a, acc.size) = IF Hit(i, t) THEN i ELSE -1
  BY <1>2 DEF HitRow
<1>8. CASE Hit(i, t)
  <2>1. ret' = 0 /\ out' = Value(rows[i].data, SubOf(a), 4)
        /\ UNCHANGED <<rows, mem, req>>
    BY <1>2, <1>4, <1>7, <1>8 DEF ReadAccess
  <2>2. rows[i].data = d
    BY <1>2, <1>6, <1>8 DEF RowsHoldBlocks, Hit
  <2>3. out' = <<MemInit[a]>>
    BY <1>2, <1>6, <2>1, <2>2, OneWord
  <2>4. RomInv'
    BY <1>1, <1>2, <1>5, <2>1 DEF RomInv, RowsHoldBlocks
  <2>5. ROMSpec!Respond
    BY <1>2, <1>5, <2>1, <2>3 DEF ROMSpec!Respond
  <2>6. QED
    BY <2>4, <2>5 DEF ROMSpec!Next
<1>9. CASE ~Hit(i, t) /\ ~avail
  <2>1. ret' = 2 /\ UNCHANGED <<rows, mem, req, out>>
    BY <1>4, <1>7, <1>9 DEF ReadAccess
  <2>2. RomInv'
    BY <1>1, <1>2, <1>5, <2>1 DEF RomInv, RowsHoldBlocks
  <2>3. ret' # 0
    BY <2>1, SMT
  <2>a. busy' = busy /\ acc' = acc /\ out' = out
    BY <1>5, <2>1, <2>3, Zenon
  <2>4. UNCHANGED ROMSpec!vars
    BY <2>a DEF ROMSpec!vars
  <2>5. QED
    BY <2>2, <2>4
<1>10. CASE ~Hit(i, t) /\ avail
  <2> DEFINE e   == EvictRead(a, i, t, okW, okR)
             got == IF fu THEN Store!Completed(req, a) ELSE okR
  <2>1. /\ Apply(e)
        /\ IF e.row = -1 THEN ret' = 1 /\ UNCHANGED out
           ELSE ret' = 0 /\ out' = Value(e.rows[e.row].data, SubOf(a), acc.size)
    BY <1>4, <1>7, <1>10 DEF ReadAccess
  <2>2. IEvictEffect(e, a, got, okR)
    BY <1>2, <1>3, IEvictRead
  <2>3. /\ rows' = [rows EXCEPT ![i] = IF got THEN Filled(a) ELSE Kept(rows[i])]
        /\ mem' = MemInit
        /\ req' = IF fu THEN req ELSE Store!ReadReq(req, a, okR)
        /\ e.row = IF got THEN i ELSE -1
    BY <1>2, <2>1, <2>2 DEF Apply, IEvictEffect
  <2>4. req' \in [Words -> ReadReqs]
    BY <1>2, <2>3 DEF Store!ReadReq, ReadReqs
  <2>5. Filled(a).data = d
    BY <1>2 DEF Filled, ReadBase
  <2>6. RowsHoldBlocks'
    <3> SUFFICES ASSUME NEW j \in RowIds, rows'[j].valid
                 PROVE  rows'[j].data =
                          Store!ReadWords(MemInit, (rows'[j].tag * NBlocks + j) * WPB, WPB)
      BY DEF RowsHoldBlocks
    <3>1. CASE j # i
      BY <1>2, <2>3, <3>1 DEF RowsHoldBlocks
    <3>2. CASE j = i /\ got
      <4>1. rows'[j] = Filled(a)
        BY <1>2, <2>3, <3>2
      <4>2. QED
        BY <1>6, <2>5, <3>2, <4>1 DEF Filled
    <3>3. CASE j = i /\ ~got
      <4>1. rows'[j] = Kept(rows[i])
        BY <1>2, <2>3, <3>3
      <4>2. QED
        BY <1>2, <3>3, <4>1 DEF Kept, RowsHoldBlocks
    <3>4. QED
      BY <3>1, <3>2, <3>3
  <2>7. RomInv'
    BY <1>1, <1>5, <2>3, <2>4, <2>6 DEF RomInv
  <2>8. CASE got
    <3>1. ret' = 0 /\ out' = Value(Filled(a).data, SubOf(a), 4)
      BY <1>2, <2>1, <2>2, <2>3, <2>8 DEF IEvictEffect
    <3>2. out' = <<MemInit[a]>>
      BY <1>2, <1>6, <2>5, <3>1, OneWord
    <3>3. ROMSpec!Respond
      BY <1>2, <1>5, <3>1, <3>2 DEF ROMSpec!Respond
    <3>4. QED
      BY <2>7, <3>3 DEF ROMSpec!Next
  <2>9. CASE ~got
    <3>1. ret' = 1 /\ UNCHANGED out
      BY <2>1, <2>3, <2>9
    <3>a. ret' # 0
      BY <3>1, SMT
    <3>2. busy' = busy /\ acc' = acc /\ out' = out
      BY <1>5, <3>1, <3>a, Zenon
    <3>3. UNCHANGED ROMSpec!vars
      BY <3>2 DEF ROMSpec!vars
    <3>4. QED
      BY <2>7, <3>3
  <2>10. QED
    BY <2>8, <2>9
<1>11. QED
  BY <1>8, <1>9, <1>10
\* Every step of the instruction cache keeps RomInv and is a step of the
\* read-only memory or leaves fetch's view of it unchanged.
LEMMA RomNext ==
  ASSUME CType = "I", AlignedReads = TRUE, RomInv, [Next]_vars
  PROVE  RomInv' /\ [ROMSpec!Next]_ROMSpec!vars
<1>1. CASE Start
  BY <1>1, RomStart
<1>2. CASE Call
  BY <1>2, RomCall
<1>3. CASE RedirectPc
  BY <1>3, RomRedirect
<1>4. CASE \E w \in Words : MemComplete(w)
  BY <1>4, RomMemComplete
<1>5. CASE Finished \/ UNCHANGED vars
  <2>1. IInv'
    BY <1>5, OtherSteps DEF RomInv
  <2>2. UNCHANGED <<rows, mem, req, acc, busy, out>>
    BY <1>5 DEF Finished, vars
  <2>3. QED
    BY <2>1, <2>2 DEF RomInv, RowsHoldBlocks, ROMSpec!vars
<1>6. QED
  BY <1>1, <1>2, <1>3, <1>4, <1>5 DEF Next

\* The instruction cache implements a read-only memory, for every number
\* of blocks, memory image and fetch program, with or without redirects
\* of the pc: every fetch read_access answers returns the word the store
\* holds at the fetch's address, and the answer comes only for a pending
\* fetch (cache.c 80-152 with evict_read, 31-78; riscv_virtualizer.c 1011).
THEOREM InstructionCacheRefinesROM ==
  ASSUME CType = "I", AlignedReads = TRUE
  PROVE  Spec => RefinesROM
<1>1. Init => RomInv /\ ROMSpec!Init
  BY RomInit
<1>2. RomInv /\ [Next]_vars => RomInv' /\ [ROMSpec!Next]_ROMSpec!vars
  BY RomNext
<1>3. QED
  BY <1>1, <1>2, PTL DEF Spec, RefinesROM, ROMSpec!Spec
=============================================================================
