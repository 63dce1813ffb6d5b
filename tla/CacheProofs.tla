------------------------------ MODULE CacheProofs ------------------------------
(***************************************************************************)
(* Machine-checked proofs about the cache model of Cache.tla, for every   *)
(* geometry, memory image and access program CacheAssumption allows.      *)
(*                                                                         *)
(* The main result is that the two ways of a data-cache index never hold *)
(* the same block (NoDuplicateLines).  It is not inductive alone: a miss  *)
(* installs a block into the row EvictIndex chooses, and the argument     *)
(* needs that row to be one of the two ways of the missing index (or a    *)
(* row past the array, which no index reads), that the row is a record    *)
(* with a tag and a valid bit, and that the access being served is a      *)
(* well-formed access of the program.  TypeInv states those facts.        *)
(***************************************************************************)
EXTENDS Cache, TLAPS

\* the states of the backing store's per-address requests
ReqT == Store!ReqState([0..WPB-1 -> Vals])

TypeInv ==
  /\ rows \in [RowIds -> Row]
  /\ mem \in [Words -> Vals]
  /\ req \in [Words -> ReqT]
  /\ acc \in AccessT
  /\ busy \in BOOLEAN /\ fu \in BOOLEAN /\ avail \in BOOLEAN
  /\ count \in 0..Len(Program)
  /\ busy => count \in 1..Len(Program)
  /\ ~D => acc.kind = "r"

IInv == TypeInv /\ NoDuplicateLines

\* the part of IInv a call of read_access or write_access may change
CacheOK(rs, m, q) ==
  /\ rs \in [RowIds -> Row] /\ m \in [Words -> Vals] /\ q \in [Words -> ReqT]
  /\ NoDupRows(rs)

\* The index, tag and subindex read_access and write_access compute from
\* an address are a row of the first way, a tag and a word of the row.
LEMMA AddressFields ==
  ASSUME NEW w \in Words
  PROVE  /\ IndexOf(w) \in 0..NBlocks-1
         /\ TagOf(w) \in Nat
         /\ SubOf(w) \in 0..WPB-1
<1>1. NBlocks \in Nat \ {0} /\ w \in Nat /\ WPB \in {2, 4}
  BY CacheAssumption DEF WPB
<1>2. w \div WPB \in Nat
  BY <1>1
<1>3. QED
  BY <1>1, <1>2 DEF IndexOf, TagOf, SubOf

\* The row evict_read picks for a row of the rows array is that row or the
\* other way of its index, and is a row of RowIds.
LEMMA EvictIndexRange ==
  ASSUME NEW j \in Allocated
  PROVE  /\ EvictIndex(j) \in RowIds
         /\ EvictIndex(j) \in {j, j + NBlocks}
         /\ ~D => EvictIndex(j) = j
BY CacheAssumption DEF EvictIndex, Allocated, RowIds, Ways

\* Installing a block into one row keeps the ways of every index apart,
\* when neither way of the block's index held it before and the row is
\* one of those two ways or lies past the array; a row that keeps its
\* tag and valid bit cannot make a duplicate.
LEMMA InstallKeepsApart ==
  ASSUME NEW rs \in [RowIds -> Row], NoDupRows(rs),
         NEW i \in 0..NBlocks-1, NEW t, NEW k \in RowIds, NEW r \in Row,
         ~(rs[i].valid /\ rs[i].tag = t),
         ~(D /\ rs[i + NBlocks].valid /\ rs[i + NBlocks].tag = t),
         k \in {i, i + NBlocks} \/ k >= 2 * NBlocks,
         (r.tag = rs[k].tag /\ r.valid = rs[k].valid) \/ r.tag = t
  PROVE  NoDupRows([rs EXCEPT ![k] = r])
<1>1. NBlocks \in Nat \ {0}
  BY CacheAssumption
<1>2. D => \A x \in 0..NBlocks-1 : x \in RowIds /\ x + NBlocks \in RowIds
  BY <1>1 DEF RowIds
<1>3. QED
  BY <1>1, <1>2 DEF NoDupRows

\* A step that keeps every row's tag and valid bit keeps the ways apart.
LEMMA SameTagsKeepApart ==
  ASSUME NEW rs \in [RowIds -> Row], NoDupRows(rs), NEW k \in RowIds,
         NEW r \in Row, r.tag = rs[k].tag, r.valid = rs[k].valid
  PROVE  NoDupRows([rs EXCEPT ![k] = r])
<1>1. D => \A x \in 0..NBlocks-1 : x \in RowIds /\ x + NBlocks \in RowIds
  BY CacheAssumption DEF RowIds
<1>2. QED
  BY <1>1 DEF NoDupRows

\* evict_read changes at most the row EvictIndex picks, and that row
\* either keeps its tag and valid bit (a stall, a pending fill) or takes
\* the tag of the block being read; the store stays well formed.
EvictEffect(a, j, t, okW, okR) ==
  LET e == EvictRead(a, j, t, okW, okR) IN
  /\ e.mem \in [Words -> Vals]
  /\ e.req \in [Words -> ReqT]
  /\ e.row \in {-1, EvictIndex(j)}
  /\ \E r2 \in Row :
       /\ e.rows = [rows EXCEPT ![EvictIndex(j)] = r2]
       /\ \/ r2.tag = rows[EvictIndex(j)].tag /\ r2.valid = rows[EvictIndex(j)].valid
          \/ r2.tag = t
       /\ e.row # -1 => r2 = e.rows[EvictIndex(j)]

LEMMA EvictReadEffect ==
  ASSUME TypeInv, NEW a \in Words, NEW j \in Allocated, NEW t \in Nat,
         NEW okW \in BOOLEAN, NEW okR \in BOOLEAN
  PROVE  EvictEffect(a, j, t, okW, okR)
<1> DEFINE k     == EvictIndex(j)
           r     == rows[k]
           oa    == OldAddr(r.tag, k)
           wb    == D /\ r.dirty
           wait  == wb /\ fu /\ ~Store!Completed(req, oa)
           stall == wb /\ ~fu /\ ~okW
           m1    == IF wb /\ ~fu THEN Store!WriteMem(mem, oa, r.data, okW) ELSE mem
           q1    == IF wb /\ ~fu THEN Store!WriteReq(req, oa, r.data, okW) ELSE req
           got   == IF fu THEN Store!Completed(req, a) ELSE okR
           r1    == [tag |-> r.tag, valid |-> r.valid, dirty |-> r.dirty /\ stall,
                     data |-> IF got THEN Store!ReadWords(m1, ReadBase(a), WPB) ELSE r.data]
           done  == got /\ ~stall
           r2    == IF done THEN [tag |-> t, valid |-> TRUE, dirty |-> FALSE, data |-> r1.data]
                    ELSE r1
<1> USE DEF TypeInv
<1>1. k \in RowIds
  BY EvictIndexRange
<1>2. r \in Row
  BY <1>1
<1>3. m1 \in [Words -> Vals] /\ q1 \in [Words -> ReqT]
  <2>1. r.data \in [0..WPB-1 -> Vals] /\ okW \in BOOLEAN
    BY <1>2 DEF Row
  <2>2. Store!WriteMem(mem, oa, r.data, okW) \in [Words -> Vals]
    BY <2>1 DEF Store!WriteMem, Store!WriteWords
  <2>3. Store!WriteReq(req, oa, r.data, okW) \in [Words -> ReqT]
    <3>1. Store!WPending(r.data) \in ReqT /\ Store!Done \in ReqT
      BY <2>1 DEF ReqT, Store!ReqState
    <3>2. QED
      BY <3>1 DEF Store!WriteReq
  <2>4. QED
    BY <2>2, <2>3 DEF m1, q1
<1>4. ReadBase(a) \in Int
  BY CacheAssumption DEF ReadBase, SubOf, WPB
<1>5. Store!ReadWords(m1, ReadBase(a), WPB) \in [0..WPB-1 -> Vals]
  BY <1>3, <1>4, CacheAssumption DEF Store!ReadWords
<1>6. r1 \in Row /\ r1.tag = r.tag /\ r1.valid = r.valid
  <2>1. (r.dirty /\ stall) \in BOOLEAN /\ r.data \in [0..WPB-1 -> Vals]
    BY <1>2 DEF Row, stall, wb
  <2>2. (IF got THEN Store!ReadWords(m1, ReadBase(a), WPB) ELSE r.data) \in [0..WPB-1 -> Vals]
    BY <1>5, <2>1
  <2>3. QED
    BY <1>2, <2>1, <2>2 DEF Row, r1
<1>7. r2 \in Row /\ ((r2.tag = r.tag /\ r2.valid = r.valid) \/ r2.tag = t)
  BY <1>6, CacheAssumption DEF Row, r2
<1>8. FillReq(q1, a, okR, stall) \in [Words -> ReqT]
  <2>1. Store!Done \in ReqT /\ Store!RPending \in ReqT
    BY DEF ReqT, Store!ReqState
  <2>2. QED
    BY <1>3, <2>1 DEF FillReq, Store!ReadReq
<1> DEFINE rn == IF wait THEN r ELSE r2
<1>9. rn \in Row /\ ((rn.tag = r.tag /\ rn.valid = r.valid) \/ rn.tag = t)
  BY <1>2, <1>7
<1>10. rows = [rows EXCEPT ![k] = r]
  BY <1>1
<1>11. LET e == EvictRead(a, j, t, okW, okR) IN
         /\ e.rows = [rows EXCEPT ![k] = rn]
         /\ e.mem \in [Words -> Vals] /\ e.req \in [Words -> ReqT]
         /\ e.row \in {-1, k}
         /\ e.row # -1 => rn = e.rows[k]
  BY <1>1, <1>3, <1>8, <1>10
  DEF EvictRead, k, r, oa, wb, wait, stall, m1, q1, got, r1, done, r2, rn
<1>12. QED
  BY <1>9, <1>11 DEF EvictEffect

\* The words a write stores into a row (memcpy at the subindex) are words
\* of Vals in the row's places; a written row is a row holding the
\* written block's tag.
LEMMA PutType ==
  ASSUME NEW r \in Row, NEW x \in AccessT
  PROVE  Put(r.data, SubOf(x.addr), WordsOf(x)) \in [0..WPB-1 -> Vals]
<1>0. x.addr \in Words /\ x.val \in Vals
  BY DEF AccessT
<1>1. SubOf(x.addr) \in Int /\ 0 \in Vals /\ x.val \in Vals /\ r.data \in [0..WPB-1 -> Vals]
  <2>1. SubOf(x.addr) \in 0..WPB-1
    BY <1>0, AddressFields
  <2>2. QED
    BY <1>0, <2>1, CacheAssumption DEF Row
<1>2. WordsOf(x) \in [1..1 -> Vals] \/ WordsOf(x) \in [1..2 -> Vals]
  BY <1>1 DEF WordsOf
<1>3. QED
  BY <1>1, <1>2 DEF Put

LEMMA WrittenRow ==
  ASSUME NEW r \in Row, NEW x \in AccessT
  PROVE  /\ Written(r, x.addr, WordsOf(x)) \in Row
         /\ Written(r, x.addr, WordsOf(x)).tag = TagOf(x.addr)
<1>1. TagOf(x.addr) \in Nat
  BY AddressFields DEF AccessT
<1>2. QED
  BY <1>1, PutType DEF Written, Row

\* A write-back issued to any address keeps the store well formed.
StoreWriteOK(oa, d, ok) ==
  /\ Store!WriteMem(mem, oa, d, ok) \in [Words -> Vals]
  /\ Store!WriteReq(req, oa, d, ok) \in [Words -> ReqT]

LEMMA StoreWriteType ==
  ASSUME TypeInv, NEW oa, NEW d \in [0..WPB-1 -> Vals], NEW ok \in BOOLEAN
  PROVE  StoreWriteOK(oa, d, ok)
<1>1. Store!WriteMem(mem, oa, d, ok) \in [Words -> Vals]
  BY DEF TypeInv, Store!WriteMem, Store!WriteWords
<1>2. Store!WPending(d) \in ReqT /\ Store!Done \in ReqT
  BY DEF ReqT, Store!ReqState
<1>3. Store!WriteReq(req, oa, d, ok) \in [Words -> ReqT]
  BY <1>2 DEF TypeInv, Store!WriteReq
<1>4. QED
  BY <1>1, <1>3 DEF StoreWriteOK

\* The state the harness starts the cache in satisfies the invariant:
\* rows_array is zeroed (no valid row), the rest of the heap is anything.
THEOREM InitIInv == Init => IInv
<1> SUFFICES ASSUME Init PROVE IInv
  OBVIOUS
<1>1. EmptyRow \in Row
  BY CacheAssumption DEF EmptyRow, Row
<1>2. rows \in [RowIds -> Row]
  <2>1. \A x, y \in BOOLEAN : [tag |-> 0, data |-> EmptyRow.data, dirty |-> y, valid |-> x] \in Row
    BY <1>1 DEF Row
  <2>2. QED
    BY <1>1, <2>1 DEF Init
<1>3. NoDuplicateLines
  <2>1. D => \A x \in 0..NBlocks-1 : x \in Allocated /\ x + NBlocks \in Allocated
    BY CacheAssumption DEF Allocated, Ways
  <2>2. Allocated \subseteq RowIds
    BY CacheAssumption DEF Allocated, Ways, RowIds
  <2>3. QED
    BY <2>1, <2>2 DEF Init, NoDuplicateLines, NoDupRows, EmptyRow
<1>4. NoAccess \in AccessT
  BY CacheAssumption DEF NoAccess, AccessT
<1>5. Store!Idle \in ReqT
  BY DEF ReqT, Store!ReqState
<1>6. Len(Program) \in Nat /\ MemInit \in [Words -> Vals]
  BY CacheAssumption
<1>7. /\ mem \in [Words -> Vals] /\ req \in [Words -> ReqT] /\ acc \in AccessT
      /\ busy = FALSE /\ fu = FALSE /\ avail = TRUE /\ count = 0
      /\ acc.kind = "r"
  BY <1>4, <1>5, <1>6 DEF Init, NoAccess
<1>8. TypeInv
  <2>1. count \in 0..Len(Program) /\ (busy => count \in 1..Len(Program))
    BY <1>6, <1>7
  <2>2. busy \in BOOLEAN /\ fu \in BOOLEAN /\ avail \in BOOLEAN
    BY <1>7
  <2>3. QED
    BY <1>2, <1>7, <2>1, <2>2 DEF TypeInv
<1>9. QED
  BY <1>3, <1>8 DEF IInv

\* read_access: a hit and a refused miss change nothing; a miss that
\* goes to evict_read installs the block in a way of its index only
\* after both hit checks failed.
LEMMA ReadStep ==
  ASSUME IInv, NEW okW \in BOOLEAN, NEW okR \in BOOLEAN, ReadAccess(okW, okR)
  PROVE  CacheOK(rows', mem', req')
<1> DEFINE a == acc.addr
           i == IndexOf(a)
           t == TagOf(a)
           h == HitRow(a, acc.size)
           e == EvictRead(a, i, t, okW, okR)
<1>1. a \in Words /\ i \in 0..NBlocks-1 /\ t \in Nat /\ i \in Allocated
  <2>1. a \in Words
    BY DEF IInv, TypeInv, AccessT
  <2>2. i \in 0..NBlocks-1 /\ t \in Nat
    BY <2>1, AddressFields
  <2>3. QED
    BY <2>1, <2>2, CacheAssumption DEF Allocated, Ways
<1>2. CacheOK(rows, mem, req)
  BY DEF IInv, TypeInv, NoDuplicateLines, CacheOK
<1>3. CASE h # -1 \/ ~avail
  BY <1>2, <1>3 DEF ReadAccess
<1>4. CASE h = -1 /\ avail
  <2>1. rows' = e.rows /\ mem' = e.mem /\ req' = e.req
    BY <1>4 DEF ReadAccess, Apply
  <2>2. TypeInv
    BY DEF IInv
  <2>3. EvictEffect(a, i, t, okW, okR)
    BY <1>1, <2>2, EvictReadEffect
  <2>4. PICK r2 \in Row :
          /\ e.rows = [rows EXCEPT ![EvictIndex(i)] = r2]
          /\ \/ r2.tag = rows[EvictIndex(i)].tag /\ r2.valid = rows[EvictIndex(i)].valid
             \/ r2.tag = t
    BY <2>3 DEF EvictEffect
  <2>a. e.mem \in [Words -> Vals] /\ e.req \in [Words -> ReqT]
    BY <2>3 DEF EvictEffect
  <2>5. EvictIndex(i) \in RowIds /\ EvictIndex(i) \in {i, i + NBlocks}
    BY <1>1, EvictIndexRange
  <2>6. D => ~(rows[i].valid /\ rows[i].tag = t) /\ ~(rows[i + NBlocks].valid /\ rows[i + NBlocks].tag = t)
    BY <1>1, <1>4, CacheAssumption DEF HitRow, Hit
  <2>7. NoDupRows([rows EXCEPT ![EvictIndex(i)] = r2])
    <3>1. CASE D
      <4>1. rows \in [RowIds -> Row] /\ NoDupRows(rows)
        BY <1>2 DEF CacheOK
      <4>2. /\ ~(rows[i].valid /\ rows[i].tag = t)
            /\ ~(D /\ rows[i + NBlocks].valid /\ rows[i + NBlocks].tag = t)
        BY <2>6, <3>1
      <4>3. QED
        BY <1>1, <2>4, <2>5, <4>1, <4>2, InstallKeepsApart, Zenon
    <3>2. CASE ~D
      BY <3>2 DEF NoDupRows
    <3>3. QED
      BY <3>1, <3>2
  <2>8. QED
    BY <1>2, <2>1, <2>4, <2>a, <2>5, <2>7 DEF CacheOK
<1>5. QED
  BY <1>3, <1>4

\* write_access: a hit rewrites way 0's words and keeps every tag; a
\* 4-byte miss installs the block through evict_read and then writes it;
\* an 8-byte miss writes the chosen way directly.  In each case the block
\* goes into a way of its index (or past the array) only after both hit
\* checks failed.
LEMMA WriteStep ==
  ASSUME IInv, acc.kind # "r", NEW okW \in BOOLEAN, NEW okR \in BOOLEAN,
         WriteAccess(okW, okR)
  PROVE  CacheOK(rows', mem', req')
<1> DEFINE a  == acc.addr
           i  == IndexOf(a)
           t  == TagOf(a)
           v  == WordsOf(acc)
           hit == Hit(i, t) \/ Hit(i + NBlocks, t)
           j  == EvictIndex(i)
           r  == rows[j]
           oa == OldAddr(r.tag, j)
           e  == EvictRead(a, j, t, okW, okR)
           hr == [tag |-> rows[i].tag, valid |-> rows[i].valid, dirty |-> rows[i].dirty,
                  data |-> Put(rows[i].data, SubOf(a), v)]
<1>1. a \in Words /\ i \in 0..NBlocks-1 /\ t \in Nat /\ i \in Allocated
  <2>1. a \in Words
    BY DEF IInv, TypeInv, AccessT
  <2>2. i \in 0..NBlocks-1 /\ t \in Nat
    BY <2>1, AddressFields
  <2>3. QED
    BY <2>1, <2>2, CacheAssumption DEF Allocated, Ways
<1>2. CacheOK(rows, mem, req) /\ TypeInv /\ acc \in AccessT
  BY DEF IInv, TypeInv, NoDuplicateLines, CacheOK
<1>0. D
  BY DEF IInv, TypeInv
<1>3. j \in Allocated /\ j \in {i, i + NBlocks} /\ (~D => j = i)
  BY <1>1, EvictIndexRange, CacheAssumption DEF Allocated, Ways, RowIds
<1>4. r \in Row
  BY <1>2, <1>3, CacheAssumption DEF CacheOK, Allocated, Ways, RowIds
<1>5. D /\ ~hit => ~(rows[i].valid /\ rows[i].tag = t) /\ ~(rows[i + NBlocks].valid /\ rows[i + NBlocks].tag = t)
  BY DEF Hit
\* a row that takes the written block, at a row k the miss may reach
<1>6. ASSUME NEW k \in RowIds, k \in {i, i + NBlocks} \/ k >= 2 * NBlocks,
             ~hit, NEW w \in Row,
             (w.tag = rows[k].tag /\ w.valid = rows[k].valid) \/ w.tag = t
      PROVE  NoDupRows([rows EXCEPT ![k] = w])
  <2>1. CASE D
    <3>1. rows \in [RowIds -> Row] /\ NoDupRows(rows)
      BY <1>2 DEF CacheOK
    <3>2. /\ ~(rows[i].valid /\ rows[i].tag = t)
          /\ ~(D /\ rows[i + NBlocks].valid /\ rows[i + NBlocks].tag = t)
      BY <1>5, <1>6, <2>1
    <3>3. QED
      BY <1>1, <1>6, <3>1, <3>2, InstallKeepsApart, Zenon
  <2>2. CASE ~D
    BY <2>2 DEF NoDupRows
  <2>3. QED
    BY <2>1, <2>2
<1>7. \/ /\ rows' = rows /\ mem' = mem
         /\ req' \in {req, Store!WriteReq(req, oa, r.data, FALSE)}
      \/ /\ hit /\ rows' = [rows EXCEPT ![i] = hr] /\ mem' = mem /\ req' = req
      \/ /\ ~hit /\ avail /\ e.row = -1
         /\ rows' = e.rows /\ mem' = e.mem /\ req' = e.req
      \/ /\ ~hit /\ avail /\ e.row # -1
         /\ rows' = [e.rows EXCEPT ![e.row] = Written(e.rows[e.row], a, v)]
         /\ mem' = e.mem /\ req' = e.req
      \/ /\ ~hit /\ rows' = [rows EXCEPT ![j] = Written(r, a, v)]
         /\ \/ mem' = mem /\ req' = req
            \/ mem' = Store!WriteMem(mem, oa, r.data, TRUE) /\ req' = Store!WriteReq(req, oa, r.data, TRUE)
  <2>1. CASE hit
    BY <2>1 DEF WriteAccess
  <2>2. CASE ~hit /\ acc.size # 8
    BY <2>2 DEF WriteAccess, Apply
  <2>3. CASE ~hit /\ acc.size = 8
    BY <2>3 DEF WriteAccess
  <2>4. hit \in BOOLEAN
    BY <1>0, <1>1, <1>2, CacheAssumption DEF Hit, CacheOK, Row, RowIds
  <2>5. QED
    BY <2>1, <2>2, <2>3, <2>4, Zenon
<1>8. CASE /\ rows' = rows /\ mem' = mem
           /\ req' \in {req, Store!WriteReq(req, oa, r.data, FALSE)}
  <2>1. StoreWriteOK(oa, r.data, FALSE)
    BY <1>2, <1>4, StoreWriteType DEF Row
  <2>2. QED
    BY <1>2, <1>8, <2>1 DEF CacheOK, StoreWriteOK
<1>9. CASE hit /\ rows' = [rows EXCEPT ![i] = hr] /\ mem' = mem /\ req' = req
  <2>1. i \in RowIds /\ rows[i] \in Row
    BY <1>1, <1>2, CacheAssumption DEF CacheOK, RowIds
  <2>2. Put(rows[i].data, SubOf(a), v) \in [0..WPB-1 -> Vals]
    BY <1>2, <2>1, PutType
  <2>3. hr \in Row /\ hr.tag = rows[i].tag /\ hr.valid = rows[i].valid
    BY <2>1, <2>2 DEF Row
  <2>4. NoDupRows([rows EXCEPT ![i] = hr])
    BY <1>2, <2>1, <2>3, SameTagsKeepApart, Zenon DEF CacheOK
  <2>5. QED
    BY <1>2, <1>9, <2>1, <2>3, <2>4 DEF CacheOK
\* the miss goes through evict_read: its row, and the way it may reach
<1>10. /\ EvictEffect(a, j, t, okW, okR)
       /\ EvictIndex(j) \in RowIds
       /\ EvictIndex(j) \in {i, i + NBlocks} \/ EvictIndex(j) >= 2 * NBlocks
  <2>1. EvictEffect(a, j, t, okW, okR)
    BY <1>1, <1>2, <1>3, EvictReadEffect
  <2>2. EvictIndex(j) \in RowIds /\ EvictIndex(j) \in {j, j + NBlocks}
    BY <1>3, EvictIndexRange
  <2>3. QED
    BY <1>1, <1>3, <2>1, <2>2, CacheAssumption
<1>11. PICK r2 \in Row :
         /\ e.rows = [rows EXCEPT ![EvictIndex(j)] = r2]
         /\ \/ r2.tag = rows[EvictIndex(j)].tag /\ r2.valid = rows[EvictIndex(j)].valid
            \/ r2.tag = t
         /\ e.row # -1 => r2 = e.rows[EvictIndex(j)]
  BY <1>10 DEF EvictEffect
<1>12. e.mem \in [Words -> Vals] /\ e.req \in [Words -> ReqT] /\ e.row \in {-1, EvictIndex(j)}
  BY <1>10 DEF EvictEffect
<1>13. CASE ~hit /\ avail /\ e.row = -1 /\ rows' = e.rows /\ mem' = e.mem /\ req' = e.req
  <2>1. NoDupRows([rows EXCEPT ![EvictIndex(j)] = r2])
    BY <1>6, <1>10, <1>11, <1>13
  <2>2. QED
    BY <1>2, <1>11, <1>12, <1>13, <1>10, <2>1 DEF CacheOK
<1>14. CASE /\ ~hit /\ avail /\ e.row # -1
            /\ rows' = [e.rows EXCEPT ![e.row] = Written(e.rows[e.row], a, v)]
            /\ mem' = e.mem /\ req' = e.req
  <2> DEFINE wr == Written(r2, a, v)
  <2>1. wr \in Row /\ wr.tag = t
    BY <1>2, WrittenRow
  <2>2. rows' = [rows EXCEPT ![EvictIndex(j)] = wr]
    BY <1>10, <1>11, <1>12, <1>14
  <2>3. NoDupRows([rows EXCEPT ![EvictIndex(j)] = wr])
    BY <1>6, <1>10, <1>14, <2>1
  <2>4. QED
    BY <1>2, <1>10, <1>12, <1>14, <2>1, <2>2, <2>3 DEF CacheOK
<1>15. CASE /\ ~hit /\ rows' = [rows EXCEPT ![j] = Written(r, a, v)]
            /\ \/ mem' = mem /\ req' = req
               \/ mem' = Store!WriteMem(mem, oa, r.data, TRUE) /\ req' = Store!WriteReq(req, oa, r.data, TRUE)
  <2>1. Written(r, a, v) \in Row /\ Written(r, a, v).tag = t
    BY <1>2, <1>4, WrittenRow
  <2>2. j \in RowIds /\ (j \in {i, i + NBlocks} \/ j >= 2 * NBlocks)
    BY <1>3, CacheAssumption DEF Allocated, RowIds, Ways
  <2>3. NoDupRows([rows EXCEPT ![j] = Written(r, a, v)])
    BY <1>6, <1>15, <2>1, <2>2
  <2>4. StoreWriteOK(oa, r.data, TRUE)
    BY <1>2, <1>4, StoreWriteType DEF Row
  <2>5. QED
    BY <1>2, <1>15, <2>1, <2>2, <2>3, <2>4 DEF CacheOK, StoreWriteOK
<1>16. QED
  BY <1>7, <1>8, <1>9, <1>13, <1>14, <1>15

\* The inputs of an access's first call are two Booleans.
LEMMA StartInputsType ==
  \A p \in StartInputs : p[1] \in BOOLEAN /\ p[2] \in BOOLEAN
<1> DEFINE S == {<<FALSE, TRUE>>, <<FALSE, FALSE>>, <<TRUE, FALSE>>}
<1>1. \A p \in S : (p[1] = FALSE \/ p[1] = TRUE) /\ (p[2] = FALSE \/ p[2] = TRUE)
  BY DEF S
<1>2. StartInputs \subseteq S
  BY DEF StartInputs, S
<1>3. QED
  BY <1>1, <1>2

\* A request the store reports as a pending write holds the words of a
\* row.
LEMMA WPendingValue ==
  ASSUME NEW q \in ReqT, q.st = "wpend"
  PROVE  \E v \in [0..WPB-1 -> Vals] : q = Store!WPending(v)
BY DEF ReqT, Store!ReqState, Store!Idle, Store!Done, Store!RPending, Store!WPending

\* A call of read_access or write_access keeps the invariant: the rows
\* and the store by ReadStep and WriteStep, the driver's flags by Call.
LEMMA CallStep ==
  ASSUME IInv, Call
  PROVE  IInv'
<1>1. PICK okW \in BOOLEAN, okR \in BOOLEAN :
        IF acc.kind = "r" THEN ReadAccess(okW, okR)
        ELSE WriteAccess(okW, okR) /\ UNCHANGED out
  BY DEF Call
<1>2. CacheOK(rows', mem', req')
  <2>1. CASE acc.kind = "r"
    BY <1>1, <2>1, ReadStep
  <2>2. CASE acc.kind # "r"
    BY <1>1, <2>2, WriteStep
  <2>3. QED
    BY <2>1, <2>2
<1>3. /\ busy' \in BOOLEAN /\ fu' \in BOOLEAN /\ avail' \in BOOLEAN
      /\ acc' = acc /\ count' = count /\ busy
  BY DEF Call
<1>4. QED
  BY <1>2, <1>3 DEF IInv, TypeInv, CacheOK, NoDuplicateLines

\* Every other step keeps the rows; the store's completion of an access
\* stores words of Vals, and the stage takes up accesses of the program.
LEMMA OtherSteps ==
  ASSUME IInv, Start \/ RedirectPc \/ (\E w \in Words : MemComplete(w)) \/ Finished \/ UNCHANGED vars
  PROVE  IInv'
<1>0. TypeInv /\ NoDuplicateLines
  BY DEF IInv
<1>1. Len(Program) \in Nat /\ \A n \in 1..Len(Program) : Program[n] \subseteq AccessT
  BY CacheAssumption
<1>2. (~D => \A n \in 1..Len(Program) : \A x \in Program[n] : x.kind = "r")
  BY CacheAssumption DEF D
<1>3. CASE Start
  <2>1. PICK x \in Program[count + 1], in \in StartInputs :
          acc' = x /\ fu' = in[1] /\ avail' = in[2]
    BY <1>3 DEF Start
  <2>2. count + 1 \in 1..Len(Program)
    BY <1>0, <1>3 DEF Start, TypeInv
  <2>3. fu' \in BOOLEAN /\ avail' \in BOOLEAN
    BY <2>1, StartInputsType
  <2>4. acc' \in AccessT /\ (~D => acc'.kind = "r")
    BY <1>1, <1>2, <2>1, <2>2
  <2>5. QED
    BY <1>0, <1>3, <2>2, <2>3, <2>4 DEF Start, IInv, TypeInv, NoDuplicateLines
<1>4. CASE RedirectPc
  <2>1. PICK x \in Program[count] : acc' = x
    BY <1>4 DEF RedirectPc
  <2>2. count \in 1..Len(Program)
    BY <1>0, <1>4 DEF RedirectPc, TypeInv
  <2>3. acc' \in AccessT /\ (~D => acc'.kind = "r")
    BY <1>1, <1>2, <2>1, <2>2
  <2>4. QED
    BY <1>0, <1>4, <2>3 DEF RedirectPc, IInv, TypeInv, NoDuplicateLines
<1>5. CASE \E w \in Words : MemComplete(w)
  <2>1. PICK w \in Words : MemComplete(w)
    BY <1>5
  <2>2. req[w] \in ReqT /\ mem \in [Words -> Vals]
    BY <1>0, <2>1 DEF TypeInv
  <2>3. Store!CompleteMem(mem, req, w) \in [Words -> Vals]
    <3>1. CASE req[w].st = "wpend"
      <4>1. PICK v \in [0..WPB-1 -> Vals] : req[w] = Store!WPending(v)
        BY <2>2, <3>1, WPendingValue
      <4>2. req[w].v = v
        BY <4>1 DEF Store!WPending
      <4>3. QED
        BY <2>2, <3>1, <4>2 DEF Store!CompleteMem, Store!WriteWords
    <3>2. CASE req[w].st # "wpend"
      BY <2>2, <3>2 DEF Store!CompleteMem
    <3>3. QED
      BY <3>1, <3>2
  <2>4. Store!CompleteReq(req, w) \in [Words -> ReqT]
    BY <1>0 DEF TypeInv, Store!CompleteReq, ReqT, Store!ReqState
  <2>5. QED
    BY <1>0, <2>1, <2>3, <2>4 DEF MemComplete, IInv, TypeInv, NoDuplicateLines
<1>6. CASE Finished \/ UNCHANGED vars
  BY <1>0, <1>6 DEF Finished, vars, IInv, TypeInv, NoDuplicateLines
<1>7. QED
  BY <1>3, <1>4, <1>5, <1>6

\* IInv is inductive.
LEMMA NextIInv == IInv /\ [Next]_vars => IInv'
BY CallStep, OtherSteps DEF Next

\* The two ways of a data-cache index never hold the same block, for
\* every number of blocks, memory image and access program: read_access
\* and write_access install a block only after both hit checks missed,
\* into a way of its index (cache.c 93-118, 164-168, 218-236).
THEOREM NoDuplicateLinesInvariant == Spec => []NoDuplicateLines
<1>1. Init => IInv
  BY InitIInv
<1>2. IInv /\ [Next]_vars => IInv'
  BY NextIInv
<1>3. IInv => NoDuplicateLines
  BY DEF IInv
<1>4. QED
  BY <1>1, <1>2, <1>3, PTL DEF Spec
=============================================================================
