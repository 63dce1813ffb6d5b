-------------------------------- MODULE Cache --------------------------------
(***************************************************************************)
(* One cache of cache.c, as the build configures it (cache.h: TWOWAY and  *)
(* WRITEBACK defined), driven the way the pipeline drives it: a stage     *)
(* calls read_access or write_access once per cycle for its pending       *)
(* access until it returns 0, passing is_followup when the previous call  *)
(* returned 1 and memory_read_available when the TLB left the memory     *)
(* port free.                                                              *)
(*                                                                         *)
(* CType "D" is the data cache (2-word rows, two ways, dirty bits), "I"   *)
(* the instruction cache (4-word rows, direct mapped).  Addresses are     *)
(* word addresses (the code's byte address divided by 4: the code exits  *)
(* on any other alignment, lines 86-89); an access is 4 or 8 bytes.       *)
(* Row indices NBlocks*Ways and up stand for the heap past the rows       *)
(* array, which the code reaches only through an out-of-bounds index;     *)
(* their contents are whatever the heap holds there.                     *)
(***************************************************************************)
EXTENDS Integers, Sequences

CONSTANTS
  CType,         \* "I" or "D" (construct_cache's cache_type)
  NBlocks,       \* num_blocks, a power of two
  MemInit,       \* word address -> word: the backing store at start
  Vals,          \* the words the program stores
  Program,       \* Program[n]: the accesses the n-th access may be
  AlignedReads,  \* does memory_read(a, ..., n) read the n-byte block holding a?
  Redirect,      \* can the pc be redirected while fetch waits (I cache)?
  MaxRedirects

D == CType = "D"
Ways == IF D THEN 2 ELSE 1
WPB == IF D THEN 2 ELSE 4
Words == DOMAIN MemInit
AccessT == [kind : {"r", "w"}, addr : Words, size : {4, 8}, val : Vals]

ASSUME CacheAssumption ==
  /\ CType \in {"I", "D"}
  /\ NBlocks \in Nat \ {0}
  /\ 0 \in Vals /\ Vals \subseteq Nat
  /\ Words \subseteq Nat /\ Words # {} /\ MemInit \in [Words -> Vals]
  /\ Program \in Seq(SUBSET AccessT)
  \* fetch calls only read_access, for 4 bytes, on the instruction cache
  \* (riscv_virtualizer.c 1011)
  /\ CType = "I" => \A n \in 1..Len(Program) : \A x \in Program[n] :
                      x.kind = "r" /\ x.size = 4
  /\ AlignedReads \in BOOLEAN /\ Redirect \in BOOLEAN
  /\ MaxRedirects \in Nat

Store == INSTANCE BackingStore

\* read_access / write_access, lines 82-85 and 218-221
IndexOf(w) == (w \div WPB) % NBlocks
TagOf(w) == w \div (WPB * NBlocks)
SubOf(w) == w % WPB

RowIds == 0..(IF D THEN 3 ELSE 1) * NBlocks - 1
Allocated == 0..Ways * NBlocks - 1
EmptyRow == [tag |-> 0, data |-> [k \in 0..WPB-1 |-> 0], dirty |-> FALSE, valid |-> FALSE]
Row == [tag : Nat, data : [0..WPB-1 -> Vals], dirty : BOOLEAN, valid : BOOLEAN]

\* the words of a size-byte access at word s of a row (lines 96-106 and 139-146)
Value(d, s, size) == [k \in 1..size \div 4 |-> d[s + k - 1]]
\* the data of a write: a 4-byte word, or 8 bytes whose upper word is 0
WordsOf(x) == IF x.size = 4 THEN <<x.val>> ELSE <<x.val, 0>>
\* memcpy(data + subindex, &data, size) (lines 202, 225, 230)
Put(d, s, v) == [k \in DOMAIN d |-> IF k - s + 1 \in DOMAIN v THEN v[k - s + 1] ELSE d[k]]

\* the word address memory_read(address, ..., n) starts from
ReadBase(a) == IF AlignedReads THEN a - SubOf(a) ELSE a

\* tag << (index_length + block_size) | index << block_size (lines 45 and
\* 189), in blocks: the bits of an index at or past NBlocks are or-ed into
\* the tag's low bits
BitOr2(t, q) ==
  t + (IF q % 2 = 1 /\ t % 2 = 0 THEN 1 ELSE 0)
    + (IF (q \div 2) % 2 = 1 /\ (t \div 2) % 2 = 0 THEN 2 ELSE 0)
OldAddr(t, j) == (BitOr2(t, j \div NBlocks) * NBlocks + (j % NBlocks)) * WPB

VARIABLES
  rows,       \* cache->rows
  mem, req,   \* the backing store (BackingStore)
  acc,        \* the access the stage is performing
  busy,       \* the stage calls again next cycle
  fu,         \* is_followup of the next call
  avail,      \* memory_read_available of the next call
  ret,        \* the last return value
  out,        \* the words the last completed read returned
  ref,        \* the memory as the completed accesses, in order, define it
  count,      \* accesses started
  redirects,  \* pc redirects so far
  oob         \* a row index past the rows array has been used

vars == <<rows, mem, req, acc, busy, fu, avail, ret, out, ref, count, redirects, oob>>

HitNoTag(j, t) == rows[j].valid
\* a row holds block tag t of its index (lines 94, 102, 110)
Hit(j, t) == rows[j].valid /\ rows[j].tag = t

\* the row an access hits, or -1 (lines 93-118); the instruction cache
\* also misses an 8-byte read of a row's last word
HitRowWay0(a, size) ==
  IF Hit(IndexOf(a), TagOf(a)) /\ (D \/ size # 8 \/ SubOf(a) # 3)
  THEN IndexOf(a) ELSE -1
HitRow(a, size) ==
  LET i == IndexOf(a) IN
  IF Hit(i, TagOf(a)) /\ (D \/ size # 8 \/ SubOf(a) # 3) THEN i
  ELSE IF D /\ Hit(i + NBlocks, TagOf(a)) THEN i + NBlocks
  ELSE -1

\* the way to evict at index j (lines 33-37 and 164-168): way 1 when way 0
\* is valid and way 1 is invalid, or way 0 is dirty and way 1 clean
EvictIndex(j) ==
  IF D /\ rows[j].valid /\ (~rows[j + NBlocks].valid \/ (rows[j].dirty /\ ~rows[j + NBlocks].dirty))
  THEN j + NBlocks ELSE j

\* memory_read(address, row, n) || needs_stall (line 60): the read is
\* issued even when the write-back stalls
FillReqSkip(q, a, ok, stall) == IF fu \/ stall THEN q ELSE Store!ReadReq(q, a, ok)
FillReq(q, a, ok, stall) == IF fu THEN q ELSE Store!ReadReq(q, a, ok)

\* evict_read(address, j, tag, is_followup) (lines 31-78), for write-back
\* completions okW and read completions okR of this call: the new rows,
\* memory and requests, and the row it returns (-1 for NULL)
EvictRead(a, j, t, okW, okR) ==
  LET k     == EvictIndex(j)
      r     == rows[k]
      oa    == OldAddr(r.tag, k)
      wb    == D /\ r.dirty
      wait  == wb /\ fu /\ ~Store!Completed(req, oa)
      stall == wb /\ ~fu /\ ~okW
      m1    == IF wb /\ ~fu THEN Store!WriteMem(mem, oa, r.data, okW) ELSE mem
      q1    == IF wb /\ ~fu THEN Store!WriteReq(req, oa, r.data, okW) ELSE req
      got   == IF fu THEN Store!Completed(req, a) ELSE okR
      r1    == [tag |-> r.tag, valid |-> r.valid, dirty |-> r.dirty /\ stall,
                data |-> IF got THEN Store!ReadWords(m1, ReadBase(a), WPB) ELSE r.data]
      done  == got /\ ~stall
      r2    == IF done THEN [tag |-> t, valid |-> TRUE, dirty |-> FALSE, data |-> r1.data]
               ELSE r1
      bad   == D /\ j >= Ways * NBlocks - NBlocks /\ rows[j].valid
  IN IF wait
     THEN [rows |-> rows, mem |-> mem, req |-> req, row |-> -1, oob |-> bad]
     ELSE [rows |-> [rows EXCEPT ![k] = r2], mem |-> m1,
           req |-> FillReq(q1, a, okR, stall), row |-> IF done THEN k ELSE -1,
           oob |-> bad]

\* the effect of an evict_read
Apply(e) == /\ rows' = e.rows /\ mem' = e.mem /\ req' = e.req
            /\ oob' = (oob \/ e.oob)

\* read_access (lines 80-152)
ReadAccess(okW, okR) ==
  LET a == acc.addr
      h == HitRow(a, acc.size)
      e == EvictRead(a, IndexOf(a), TagOf(a), okW, okR)
  IN \/ /\ h # -1
        /\ ret' = 0 /\ out' = Value(rows[h].data, SubOf(a), acc.size)
        /\ UNCHANGED <<rows, mem, req, oob>>
     \/ /\ h = -1 /\ ~avail
        /\ ret' = 2 /\ UNCHANGED <<rows, mem, req, out, oob>>
     \/ /\ h = -1 /\ avail /\ Apply(e)
        /\ IF e.row = -1
           THEN ret' = 1 /\ UNCHANGED out
           ELSE ret' = 0 /\ out' = Value(e.rows[e.row].data, SubOf(a), acc.size)

\* a row after a write: the new words, tag, valid and dirty (lines 202-206)
Written(r, a, v) == [tag |-> TagOf(a), valid |-> TRUE, dirty |-> TRUE,
                     data |-> Put(r.data, SubOf(a), v)]

\* write_access and evict_write (lines 213-236 and 154-211), data cache
WriteAccess(okW, okR) ==
  LET a  == acc.addr
      i  == IndexOf(a)
      v  == WordsOf(acc)
      hit == Hit(i, TagOf(a)) \/ Hit(i + NBlocks, TagOf(a))
      j  == EvictIndex(i)
      r  == rows[j]
      oa == OldAddr(r.tag, j)
      e  == EvictRead(a, j, TagOf(a), okW, okR)
  IN \/ /\ hit    \* a hit in either way writes way 0's data, dirty unchanged
        /\ rows' = [rows EXCEPT ![i] = [tag |-> @.tag, valid |-> @.valid, dirty |-> @.dirty,
                                         data |-> Put(@.data, SubOf(a), v)]]
        /\ ret' = 0 /\ UNCHANGED <<mem, req, oob>>
     \/ /\ ~hit /\ acc.size # 8 /\ ~avail
        /\ ret' = 2 /\ UNCHANGED <<rows, mem, req, oob>>
     \/ /\ ~hit /\ acc.size # 8 /\ avail
        /\ IF e.row = -1
           THEN Apply(e) /\ ret' = 1
           ELSE /\ rows' = [e.rows EXCEPT ![e.row] = Written(@, a, v)]
                /\ mem' = e.mem /\ req' = e.req /\ oob' = (oob \/ e.oob)
                /\ ret' = 0
     \/ /\ ~hit /\ acc.size = 8 /\ r.dirty /\ ~avail
        /\ ret' = 2 /\ UNCHANGED <<rows, mem, req, oob>>
     \/ /\ ~hit /\ acc.size = 8 /\ r.dirty /\ avail
        /\ \/ fu /\ ~Store!Completed(req, oa) /\ UNCHANGED <<mem, req>>
           \/ ~fu /\ ~okW /\ mem' = mem /\ req' = Store!WriteReq(req, oa, r.data, FALSE)
        /\ ret' = 1 /\ UNCHANGED <<rows, oob>>
     \/ /\ ~hit /\ acc.size = 8
        /\ \/ ~r.dirty /\ UNCHANGED <<mem, req>>
           \/ r.dirty /\ avail /\ fu /\ Store!Completed(req, oa) /\ UNCHANGED <<mem, req>>
           \/ /\ r.dirty /\ avail /\ ~fu /\ okW
              /\ mem' = Store!WriteMem(mem, oa, r.data, TRUE)
              /\ req' = Store!WriteReq(req, oa, r.data, TRUE)
        /\ rows' = [rows EXCEPT ![j] = Written(@, a, v)]
        /\ ret' = 0 /\ UNCHANGED oob

NoAccess == [kind |-> "r", addr |-> CHOOSE w \in Words : TRUE, size |-> 4, val |-> 0]

\* (is_followup, memory_read_available) of an access's first call: the TLB
\* hit (0xFE), or walked in this call (0xFF), or, in the memory stage,
\* walked after stalling, which leaves wasStalled = 1 (riscv_virtualizer.c
\* 1002-1011, 1162-1180, 1203-1221)
StartInputs ==
  IF D THEN {<<FALSE, TRUE>>, <<FALSE, FALSE>>, <<TRUE, FALSE>>}
  ELSE {<<FALSE, TRUE>>, <<FALSE, FALSE>>}

Init ==
  /\ rows \in {[j \in RowIds |-> IF j \in Allocated THEN EmptyRow ELSE g[j]] :
                 g \in [RowIds \ Allocated ->
                          {[tag |-> 0, data |-> EmptyRow.data, dirty |-> y, valid |-> x] :
                             x, y \in BOOLEAN}]}
  /\ mem = MemInit /\ req = [w \in Words |-> Store!Idle]
  /\ acc = NoAccess /\ busy = FALSE /\ fu = FALSE /\ avail = TRUE
  /\ ret = 0 /\ out = <<>> /\ ref = MemInit
  /\ count = 0 /\ redirects = 0 /\ oob = FALSE

\* the stage takes up its next access
Start ==
  /\ ~busy /\ count < Len(Program)
  /\ \E x \in Program[count + 1], in \in StartInputs :
       /\ acc' = x /\ fu' = in[1] /\ avail' = in[2]
  /\ busy' = TRUE /\ count' = count + 1
  /\ UNCHANGED <<rows, mem, req, ret, out, ref, redirects, oob>>

\* one call of read_access or write_access; after a 1 the next call is a
\* followup, after a 2 a new request; the TLB hits on every call after
\* the first (wasStalled / will_be_stalled, riscv_virtualizer.c 1012-1015,
\* 1181-1189, 1222-1231)
Call ==
  /\ busy
  /\ \E okW, okR \in BOOLEAN :
       IF acc.kind = "r" THEN ReadAccess(okW, okR)
       ELSE WriteAccess(okW, okR) /\ UNCHANGED out
  /\ busy' = (ret' # 0) /\ fu' = (ret' = 1) /\ avail' = TRUE
  /\ ref' = IF acc.kind = "w" /\ ret' = 0
            THEN [w \in Words |-> IF w - acc.addr + 1 \in DOMAIN WordsOf(acc)
                                  THEN WordsOf(acc)[w - acc.addr + 1] ELSE ref[w]]
            ELSE ref
  /\ UNCHANGED <<acc, count, redirects>>

\* execute or decode sets the pc while fetch waits on the instruction
\* cache; fetch's next call is for the new pc with the same
\* will_be_stalled (riscv_virtualizer.c 1011, 1069, 1134)
RedirectPc ==
  /\ Redirect /\ busy /\ redirects < MaxRedirects
  /\ \E x \in Program[count] : acc' = x /\ x # acc
  /\ redirects' = redirects + 1
  /\ UNCHANGED <<rows, mem, req, busy, fu, avail, ret, out, ref, count, oob>>

\* the store completes an outstanding access between two calls
MemComplete(w) ==
  /\ Store!Outstanding(req, w)
  /\ mem' = Store!CompleteMem(mem, req, w) /\ req' = Store!CompleteReq(req, w)
  /\ UNCHANGED <<rows, acc, busy, fu, avail, ret, out, ref, count, redirects, oob>>

\* every access of the program has been served
Finished == ~busy /\ count = Len(Program) /\ UNCHANGED vars

Next == Start \/ Call \/ RedirectPc \/ (\E w \in Words : MemComplete(w)) \/ Finished

\* The stage calls every cycle (spec.md section 5) and the store finishes
\* every access it has been given (section 6).
Fairness == WF_vars(Call) /\ \A w \in Words : WF_vars(MemComplete(w))

Spec == Init /\ [][Next]_vars /\ Fairness

TypeOK ==
  /\ rows \in [RowIds -> Row] /\ mem \in [Words -> Vals]
  /\ busy \in BOOLEAN /\ fu \in BOOLEAN /\ avail \in BOOLEAN
  /\ ret \in {0, 1, 2} /\ count \in 0..Len(Program) /\ oob \in BOOLEAN

-----------------------------------------------------------------------------
(* Properties *)

\* The two ways of a data-cache index never hold the same block: a miss
\* (read_access's two hit checks, evict_read's choice of way) never loads a
\* block that the other way already holds (spec.md 4.5, cache row
\* invariant).
NoDupRows(rs) ==
  \A i \in 0..NBlocks-1 :
    D => ~(rs[i].valid /\ rs[i + NBlocks].valid /\ rs[i].tag = rs[i + NBlocks].tag)
NoDuplicateLines == NoDupRows(rows)

\* Every access the stage starts is eventually served: the followups of
\* a stalled read_access or write_access poll requests that were issued
\* and complete.
AccessCompletes == busy ~> ~busy

\* Cache round trip (spec.md section 8): a completed read returns what the
\* completed writes, in order, left at its address.
ReadCorrect ==
  (~busy /\ count > 0 /\ acc.kind = "r") =>
    out = [k \in 1..acc.size \div 4 |-> ref[acc.addr + k - 1]]

\* No call reads or writes a row past the rows array (evict_write passes
\* its way-adjusted index to evict_read, which adjusts it again).
InBounds == ~oob

\* The instruction cache implements a read-only memory: every fetch
\* returns the word the store holds at the (current) pc.
ROMSpec == INSTANCE ROM WITH Rom <- MemInit, addr <- acc.addr
RefinesROM == ROMSpec!Spec
=============================================================================
