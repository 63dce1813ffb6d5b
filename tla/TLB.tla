---------------------------------- MODULE TLB ----------------------------------
(***************************************************************************)
(* One TLB instance of src/src/TLB.c (itlb or dtlb) and the stage that     *)
(* drives it.  get_address translates a 32-bit virtual address through 8   *)
(* direct-mapped slots indexed by bits [16:14]; a miss walks a two-level   *)
(* page table in the backing store, one memory access per call, and        *)
(* returns a status the caller passes back on its next call to resume the  *)
(* walk:                                                                   *)
(*   0xFE hit, 0xFF walk finished (slot installed), 0 first-level read     *)
(*   outstanding, 2 first-level entry read, 1 second-level read            *)
(*   outstanding, 0x80 invalid entry.                                      *)
(* The calling stage (stage_fetch, stage_memory) passes 0xFF for a new     *)
(* lookup and the returned status while it stalls.  stage_fetch reads the *)
(* pc anew on every call, so a redirect by execute between two calls       *)
(* resumes the walk with another address (Redirect).                       *)
(*                                                                         *)
(* A page-table entry is a 32-bit word; it is kept decoded as its top bit  *)
(* (valid) and its low 31 bits (base).                                     *)
(***************************************************************************)
EXTENDS Naturals

CONSTANTS
  PTBR,          \* get_ptbr(): byte address of the first-level table
  PageTable,     \* initial backing store: address -> page-table entry
  VAs,           \* the virtual addresses the stage looks up
  Redirect,      \* may the address change while the walk stalls?
  MaxLookups,    \* bound on the number of lookups
  MaxRedirects   \* bound on the number of redirects

PTE == [valid : BOOLEAN, base : Nat]
Addr == DOMAIN PageTable

Hit == 254            \* 0xFE
Walked == 255         \* 0xFF, also "new lookup" as an input status
Fault == 128          \* 0x80
Statuses == {0, 1, 2, Fault, Hit, Walked}

\* (virtual_address >> 14) & 0b111
TlbIndex(va) == (va \div 2^14) % 8
\* virtual_page = virtual_address >> 12; the superpage is virtual_page >> 2
Vpn(va) == va \div 2^12
Superpage(vpn) == vpn \div 4
\* (virtual_superpage >> 8 << 2) + get_ptbr()
L1Addr(vpn) == (Superpage(vpn) \div 2^8) * 4 + PTBR
\* (mutants: the page bits of the second-level index dropped; the entry's
\* low two bits kept)
L2AddrNoPage(e, vpn) == (e.base % 2^20) * 2^12
PhysPageNoShift(e) == e.base % 2^18
\* second_level_index << 1 >> 1 << 12, plus (virtual_page & 0xFF) << 2
L2Addr(e, vpn) == (e.base % 2^20) * 2^12 + (vpn % 2^8) * 4
\* physical_page << 1 >> 3, stored in an 18-bit field
PhysPage(e) == (e.base \div 4) % 2^18
\* (physical_page << 14) | (virtual_address << 18 >> 18)
Output(ppn, va) == ppn * 2^14 + (va % 2^14)

ASSUME TLBAssumption ==
  /\ PTBR \in Nat /\ PageTable \in [Addr -> PTE]
  /\ VAs \subseteq Nat /\ Redirect \in BOOLEAN
  /\ MaxLookups \in Nat /\ MaxRedirects \in Nat
  /\ \A va \in VAs : L1Addr(Vpn(va)) \in Addr
  /\ \A va, v2 \in VAs :
       PageTable[L1Addr(Vpn(va))].valid =>
         L2Addr(PageTable[L1Addr(Vpn(va))], Vpn(v2)) \in Addr

Entry == [valid : BOOLEAN, physical_page : 0..2^18-1, virtual_page : 0..2^15-1]

Store == INSTANCE BackingStore

VARIABLES
  entries,      \* cache->entries[8]
  csi,          \* cache->cached_second_index (the first-level entry)
  mem, req,     \* the backing store
  va,           \* the address the stage translates
  st,           \* the status it passes to get_address
  busy,         \* a lookup is in progress
  out,          \* *output of the last completed lookup
  lookups, redirects,
  halted        \* exit(1) was called

vars == <<entries, csi, mem, req, va, st, busy, out, lookups, redirects, halted>>

(***************************************************************************)
(* update_tlb_entry(cache, idx, vpn, &ret, s), returning r: one call.      *)
(***************************************************************************)
\* The second-level entry e has arrived: install it, or fail.
Install(idx, vpn, e, r) ==
  LET sp == Superpage(vpn) IN
  \/ /\ ~e.valid
     /\ r = Fault /\ UNCHANGED <<entries, halted>>
  \/ /\ e.valid /\ sp \div 8 # idx
     /\ halted' = TRUE /\ r = Fault /\ UNCHANGED entries
  \/ /\ e.valid /\ sp \div 8 = idx
     /\ entries' = [entries EXCEPT ![idx] =
                      [valid |-> TRUE, physical_page |-> PhysPage(e),
                       virtual_page |-> (sp \div 8) % 2^15]]
     /\ r = Walked /\ UNCHANGED halted

\* The first-level entry is the cached one: read the second level.
SecondLevel(idx, vpn, s, r) ==
  LET a == L2Addr(csi, vpn) IN
  \/ /\ ~csi.valid
     /\ r = Fault /\ UNCHANGED <<entries, req, halted>>
  \/ /\ csi.valid /\ s # 1
     /\ \E ok \in BOOLEAN :
          /\ req' = Store!ReadReq(req, a, ok)
          /\ IF ok THEN Install(idx, vpn, mem[a], r)
                   ELSE r = 1 /\ UNCHANGED <<entries, halted>>
  \/ /\ csi.valid /\ s = 1 /\ ~Store!Completed(req, a)
     /\ r = 1 /\ UNCHANGED <<entries, req, halted>>
  \/ /\ csi.valid /\ s = 1 /\ Store!Completed(req, a)
     /\ Install(idx, vpn, mem[a], r) /\ UNCHANGED req

UpdateTlbEntry(idx, vpn, s, r) ==
  LET a == L1Addr(vpn) IN
  \/ /\ s = 0 /\ ~Store!Completed(req, a)
     /\ r = 0 /\ UNCHANGED <<entries, csi, req, halted>>
  \/ /\ s = Walked
     /\ req' = Store!ReadReq(req, a, FALSE)
     /\ r = 0 /\ UNCHANGED <<entries, csi, halted>>
  \/ /\ \/ s = 0 /\ Store!Completed(req, a) /\ UNCHANGED req
        \/ s = Walked /\ req' = Store!ReadReq(req, a, TRUE)
     /\ csi' = mem[a]
     /\ r = 2 /\ UNCHANGED <<entries, halted>>
  \/ /\ s \notin {0, Walked}
     /\ SecondLevel(idx, vpn, s, r) /\ UNCHANGED csi

\* get_address(cache, va, &output, s), returning r.
LookupHit(v) ==
  /\ entries[TlbIndex(v)].valid
  /\ entries[TlbIndex(v)].virtual_page = v \div 2^17

GetAddress(v, s, r) ==
  \/ /\ s = Walked /\ LookupHit(v)
     /\ r = Hit /\ out' = Output(entries[TlbIndex(v)].physical_page, v)
     /\ UNCHANGED <<entries, csi, req, halted>>
  \/ /\ s # Walked \/ ~LookupHit(v)
     /\ UpdateTlbEntry(TlbIndex(v), Vpn(v), s, r)
     /\ out' = IF r = Walked
               THEN Output(entries'[TlbIndex(v)].physical_page, v) ELSE out

(***************************************************************************)
(* The stage that drives the TLB, and the memory.                          *)
(***************************************************************************)
Init ==
  /\ entries = [i \in 0..7 |-> [valid |-> FALSE, physical_page |-> 0,
                               virtual_page |-> 0]]
  /\ csi = [valid |-> FALSE, base |-> 0]
  /\ mem = PageTable
  /\ req = [a \in Addr |-> Store!Idle]
  /\ va \in VAs /\ st = Walked /\ busy = FALSE /\ out = 0
  /\ lookups = 0 /\ redirects = 0 /\ halted = FALSE

\* The stage starts translating a new address.
Start ==
  /\ ~busy /\ ~halted /\ lookups < MaxLookups
  /\ \E v \in VAs : va' = v
  /\ st' = Walked /\ busy' = TRUE /\ lookups' = lookups + 1
  /\ UNCHANGED <<entries, csi, mem, req, out, redirects, halted>>

\* (a stage that passes 0xFF on every call, forgetting the walk's status)
CallNoResume ==
  /\ busy /\ ~halted
  /\ \E r \in Statuses :
       /\ GetAddress(va, st, r)
       /\ busy' = (r \notin {Hit, Walked})
       /\ st' = Walked
  /\ UNCHANGED <<mem, va, lookups, redirects>>

\* One call of get_address; a stall status is passed on the next call.
Call ==
  /\ busy /\ ~halted
  /\ \E r \in Statuses :
       /\ GetAddress(va, st, r)
       /\ busy' = (r \notin {Hit, Walked})
       /\ st' = r
  /\ UNCHANGED <<mem, va, lookups, redirects>>

\* stage_fetch: execute redirects the pc while fetch stalls in a walk.
RedirectPc ==
  /\ Redirect /\ busy /\ ~halted /\ st # Walked /\ redirects < MaxRedirects
  /\ \E v \in VAs \ {va} : va' = v
  /\ redirects' = redirects + 1
  /\ UNCHANGED <<entries, csi, mem, req, st, busy, out, lookups, halted>>

\* The backing store finishes an outstanding access.
MemComplete(a) ==
  /\ Store!Outstanding(req, a)
  /\ mem' = Store!CompleteMem(mem, req, a)
  /\ req' = Store!CompleteReq(req, a)
  /\ UNCHANGED <<entries, csi, va, st, busy, out, lookups, redirects, halted>>

Finished ==
  /\ (lookups = MaxLookups /\ ~busy) \/ halted
  /\ UNCHANGED vars

Next == Start \/ Call \/ RedirectPc \/ (\E a \in Addr : MemComplete(a)) \/ Finished

\* The stage calls get_address on every cycle, and the memory eventually
\* completes every access it was given (spec.md section 5).
Fairness == WF_vars(Call) /\ \A a \in Addr : WF_vars(MemComplete(a))

Spec == Init /\ [][Next]_vars /\ Fairness

(***************************************************************************)
(* Properties.                                                             *)
(***************************************************************************)
\* The reference translation, from spec.md section 4.4: the first-level
\* entry at ptbr + (superpage >> 8) * 4, the second-level entry at the
\* table it points to plus 4 * (virtual page & 0xFF), and the 18-bit
\* physical page it holds, over a 16 KB superpage offset.
RefL1(v) == PageTable[PTBR + 4 * (v \div 2^22)]
RefL2(v) == PageTable[RefL1(v).base * 2^12 + 4 * ((v \div 2^12) % 2^8)]
Translate(v) == (RefL2(v).base \div 4) * 2^14 + (v % 2^14)

TypeOK ==
  /\ entries \in [0..7 -> Entry]
  /\ csi \in PTE
  /\ mem \in [Addr -> PTE]
  /\ req \in [Addr -> {Store!Idle, Store!Done, Store!RPending}]
  /\ va \in VAs /\ st \in Statuses /\ busy \in BOOLEAN /\ out \in Nat
  /\ lookups \in 0..MaxLookups /\ redirects \in 0..MaxRedirects
  /\ halted \in BOOLEAN

\* Every completed lookup, whether it hit or walked the table, is of a page
\* the page table maps, and returns the physical address it maps it to
\* (get_address's output; spec.md section 8, TLB idempotence).
TranslationCorrect ==
  (~busy /\ lookups > 0) =>
    /\ RefL1(va).valid /\ RefL2(va).valid
    /\ out = Translate(va)

\* A valid slot maps every address that hits it as the page table does.
EntriesCorrect ==
  \A v \in VAs :
    (entries[TlbIndex(v)].valid
     /\ entries[TlbIndex(v)].virtual_page = v \div 2^17)
    => Output(entries[TlbIndex(v)].physical_page, v) = Translate(v)

\* Every lookup the stage starts eventually returns a translation
\* (get_address stops returning a stall status).
WalkCompletes == busy ~> ~busy

\* Translating an address never calls exit(1) (spec.md section 4.4: the
\* slot index and the superpage always agree).
NoAbort == ~halted
\* The TLB implements an address-translation service: a lookup is answered
\* only for an address the page table maps, with the table's translation
\* of the address the stage passes on that call, and get_address's output
\* does not change while the lookup stalls (get_address, TLB.c 59-80,
\* with update_tlb_entry, 1-57).
TransSpec == INSTANCE AddressTranslation
               WITH Dom <- VAs,
                    Mapped <- {v \in VAs : RefL1(v).valid /\ RefL2(v).valid},
                    Tr <- [v \in {w \in VAs : RefL1(w).valid /\ RefL2(w).valid} |->
                             Translate(v)]
RefinesTranslation == TransSpec!Spec
=============================================================================
