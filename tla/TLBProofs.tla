------------------------------- MODULE TLBProofs -------------------------------
(***************************************************************************)
(* Proofs about the TLB of TLB.c (module TLB): a completed lookup returns *)
(* the page table's translation (TranslationCorrect) and every valid slot *)
(* translates the addresses that hit it as the page table does            *)
(* (EntriesCorrect), for every page table, set of addresses and bounds    *)
(* under which the code can be right:                                     *)
(*  - the address does not change while a walk stalls (Redirect = FALSE): *)
(*    stage_memory's TLB, whose address is the stalled instruction's.     *)
(*    stage_fetch's TLB resumes a walk with the first-level entry cached  *)
(*    for the previous pc, which TLC shows can install a wrong slot;      *)
(*  - a valid page-table entry's base fits 20 bits: update_tlb_entry      *)
(*    shifts it left by 12 in 32 bits (line 35) and keeps 18 bits of its  *)
(*    physical page (line 54);                                            *)
(*  - the pages of a superpage are mapped to one 16 KB frame: a slot      *)
(*    holds one translation per superpage (line 53, spec.md glossary).   *)
(***************************************************************************)
EXTENDS TLB, TLAPS

\* The valid entries of the page table point below 2^32.
EntriesFit == \A a \in Addr : PageTable[a].valid => PageTable[a].base < 2^20

\* Two looked-up addresses of one superpage are mapped alike.
SuperpageUniform ==
  \A v, w \in VAs :
    (v \div 2^14 = w \div 2^14 /\ RefL1(v).valid /\ RefL2(v).valid)
      => RefL2(w).valid /\ RefL2(w).base \div 4 = RefL2(v).base \div 4

\* The slot update_tlb_entry writes after reading entry e (lines 53-55).
InstalledSlot(vpn, e) ==
  [valid |-> TRUE, physical_page |-> PhysPage(e),
   virtual_page |-> (Superpage(vpn) \div 8) % 2^15]

\* A valid slot i maps every address that hits it to its translation.
SlotGood(s, i) ==
  s.valid =>
    \A v \in VAs : (TlbIndex(v) = i /\ v \div 2^17 = s.virtual_page)
      => RefL1(v).valid /\ RefL2(v).valid
         /\ Output(s.physical_page, v) = Translate(v)

SlotOK == \A i \in 0..7 : SlotGood(entries[i], i)

\* A walk in progress holds the first-level entry of the current address.
WalkOK ==
  busy => /\ st # Hit
          /\ st \in {1, 2, Fault} => csi = PageTable[L1Addr(Vpn(va))]

\* The inductive invariant.
IInv == TypeOK /\ mem = PageTable /\ SlotOK /\ WalkOK /\ TranslationCorrect

-----------------------------------------------------------------------------
(* Arithmetic on the address fields.                                        *)

LEMMA Pow2 ==
  /\ 2^8 = 256 /\ 2^12 = 4096 /\ 2^14 = 16384 /\ 2^15 = 32768
  /\ 2^17 = 131072 /\ 2^18 = 262144 /\ 2^20 = 1048576 /\ 2^22 = 4194304
  BY SMT

\* The first-level address the code computes is the spec's.
LEMMA L1AddrRef ==
  ASSUME NEW v \in Nat
  PROVE  L1Addr(Vpn(v)) = PTBR + 4 * (v \div 2^22)
  <1>1. ((v \div 4096) \div 4) \div 256 = v \div 4194304
    BY SMT
  <1>2. QED
    BY <1>1, Pow2, TLBAssumption, SMT DEF L1Addr, Vpn, Superpage

\* So is the second-level address, for a base that fits 20 bits.
LEMMA L2AddrRef ==
  ASSUME NEW e \in PTE, e.base < 2^20, NEW v \in Nat
  PROVE  L2Addr(e, Vpn(v)) = e.base * 2^12 + 4 * ((v \div 2^12) % 2^8)
  BY Pow2, SMT DEF L2Addr, Vpn, PTE

\* ... and the physical page it stores.
LEMMA PhysPageRef ==
  ASSUME NEW e \in PTE, e.base < 2^20
  PROVE  PhysPage(e) = e.base \div 4
  BY Pow2, SMT DEF PhysPage, PTE

\* An address that hits the slot installed for u is of u's superpage.
LEMMA SameSuperpage ==
  ASSUME NEW u \in Nat, NEW v \in Nat,
         TlbIndex(v) = TlbIndex(u),
         v \div 2^17 = (Superpage(Vpn(u)) \div 8) % 2^15,
         Superpage(Vpn(u)) \div 8 = TlbIndex(u)
  PROVE  v \div 2^14 = u \div 2^14 /\ v \div 2^22 = u \div 2^22
  <1>1. Superpage(Vpn(u)) = u \div 16384
    BY SMT DEF Superpage, Vpn
  <1>2. /\ v \div 131072 = (v \div 16384) \div 8
        /\ v \div 4194304 = (v \div 16384) \div 256
        /\ u \div 4194304 = (u \div 16384) \div 256
    BY SMT
  <1>3. v \div 16384 = u \div 16384
    BY <1>1, <1>2, Pow2, SMT DEF TlbIndex
  <1>4. QED
    BY <1>2, <1>3, Pow2

-----------------------------------------------------------------------------
(* The slot a walk installs.                                                *)

LEMMA VAsNat == VAs \subseteq Nat
  BY TLBAssumption

\* When the walk of u reads valid entries of the page table and the slot
\* agrees with the superpage, the slot it installs is good, and so is the
\* output it returns.
LEMMA InstallGood ==
  ASSUME EntriesFit, SuperpageUniform,
         NEW u \in VAs,
         PageTable[L1Addr(Vpn(u))].valid,
         NEW e, e = PageTable[L2Addr(PageTable[L1Addr(Vpn(u))], Vpn(u))],
         e.valid,
         Superpage(Vpn(u)) \div 8 = TlbIndex(u)
  PROVE  /\ SlotGood(InstalledSlot(Vpn(u), e), TlbIndex(u))
         /\ RefL1(u).valid /\ RefL2(u).valid
         /\ Output(PhysPage(e), u) = Translate(u)
  <1> DEFINE c == PageTable[L1Addr(Vpn(u))]
  <1>0. u \in Nat
    BY VAsNat
  <1>1. c \in PTE /\ c.base < 2^20
    BY TLBAssumption DEF EntriesFit, c
  <1>2. RefL1(u) = c
    BY <1>0, L1AddrRef DEF RefL1, c
  <1>3. L2Addr(c, Vpn(u)) \in Addr
    BY TLBAssumption DEF c
  <1>4. e \in PTE /\ e.base < 2^20
    BY <1>3, TLBAssumption DEF EntriesFit, c
  <1>5. RefL2(u) = e
    BY <1>0, <1>1, <1>2, L2AddrRef DEF RefL2, c
  <1>6. Output(PhysPage(e), u) = Translate(u)
    BY <1>4, <1>5, PhysPageRef DEF Output, Translate
  <1>7. SlotGood(InstalledSlot(Vpn(u), e), TlbIndex(u))
    <2> SUFFICES ASSUME NEW v \in VAs, TlbIndex(v) = TlbIndex(u),
                        v \div 2^17 = (Superpage(Vpn(u)) \div 8) % 2^15
                 PROVE  RefL1(v).valid /\ RefL2(v).valid
                        /\ Output(PhysPage(e), v) = Translate(v)
      BY DEF SlotGood, InstalledSlot
    <2>0. v \in Nat
      BY VAsNat
    <2>1. v \div 2^14 = u \div 2^14 /\ v \div 2^22 = u \div 2^22
      BY <1>0, <2>0, SameSuperpage
    <2>2. RefL2(v).valid /\ RefL2(v).base \div 4 = e.base \div 4
      BY <2>1, <1>2, <1>5 DEF SuperpageUniform, c
    <2>3. RefL1(v) = RefL1(u)
      BY <2>1 DEF RefL1
    <2>4. Output(PhysPage(e), v) = Translate(v)
      BY <2>2, <1>4, PhysPageRef DEF Output, Translate
    <2>5. QED
      BY <1>2, <2>2, <2>3, <2>4 DEF c
  <1>8. QED
    BY <1>2, <1>5, <1>6, <1>7 DEF c
-----------------------------------------------------------------------------
(* The steps.                                                               *)

ReqT == {Store!Idle, Store!Done, Store!RPending}

THEOREM InitIInv == Init => IInv
  <1> SUFFICES ASSUME Init PROVE IInv
    OBVIOUS
  <1>1. TypeOK
    <2>1. entries \in [0..7 -> Entry]
      <3>1. 0 \in 0..2^18-1 /\ 0 \in 0..2^15-1
        BY Pow2, SMT
      <3>2. QED
        BY <3>1 DEF Init, Entry
    <2>2. req \in [Addr -> {Store!Idle, Store!Done, Store!RPending}]
      BY DEF Init
    <2>3. mem \in [Addr -> PTE] /\ csi \in PTE
      BY TLBAssumption DEF Init, PTE
    <2>4. st \in Statuses /\ lookups \in 0..MaxLookups
          /\ redirects \in 0..MaxRedirects
      BY TLBAssumption DEF Init, Statuses
    <2>5. QED
      BY <2>1, <2>2, <2>3, <2>4 DEF Init, TypeOK
  <1>2. SlotOK
    BY DEF Init, SlotOK, SlotGood
  <1>3. QED
    BY <1>1, <1>2 DEF Init, IInv, WalkOK, TranslationCorrect

\* TypeOK after a step that keeps the slots and the address.
LEMMA FrameType ==
  ASSUME TypeOK, entries' = entries, csi' \in PTE, req' \in [Addr -> ReqT],
         UNCHANGED <<mem, va, lookups, redirects>>, st' \in Statuses,
         busy' \in BOOLEAN, out' \in Nat, halted' \in BOOLEAN
  PROVE  TypeOK'
  BY DEF TypeOK, ReqT

\* A call that returns a stall status and leaves the slots, the cached
\* first-level entry and the output alone.
LEMMA QuietStep ==
  ASSUME IInv, busy, NEW r \in {0, 1, Fault},
         r = 0 \/ st \in {1, 2, Fault},
         entries' = entries, csi' = csi,
         out' = IF r = Walked
                THEN Output(entries'[TlbIndex(va)].physical_page, va) ELSE out,
         req' \in [Addr -> ReqT], halted' \in BOOLEAN,
         busy' = (r \notin {Hit, Walked}), st' = r,
         UNCHANGED <<mem, va, lookups, redirects>>
  PROVE  IInv'
  <1>0. r # Walked /\ r # Hit /\ r \in Statuses /\ 0 \notin {1, 2, Fault}
    BY DEF Fault, Hit, Walked, Statuses
  <1>1. out' = out /\ busy' = TRUE /\ st' \in Statuses /\ st' # Hit
        /\ (st' \in {1, 2, Fault} => st \in {1, 2, Fault})
    BY <1>0, Zenon
  <1>2. TypeOK'
    BY <1>1, FrameType DEF IInv, TypeOK
  <1>3. SlotOK'
    BY DEF IInv, SlotOK, SlotGood
  <1>4. WalkOK'
    BY <1>1 DEF IInv, WalkOK
  <1>5. QED
    BY <1>1, <1>2, <1>3, <1>4 DEF IInv, TranslationCorrect

\* The second-level entry has arrived for the current address (Install).
LEMMA InstallStep ==
  ASSUME EntriesFit, SuperpageUniform, IInv, busy,
         st \in {1, 2, Fault},
         csi = PageTable[L1Addr(Vpn(va))], csi.valid,
         NEW r \in Statuses,
         Install(TlbIndex(va), Vpn(va), mem[L2Addr(csi, Vpn(va))], r),
         out' = IF r = Walked
                THEN Output(entries'[TlbIndex(va)].physical_page, va) ELSE out,
         busy' = (r \notin {Hit, Walked}), st' = r, csi' = csi,
         req' \in [Addr -> ReqT],
         UNCHANGED <<mem, va, lookups, redirects>>
  PROVE  IInv'
  <1> DEFINE idx == TlbIndex(va)
             e == mem[L2Addr(csi, Vpn(va))]
  <1>0. /\ va \in VAs /\ va \in Nat /\ idx \in 0..7
        /\ entries \in [0..7 -> Entry] /\ mem = PageTable
    BY VAsNat, SMT DEF IInv, TypeOK, idx, TlbIndex
  <1>1. CASE ~e.valid
    <2>1. r = Fault /\ entries' = entries /\ halted' \in BOOLEAN
      BY <1>1, Zenon DEF Install, e, idx, IInv, TypeOK
    <2>2. QED
      BY <2>1, QuietStep
  <1>2. CASE e.valid /\ Superpage(Vpn(va)) \div 8 # idx
    <2>1. r = Fault /\ entries' = entries /\ halted' \in BOOLEAN
      BY <1>2, Zenon DEF Install, e, idx, IInv, TypeOK
    <2>2. QED
      BY <2>1, QuietStep
  <1>3. CASE e.valid /\ Superpage(Vpn(va)) \div 8 = idx
    <2>1. entries' = [entries EXCEPT ![idx] = InstalledSlot(Vpn(va), e)]
          /\ r = Walked /\ halted' = halted
      BY <1>3 DEF Install, InstalledSlot, e, idx
    <2>2. e = PageTable[L2Addr(PageTable[L1Addr(Vpn(va))], Vpn(va))]
      BY <1>0 DEF e
    <2>3. /\ SlotGood(InstalledSlot(Vpn(va), e), idx)
          /\ RefL1(va).valid /\ RefL2(va).valid
          /\ Output(PhysPage(e), va) = Translate(va)
      BY <1>0, <1>3, <2>2, InstallGood DEF idx
    <2>4. e \in PTE
      BY <1>0, TLBAssumption DEF IInv, TypeOK
    <2>5. InstalledSlot(Vpn(va), e) \in Entry
      <3>1. PhysPage(e) \in 0..2^18-1
        BY <2>4, Pow2, SMT DEF PhysPage, PTE
      <3>2. (Superpage(Vpn(va)) \div 8) % 2^15 \in 0..2^15-1
        BY <1>0, Pow2, SMT DEF Superpage, Vpn
      <3>3. QED
        BY <3>1, <3>2 DEF InstalledSlot, Entry
    <2>6. out' = Output(PhysPage(e), va) /\ out' \in Nat
      BY <1>0, <2>1, <2>3, <2>4, Pow2, SMT DEF InstalledSlot, Output, PhysPage, PTE
    <2>7. TypeOK'
      BY <1>0, <2>1, <2>5, <2>6 DEF IInv, TypeOK, Statuses, ReqT
    <2>8. SlotOK'
      BY <1>0, <2>1, <2>3 DEF IInv, SlotOK
    <2>9. QED
      BY <1>0, <2>1, <2>3, <2>6, <2>7, <2>8
         DEF IInv, WalkOK, TranslationCorrect
  <1>4. QED
    BY <1>1, <1>2, <1>3
\* One call of get_address, along each of its paths.
LEMMA CallStep ==
  ASSUME EntriesFit, SuperpageUniform, IInv, Call
  PROVE  IInv'
  <1>1. PICK r \in Statuses : /\ GetAddress(va, st, r)
                              /\ busy' = (r \notin {Hit, Walked})
                              /\ st' = r
    BY DEF Call
  <1> DEFINE idx == TlbIndex(va)
             vpn == Vpn(va)
             a1 == L1Addr(vpn)
             a2 == L2Addr(csi, vpn)
  <1>2. /\ busy /\ ~halted /\ UNCHANGED <<mem, va, lookups, redirects>>
        /\ va \in VAs /\ a1 \in Addr /\ st # Hit
        /\ req \in [Addr -> ReqT] /\ halted \in BOOLEAN /\ mem = PageTable
    BY TLBAssumption DEF Call, IInv, TypeOK, WalkOK, ReqT, a1, vpn
  <1>3. Fault # Walked /\ Fault # Hit /\ 0 # Walked /\ 1 # Walked
        /\ 2 # Walked /\ 0 # Hit /\ 1 # Hit /\ 2 # Hit
    BY DEF Fault, Hit, Walked
  \* a hit (lines 64-67)
  <1>4. CASE st = Walked /\ LookupHit(va)
    <2>1. /\ r = Hit /\ out' = Output(entries[idx].physical_page, va)
          /\ UNCHANGED <<entries, csi, req, halted>>
      BY <1>1, <1>4 DEF GetAddress, idx
    <2>2. idx \in 0..7 /\ va \in Nat /\ entries[idx] \in Entry
      BY <1>2, VAsNat, SMT DEF IInv, TypeOK, idx, TlbIndex
    <2>3. /\ RefL1(va).valid /\ RefL2(va).valid
          /\ out' = Translate(va)
      BY <1>2, <1>4, <2>1, <2>2 DEF IInv, SlotOK, SlotGood, LookupHit, idx
    <2>4. out' \in Nat
      <3>1. entries[idx].physical_page \in 0..2^18-1
        BY <2>2 DEF Entry
      <3>2. QED
        BY <2>1, <2>2, <3>1, Pow2, SMT DEF Output
    <2>5. TypeOK'
      BY <1>1, <1>2, <2>1, <2>4, FrameType DEF IInv, TypeOK, Statuses
    <2>6. QED
      BY <1>1, <1>2, <2>1, <2>3, <2>5
         DEF IInv, SlotOK, WalkOK, TranslationCorrect
  \* a walk step (update_tlb_entry, lines 11-58)
  <1>5. CASE ~(st = Walked /\ LookupHit(va))
    <2>0. /\ UpdateTlbEntry(idx, vpn, st, r)
          /\ out' = IF r = Walked
                    THEN Output(entries'[idx].physical_page, va) ELSE out
      BY <1>1, <1>5 DEF GetAddress, idx, vpn
    \* the first-level read outstanding (lines 18-19)
    <2>1. CASE st = 0 /\ ~Store!Completed(req, a1)
      <3>1. r = 0 /\ UNCHANGED <<entries, csi, req, halted>>
        BY <1>3, <2>0, <2>1, Zenon DEF UpdateTlbEntry, a1
      <3>2. QED
        BY <1>1, <1>2, <2>0, <3>1, QuietStep
    \* the first-level read issued, not completed (lines 20-21)
    <2>2. CASE st = Walked /\ req' = Store!ReadReq(req, a1, FALSE)
      <3>0. Store!ReadReq(req, a1, FALSE) # Store!ReadReq(req, a1, TRUE)
        BY <1>2 DEF Store!ReadReq, Store!RPending, Store!Done
      <3>1. r = 0 /\ UNCHANGED <<entries, csi, halted>>
        BY <1>3, <2>0, <2>2, <3>0, Zenon DEF UpdateTlbEntry, a1
      <3>2. req' \in [Addr -> ReqT]
        BY <1>2, <2>2 DEF Store!ReadReq, ReqT
      <3>3. QED
        BY <1>1, <1>2, <2>0, <3>1, <3>2, QuietStep
    \* the first-level entry arrived: cache it (lines 23-25)
    <2>3. CASE /\ st \in {0, Walked}
               /\ ~(st = 0 /\ ~Store!Completed(req, a1))
               /\ ~(st = Walked /\ req' = Store!ReadReq(req, a1, FALSE))
      <3>1. /\ csi' = mem[a1] /\ r = 2 /\ UNCHANGED <<entries, halted>>
            /\ \/ req' = req
               \/ req' = Store!ReadReq(req, a1, TRUE)
        BY <2>0, <2>3 DEF UpdateTlbEntry, a1
      <3>2. req' \in [Addr -> ReqT]
        BY <1>2, <3>1 DEF Store!ReadReq, ReqT
      <3>3. csi' = PageTable[a1] /\ csi' \in PTE
        BY <1>2, <3>1, TLBAssumption
      <3>4. out' = out /\ busy' = TRUE
        BY <1>1, <1>3, <2>0, <3>1
      <3>5. TypeOK'
        BY <1>1, <1>2, <3>1, <3>2, <3>3, <3>4, FrameType DEF IInv, TypeOK, Statuses
      <3>6. QED
        BY <1>1, <1>2, <3>1, <3>3, <3>4, <3>5
           DEF IInv, SlotOK, WalkOK, TranslationCorrect, a1, vpn
    \* the second level (lines 27-58), with the first-level entry cached
    <2>4. CASE st \notin {0, Walked}
      <3>0. /\ SecondLevel(idx, vpn, st, r) /\ csi' = csi
            /\ st \in {1, 2, Fault} /\ csi = PageTable[a1]
        <4>1. SecondLevel(idx, vpn, st, r) /\ csi' = csi
          BY <2>0, <2>4, Zenon DEF UpdateTlbEntry
        <4>2. st \in {1, 2, Fault}
          BY <1>2, <2>4 DEF IInv, TypeOK, Statuses
        <4>3. QED
          BY <1>2, <4>1, <4>2 DEF IInv, WalkOK, a1, vpn
      <3>1. CASE ~csi.valid
        <4>1. r = Fault /\ UNCHANGED <<entries, req, halted>>
          BY <3>0, <3>1 DEF SecondLevel
        <4>2. QED
          BY <1>1, <1>2, <2>0, <3>0, <4>1, QuietStep
      <3>2. CASE csi.valid
        <4>0. a2 \in Addr
          BY <1>2, <3>0, <3>2, TLBAssumption DEF a1, a2, vpn
        <4>1. CASE st # 1
          <5>1. PICK ok \in BOOLEAN :
                  /\ req' = Store!ReadReq(req, a2, ok)
                  /\ IF ok THEN Install(idx, vpn, mem[a2], r)
                           ELSE r = 1 /\ UNCHANGED <<entries, halted>>
            BY <3>0, <3>2, <4>1 DEF SecondLevel, a2
          <5>2. req' \in [Addr -> ReqT]
            BY <1>2, <4>0, <5>1 DEF Store!ReadReq, ReqT
          <5>3. CASE ok
            BY <1>1, <1>2, <2>0, <3>0, <3>2, <5>1, <5>2, <5>3, InstallStep
               DEF idx, vpn, a1, a2
          <5>4. CASE ~ok
            BY <1>1, <1>2, <2>0, <3>0, <5>1, <5>2, <5>4, QuietStep
          <5>5. QED
            BY <5>3, <5>4
        <4>2. CASE st = 1 /\ ~Store!Completed(req, a2)
          <5>1. r = 1 /\ UNCHANGED <<entries, req, halted>>
            BY <3>0, <3>2, <4>2 DEF SecondLevel, a2
          <5>2. QED
            BY <1>1, <1>2, <2>0, <3>0, <5>1, QuietStep
        <4>3. CASE st = 1 /\ Store!Completed(req, a2)
          <5>1. Install(idx, vpn, mem[a2], r) /\ req' = req
            BY <3>0, <3>2, <4>3 DEF SecondLevel, a2
          <5>2. QED
            BY <1>1, <1>2, <2>0, <3>0, <3>2, <5>1, InstallStep
               DEF idx, vpn, a1, a2
        <4>4. QED
          BY <4>1, <4>2, <4>3
      <3>3. QED
        BY <3>1, <3>2
    <2>5. QED
      BY <2>1, <2>2, <2>3, <2>4
  <1>6. QED
    BY <1>4, <1>5
\* The stage starts a lookup.
LEMMA StartStep ==
  ASSUME IInv, Start
  PROVE  IInv'
  <1>1. /\ va' \in VAs /\ st' = Walked /\ busy' = TRUE
        /\ lookups' \in 0..MaxLookups
        /\ UNCHANGED <<entries, csi, mem, req, out, redirects, halted>>
    BY TLBAssumption DEF Start, IInv, TypeOK
  <1>2. Walked \in Statuses /\ Walked # Hit /\ Walked \notin {1, 2, Fault}
    BY DEF Walked, Hit, Fault, Statuses
  <1>3. TypeOK'
    BY <1>1, <1>2 DEF IInv, TypeOK
  <1>4. QED
    BY <1>1, <1>2, <1>3 DEF IInv, SlotOK, SlotGood, WalkOK, TranslationCorrect

\* The store completes a read: the page table is not written.
LEMMA MemCompleteStep ==
  ASSUME IInv, NEW a \in Addr, MemComplete(a)
  PROVE  IInv'
  <1>1. req[a] \in ReqT
    BY DEF IInv, TypeOK, ReqT
  <1>2. mem' = mem
    BY <1>1 DEF MemComplete, Store!CompleteMem, ReqT,
               Store!Idle, Store!Done, Store!RPending
  <1>3. req' \in [Addr -> ReqT]
    BY DEF MemComplete, Store!CompleteReq, IInv, TypeOK, ReqT
  <1>4. UNCHANGED <<entries, csi, va, st, busy, out, lookups, redirects, halted>>
    BY DEF MemComplete
  <1>5. TypeOK'
    BY <1>2, <1>3, <1>4 DEF IInv, TypeOK, ReqT
  <1>6. QED
    BY <1>2, <1>4, <1>5 DEF IInv, SlotOK, SlotGood, WalkOK, TranslationCorrect

LEMMA NextIInv ==
  ASSUME Redirect = FALSE, EntriesFit, SuperpageUniform, IInv, [Next]_vars
  PROVE  IInv'
  <1>1. CASE Start
    BY <1>1, StartStep
  <1>2. CASE Call
    BY <1>2, CallStep
  <1>3. CASE RedirectPc
    BY <1>3 DEF RedirectPc
  <1>4. CASE \E a \in Addr : MemComplete(a)
    BY <1>4, MemCompleteStep
  <1>5. CASE Finished \/ UNCHANGED vars
    BY <1>5 DEF Finished, vars, IInv, TypeOK, SlotOK, SlotGood, WalkOK,
               TranslationCorrect
  <1>6. QED
    BY <1>1, <1>2, <1>3, <1>4, <1>5 DEF Next

(***************************************************************************)
(* The theorems.  Both hold for the data TLB (no redirect while a walk    *)
(* stalls) on every page table whose valid entries fit 32-bit addresses   *)
(* and which maps the pages of a superpage alike; the tlb_translate run   *)
(* checks them on one such table with redirects as well.                  *)
(***************************************************************************)

\* Every completed lookup of stage_memory's TLB, hit or walk, is of a page
\* the page table maps and returns the physical address it maps it to.
THEOREM TranslationCorrectInvariant ==
  ASSUME Redirect = FALSE, EntriesFit, SuperpageUniform
  PROVE  Spec => []TranslationCorrect
  <1>1. Init => IInv
    BY InitIInv
  <1>2. IInv /\ [Next]_vars => IInv'
    BY NextIInv
  <1>3. IInv => TranslationCorrect
    BY DEF IInv
  <1>4. QED
    BY <1>1, <1>2, <1>3, PTL DEF Spec

\* Every valid slot of stage_memory's TLB translates the addresses that hit
\* it as the page table does, so a later hit is a correct translation.
THEOREM EntriesCorrectInvariant ==
  ASSUME Redirect = FALSE, EntriesFit, SuperpageUniform
  PROVE  Spec => []EntriesCorrect
  <1>1. Init => IInv
    BY InitIInv
  <1>2. IInv /\ [Next]_vars => IInv'
    BY NextIInv
  <1>3. IInv => EntriesCorrect
    <2> SUFFICES ASSUME IInv, NEW v \in VAs,
                        entries[TlbIndex(v)].valid,
                        entries[TlbIndex(v)].virtual_page = v \div 2^17
                 PROVE  Output(entries[TlbIndex(v)].physical_page, v) = Translate(v)
      BY DEF EntriesCorrect
    <2>1. TlbIndex(v) \in 0..7
      BY VAsNat, SMT DEF TlbIndex
    <2>2. QED
      BY <2>1 DEF IInv, SlotOK, SlotGood
  <1>4. QED
    BY <1>1, <1>2, <1>3, PTL DEF Spec
=============================================================================
