---------------------------- MODULE TLBRefinement ----------------------------
(***************************************************************************)
(* The data TLB implements the address-translation service of module      *)
(* AddressTranslation (RefinesTranslation), under the hypotheses of        *)
(* TLBProofs: the address does not change while a walk stalls, valid       *)
(* entries fit 20 bits and a superpage's pages share a frame.              *)
(*                                                                         *)
(* Start is a request, a call of get_address that returns 0xFE or 0xFF is *)
(* the answer, and every other step leaves the stage's view (busy, va,    *)
(* out) unchanged.  The answer is right by TranslationCorrect, which       *)
(* IInv of TLBProofs carries; it applies to the call's own answer because  *)
(* a lookup in progress has been counted.                                  *)
(***************************************************************************)
EXTENDS TLBProofs

\* the invariant of the refinement: a lookup in progress has been counted
RefInv == IInv /\ (busy => lookups > 0)

\* the addresses the page table maps
MappedVAs == {w \in VAs : RefL1(w).valid /\ RefL2(w).valid}

LEMMA RefInit ==
  ASSUME Init
  PROVE  RefInv /\ TransSpec!Init
<1>1. IInv
  BY InitIInv
<1>2. QED
  BY <1>1 DEF Init, RefInv, TransSpec!Init

\* Start: the stage requests the translation of a new address.
LEMMA RefStart ==
  ASSUME IInv, Start
  PROVE  (busy => lookups > 0)' /\ TransSpec!Next
<1>1. PICK v \in VAs : va' = v
  BY DEF Start
<1>2. lookups \in Nat
  BY DEF IInv, TypeOK
<1>3. TransSpec!Request(v)
  BY <1>1 DEF Start, TransSpec!Request
<1>4. QED
  BY <1>1, <1>2, <1>3 DEF Start, TransSpec!Next

\* A call of get_address: it answers with the table's translation when it
\* returns 0xFE or 0xFF, and otherwise leaves its output as it was.
LEMMA RefCall ==
  ASSUME RefInv, IInv', Call
  PROVE  (busy => lookups > 0)' /\ [TransSpec!Next]_TransSpec!vars
<1>1. PICK r \in Statuses : /\ GetAddress(va, st, r)
                            /\ busy' = (r \notin {Hit, Walked})
  BY DEF Call
<1>2. /\ busy /\ va' = va /\ lookups' = lookups /\ lookups > 0
  BY DEF Call, RefInv
<1>3. CASE r \in {Hit, Walked}
  <2>1. busy' = FALSE
    BY <1>1, <1>3, Zenon
  <2>2. RefL1(va).valid /\ RefL2(va).valid /\ out' = Translate(va)
    BY <1>2, <2>1 DEF IInv, TranslationCorrect
  <2>3. va \in MappedVAs
    BY <2>2 DEF RefInv, IInv, TypeOK, MappedVAs
  <2>a. [w \in MappedVAs |-> Translate(w)][va] = Translate(va)
    BY <2>3
  <2>4. TransSpec!Respond
    BY <1>2, <2>1, <2>2, <2>3, <2>a DEF TransSpec!Respond, MappedVAs
  <2>5. QED
    BY <2>1, <2>4 DEF TransSpec!Next
<1>4. CASE r \notin {Hit, Walked}
  <2>1. Hit \in {Hit, Walked} /\ Walked \in {Hit, Walked}
    OBVIOUS
  <2>2. out' = out
    BY <1>1, <1>4, <2>1 DEF GetAddress
  <2>3. busy' = busy
    BY <1>1, <1>2, <1>4
  <2>4. QED
    BY <1>2, <2>2, <2>3 DEF TransSpec!vars
<1>5. QED
  BY <1>3, <1>4

\* Every step of the data TLB keeps RefInv and is a step of the translation
\* service or leaves the stage's view of it unchanged.
LEMMA RefNext ==
  ASSUME Redirect = FALSE, EntriesFit, SuperpageUniform, RefInv, [Next]_vars
  PROVE  RefInv' /\ [TransSpec!Next]_TransSpec!vars
<1>1. IInv'
  BY NextIInv DEF RefInv
<1>2. CASE Start
  BY <1>1, <1>2, RefStart DEF RefInv
<1>3. CASE Call
  BY <1>1, <1>3, RefCall DEF RefInv
<1>4. CASE RedirectPc
  BY <1>4 DEF RedirectPc
<1>5. CASE \E a \in Addr : MemComplete(a)
  BY <1>1, <1>5 DEF MemComplete, RefInv, TransSpec!vars
<1>6. CASE Finished \/ UNCHANGED vars
  BY <1>1, <1>6 DEF Finished, vars, RefInv, TransSpec!vars
<1>7. QED
  BY <1>2, <1>3, <1>4, <1>5, <1>6 DEF Next

\* The data TLB implements address translation, for every page table
\* whose valid entries fit 20 bits and which maps each superpage to one
\* frame: get_address answers a lookup only for a mapped address, with the
\* page table's translation, and its output does not change while the
\* walk stalls (get_address and update_tlb_entry, TLB.c 1-80, as
\* stage_memory calls them).
THEOREM DataTLBRefinesTranslation ==
  ASSUME Redirect = FALSE, EntriesFit, SuperpageUniform
  PROVE  Spec => RefinesTranslation
<1>1. Init => RefInv /\ TransSpec!Init
  BY RefInit
<1>2. RefInv /\ [Next]_vars => RefInv' /\ [TransSpec!Next]_TransSpec!vars
  BY RefNext
<1>3. QED
  BY <1>1, <1>2, PTL DEF Spec, RefinesTranslation, TransSpec!Spec
=============================================================================
