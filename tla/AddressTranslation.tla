------------------------- MODULE AddressTranslation -------------------------
(***************************************************************************)
(* What a TLB promises the stage that calls it: an address-translation    *)
(* service.  The stage requests the translation of a virtual address; the *)
(* request may be retargeted to another address while it is pending (a    *)
(* redirect of the pc); it is answered only for an address the page table *)
(* maps, and the answer is that address's translation.  An address the    *)
(* table does not map is never answered.                                   *)
(***************************************************************************)
EXTENDS Naturals

CONSTANTS
  Dom,      \* the virtual addresses the stage may request
  Mapped,   \* those the page table maps
  Tr        \* Mapped -> physical address

VARIABLES busy, va, out

vars == <<busy, va, out>>

Init == /\ busy = FALSE
        /\ va \in Dom
        /\ out \in Nat

Request(v) == /\ ~busy
              /\ busy' = TRUE
              /\ va' = v
              /\ UNCHANGED out

Retarget(v) == /\ busy
               /\ va' = v
               /\ UNCHANGED <<busy, out>>

Respond == /\ busy /\ va \in Mapped
           /\ busy' = FALSE
           /\ out' = Tr[va]
           /\ UNCHANGED va

Next == \/ \E v \in Dom : Request(v) \/ Retarget(v)
        \/ Respond

Spec == Init /\ [][Next]_vars
=============================================================================
