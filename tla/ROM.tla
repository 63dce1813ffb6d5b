--------------------------------- MODULE ROM ---------------------------------
(***************************************************************************)
(* What the instruction cache promises fetch: a read-only memory.  Fetch  *)
(* requests the word at an address; the request may be retargeted to     *)
(* another address while it is pending (a redirect of the pc); when it is *)
(* answered, the answer is the word the memory holds at the address of   *)
(* the pending request.                                                   *)
(***************************************************************************)
CONSTANTS Rom          \* address -> word

VARIABLES busy, addr, out

vars == <<busy, addr, out>>

Init == /\ busy = FALSE
        /\ addr \in DOMAIN Rom
        /\ out = <<>>

Request(a) == /\ ~busy
              /\ busy' = TRUE
              /\ addr' = a
              /\ UNCHANGED out

Retarget(a) == /\ busy
               /\ addr' = a
               /\ UNCHANGED <<busy, out>>

Respond == /\ busy
           /\ busy' = FALSE
           /\ out' = <<Rom[addr]>>
           /\ UNCHANGED addr

Next == \/ \E a \in DOMAIN Rom : Request(a) \/ Retarget(a)
        \/ Respond

Spec == Init /\ [][Next]_vars
=============================================================================
