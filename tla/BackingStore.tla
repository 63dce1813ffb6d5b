----------------------------- MODULE BackingStore -----------------------------
(***************************************************************************)
(* The harness's main-memory contract (spec.md section 6), which the TLB   *)
(* and the caches call: memory_read and memory_write issue (or continue)  *)
(* an access and return TRUE when it completes in this call; a FALSE     *)
(* leaves the access outstanding, and memory_status polls it later and   *)
(* returns TRUE once it has completed.  The harness is not under src/:    *)
(* this module follows the spec's words.                                   *)
(*                                                                         *)
(* The operators take the store's state as arguments, so that each client *)
(* keeps its own copy:                                                     *)
(*   mem : address -> stored value                                        *)
(*   req : address -> the last access issued to it                       *)
(* A completed access stays "done" until another one is issued to the    *)
(* same address; an address never accessed is "idle" and memory_status   *)
(* reports it as not completed.                                           *)
(***************************************************************************)
EXTENDS Integers

Idle      == [st |-> "idle",  v |-> <<>>]
Done      == [st |-> "done",  v |-> <<>>]
RPending  == [st |-> "rpend", v |-> <<>>]
WPending(v) == [st |-> "wpend", v |-> v]

\* The states of one address's last access, for values in W.
ReqState(W) == {Idle, Done, RPending} \cup {WPending(v) : v \in W}

\* memory_read(a, ...): ok says whether the read completes in this call;
\* when it does the caller receives mem[a].
ReadReq(req, a, ok) == [req EXCEPT ![a] = IF ok THEN Done ELSE RPending]

\* The n words from a on, as a multi-word read (or a completed one, when
\* memory_status copies it out) delivers them; a word the store does not
\* hold reads as 0.
ReadWords(mem, a, n) ==
  [k \in 0..n-1 |-> IF a + k \in DOMAIN mem THEN mem[a + k] ELSE 0]

\* mem with the words of v (a function from 0..n-1) stored from a on.
WriteWords(mem, a, v) ==
  [x \in DOMAIN mem |-> IF x - a \in DOMAIN v THEN v[x - a] ELSE mem[x]]

\* memory_write(a, v, ...): the store takes the words of v (a function
\* from 0..n-1) when the write completes.
WriteMem(mem, a, v, ok) == IF ok THEN WriteWords(mem, a, v) ELSE mem
WriteReq(req, a, v, ok) == [req EXCEPT ![a] = IF ok THEN Done ELSE WPending(v)]

\* memory_status(a, ...): has the access issued to a completed?
Completed(req, a) == req[a].st = "done"

\* The memory finishes an outstanding access (between two calls).
Outstanding(req, a) == req[a].st \in {"rpend", "wpend"}
CompleteMem(mem, req, a) ==
  IF req[a].st = "wpend" THEN WriteWords(mem, a, req[a].v) ELSE mem
CompleteReq(req, a) == [req EXCEPT ![a] = Done]
=============================================================================
