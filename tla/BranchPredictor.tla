--------------------------- MODULE BranchPredictor ---------------------------
(***************************************************************************)
(* The branch target table of src/src/branch_predictor.c: 32 direct-mapped *)
(* entries {branch_address, target_address, bht}, bht a 2-bit saturating   *)
(* counter.  Addresses are byte addresses; an instruction is 4 bytes.      *)
(* The table operators take the table as an argument so that the pipeline  *)
(* can use them on its own copy (INSTANCE ... WITH branch_table <- ...).   *)
(***************************************************************************)
EXTENDS Integers

CONSTANT Addr           \* the byte addresses (integers) the predictor may be asked about

VARIABLE branch_table

TableSize == 32

Entry == [branch_address : Int, target_address : Int, bht : 0..3]

\* uint8_t t_index = (uint8_t) address & 31
TIndex(a) == a % TableSize

EmptyTable == [i \in 0..TableSize-1 |->
                 [branch_address |-> 0, target_address |-> 0, bht |-> 0]]

\* update_bht: saturating increment when t_bht, decrement otherwise
UpdateBht(tbl, t_bht, i) ==
  IF t_bht /\ tbl[i].bht < 3 THEN [tbl EXCEPT ![i].bht = @ + 1]
  ELSE IF ~t_bht /\ tbl[i].bht > 0 THEN [tbl EXCEPT ![i].bht = @ - 1]
  ELSE tbl

\* predict_address: the stored target when the slot holds this branch and
\* its counter says "likely taken", the fall-through address otherwise
PredictAddress(tbl, a) ==
  LET e == tbl[TIndex(a)] IN
  IF a = e.branch_address /\ e.bht > 1 THEN e.target_address ELSE a + 4

\* predict_address_BTFNT: taken only when the stored target lies beyond a+4
PredictAddressBTFNT(tbl, a) ==
  LET e == tbl[TIndex(a)] IN
  IF e.branch_address = a /\ e.target_address > a + 4
  THEN e.target_address ELSE a + 4

\* update_entry(new_address, new_target, t_bht): the slot is chosen by the
\* TARGET, and an existing entry is recognised by branch_address = target
UpdateEntry(tbl, new_address, new_target, t_bht) ==
  LET i == TIndex(new_target) IN
  IF tbl[i].branch_address = new_target
  THEN UpdateBht(tbl, t_bht, i)
  ELSE [tbl EXCEPT ![i] = [branch_address |-> new_address,
                           target_address |-> new_target,
                           bht |-> IF new_address + 4 > new_target THEN 3 ELSE 0]]

BPTypeOK == branch_table \in [0..TableSize-1 -> Entry]

BPInit == branch_table = EmptyTable

\* One resolution of a branch at a whose outcome t differs from a+4.
Resolve(a, t) ==
  /\ t # a + 4
  /\ branch_table' = UpdateEntry(branch_table, a, t, t = a + 4)

BPNext == \E a, t \in Addr : Resolve(a, t)

BPSpec == BPInit /\ [][BPNext]_branch_table
=============================================================================
