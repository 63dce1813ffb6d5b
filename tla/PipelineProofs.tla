---------------------------- MODULE PipelineProofs ----------------------------
(***************************************************************************)
(* Machine-checked proofs about the pipeline model of Pipeline.tla, for    *)
(* every value of the constants allowed by ConstAssumption.                *)
(***************************************************************************)
EXTENDS Pipeline, TLAPS

\* the fields of the result of one instruction's handler
EvalRec == [next : Int, rw : 0..3, reg : RegIdx, value : 0..Val-1,
            addr : 0..MemSize-1]

\* A handler of the dispatch table (Eval) yields a result of the shape the
\* memory-stage register can hold: a register index, a value modulo Val
\* and an address inside data memory.
LEMMA EvalType ==
  ASSUME NEW ins \in Instr, NEW a \in Int,
         NEW v1 \in 0..Val-1, NEW v2 \in 0..Val-1
  PROVE  Eval(ins, a, v1, v2) \in EvalRec
<1>a. NReg \in Nat /\ Val \in Nat \ {0} /\ MemSize \in Nat \ {0}
  BY ConstAssumption
<1>b. ins.imm \in -16..16 /\ ins.rd \in RegIdx /\ ins.op \in Ops
  BY DEF Instr
<1>1. (v1 + ins.imm) % Val \in 0..Val-1 /\ (v1 + v2) % Val \in 0..Val-1
  BY <1>a, <1>b
<1>2. (a + 4) % Val \in 0..Val-1
  BY <1>a
<1>3. (v1 + ins.imm) % MemSize \in 0..MemSize-1
  BY <1>a, <1>b
<1>4. a + 4 * ins.imm \in Int /\ a + 4 \in Int /\ 0 \in RegIdx
  BY <1>a, <1>b DEF RegIdx
<1> USE <1>b DEF EvalRec
<1>5. RiscvAddi(ins, a, v1, v2) \in EvalRec /\ RiscvAdd(ins, a, v1, v2) \in EvalRec
  BY <1>a, <1>1, <1>4 DEF RiscvAddi, RiscvAdd
<1>6. RiscvLd(ins, a, v1, v2) \in EvalRec /\ RiscvSd(ins, a, v1, v2) \in EvalRec
  BY <1>a, <1>3, <1>4 DEF RiscvLd, RiscvSd
<1>7. /\ RiscvBeq(ins, a, v1, v2) \in EvalRec
      /\ RiscvJal(ins, a, v1, v2) \in EvalRec
      /\ RiscvNop(ins, a, v1, v2) \in EvalRec
  BY <1>a, <1>2, <1>4 DEF RiscvBeq, RiscvJal, RiscvNop
<1>8. QED
  BY <1>5, <1>6, <1>7 DEF Eval, Handlers, Ops

\* register_write keeps the register file a map from indices to values.
LEMMA RegisterWriteType ==
  ASSUME NEW r \in [RegIdx -> 0..Val-1], NEW reg \in RegIdx,
         NEW v \in 0..Val-1
  PROVE  RegisterWrite(r, reg, v) \in [RegIdx -> 0..Val-1]
BY DEF RegisterWrite

\* update_entry keeps every slot of the branch table a well-formed entry,
\* whatever branch and target addresses it is given.
LEMMA UpdateEntryType ==
  ASSUME NEW tbl \in [0..BP!TableSize-1 -> BP!Entry],
         NEW a \in Int, NEW t \in Int, NEW b \in BOOLEAN
  PROVE  BP!UpdateEntry(tbl, a, t, b) \in [0..BP!TableSize-1 -> BP!Entry]
<1> DEFINE i == BP!TIndex(t)
<1>1. i \in 0..BP!TableSize-1
  BY DEF BP!TIndex, BP!TableSize
<1>2. BP!UpdateBht(tbl, b, i) \in [0..BP!TableSize-1 -> BP!Entry]
  BY <1>1 DEF BP!UpdateBht, BP!Entry
<1>3. QED
  BY <1>1, <1>2 DEF BP!UpdateEntry, BP!Entry

\* predict_address returns an address (the stored target or a + 4).
LEMMA PredictType ==
  ASSUME NEW tbl \in [0..BP!TableSize-1 -> BP!Entry], NEW a \in Int
  PROVE  BP!PredictAddress(tbl, a) \in Int
<1>1. BP!TIndex(a) \in 0..BP!TableSize-1
  BY DEF BP!TIndex, BP!TableSize
<1>2. QED
  BY <1>1 DEF BP!PredictAddress, BP!Entry

\* the all-zero stage registers the harness starts from are well typed
LEMMA ZeroRegsType ==
  D0 \in DReg /\ X0 \in XReg /\ M0 \in MReg /\ W0 \in WReg
<1>1. ZeroWord \in Instr
  BY ConstAssumption DEF ZeroWord, Instr, Ops, RegIdx
<1>2. M0 \in MReg
  BY ConstAssumption DEF M0, MReg, RegIdx, NoId
<1>3. QED
  BY <1>1, <1>2, ConstAssumption DEF D0, X0, W0, DReg, XReg, WReg, RegIdx, NoReg

\* InstrAt always yields an instruction: a program word or the zero word.
LEMMA InstrAtType ==
  ASSUME NEW a
  PROVE  InstrAt(a) \in Instr
<1>1. ZeroWord \in Instr
  BY ConstAssumption DEF ZeroWord, Instr, Ops, RegIdx
<1>2. \A x \in DOMAIN Prog : Prog[x] \in Instr
  BY ConstAssumption
<1>3. QED
  BY <1>1, <1>2 DEF InstrAt

\* the register fields decode extracts are registers or -1
LEMMA DecodeFieldsType ==
  ASSUME NEW ins \in Instr
  PROVE  /\ Rs1Of(ins) \in RegIdx \cup {NoReg}
         /\ Rs2Of(ins) \in RegIdx \cup {NoReg}
         /\ RdOf(ins) \in RegIdx \cup {NoReg}
BY DEF Rs1Of, Rs2Of, RdOf, Instr

\* forwarded_register_read yields a register value
LEMMA ForwardType ==
  ASSUME TypeOK, NEW r \in RegIdx
  PROVE  Forward(r) \in 0..Val-1
BY DEF Forward, TypeOK, MReg, WReg

\* the fields of new_m_reg stage_execute sets first keep it well typed
LEMMA ExecBaseType ==
  ASSUME newM \in MReg, curX \in XReg
  PROVE  ExecBase \in MReg
<1>1. curX.pc \in Int
  BY DEF XReg
<1>2. 0 \in 0..2 /\ 0 \in 0..1 /\ 0 \in 0..3 /\ NoId \in Int
  BY DEF NoId
<1>3. QED
  BY <1>1, <1>2, Zenon DEF ExecBase, MReg

\* the fields a dispatched handler assigns keep new_m_reg well typed
LEMMA DispatchedType ==
  ASSUME NEW m \in MReg, NEW e \in EvalRec
  PROVE  Dispatched(m, e) \in MReg
BY DEF Dispatched, MReg, EvalRec

\* The numeric facts about the constants and the small field ranges that
\* the record-typing steps below use (Zenon does no arithmetic).
LEMMA Numbers ==
  /\ {0, 1} \subseteq 0..1 /\ {0, 1, 2} \subseteq 0..2
  /\ {0, 1, 2, 3} \subseteq 0..3 /\ {0, 1, 2, 3, 4, 5} \subseteq 0..5
  /\ NoId \in Int /\ NoReg \in Int
  /\ 0 \in RegIdx /\ 0 \in 0..Val-1 /\ AllOnes \in 0..Val-1
  /\ 0 \in 0..MemSize-1
  /\ DOMAIN StageOrder = 1..Len(StageOrder)
  /\ MaxStalls \in Nat /\ MaxCycles \in Nat
<1>1. NReg \in Nat /\ Val \in Nat \ {0} /\ MemSize \in Nat \ {0}
      /\ MaxStalls \in Nat /\ MaxCycles \in Nat
  BY ConstAssumption
<1>2. StageOrder \in Seq({"F", "D", "X", "M", "W"})
  BY ConstAssumption
<1>3. QED
  BY <1>1, <1>2 DEF NoId, NoReg, RegIdx, AllOnes

\* a stage call advances the harness to the next call of the cycle
LEMMA StageAdvance ==
  ASSUME TypeOK, NEW s, StageIs(s), stage' = stage + 1
  PROVE  stage' \in 1..Len(StageOrder) + 1
BY Numbers DEF StageIs, TypeOK

\* a stall counted against the bound keeps the counter in range
LEMMA StallType ==
  ASSUME TypeOK, Stall
  PROVE  stalls' \in 0..MaxStalls
BY Numbers DEF Stall, TypeOK

\* setting the stall fields of a D register keeps it a D register
LEMMA DRegExcept ==
  ASSUME NEW d \in DReg, NEW w \in 0..3, NEW t \in {0, 2, 255}
  PROVE  [d EXCEPT !.tlb_stall_status = t, !.will_be_stalled = w] \in DReg
BY DEF DReg

\* stage_fetch preserves the type invariant
LEMMA FetchTypeOK ==
  ASSUME TypeOK, Fetch
  PROVE  TypeOK'
<1>1. stage' \in 1..Len(StageOrder) + 1
  BY StageAdvance DEF Fetch
<1>2. newD' \in DReg /\ pc' \in Int /\ stalls' \in 0..MaxStalls
  <2>1. CASE FetchDone
    <3>1. BP!PredictAddress(bt, pc) \in Int /\ InstrAt(pc) \in Instr
      BY PredictType, InstrAtType DEF TypeOK
    <3>2. QED
      BY <2>1, <3>1, Numbers, Zenon DEF FetchDone, TypeOK, DReg
  <2>2. CASE FetchTlbStall
    BY <2>2, StallType, Numbers, Zenon DEF FetchTlbStall, TypeOK, DReg
  <2>3. CASE \E missed \in {1, 2} : FetchCacheStall(missed)
    <3>1. PICK missed \in {1, 2} : FetchCacheStall(missed)
      BY <2>3
    <3>2. stalls' \in 0..MaxStalls
      BY <3>1, StallType DEF FetchCacheStall
    <3>3. newD' \in DReg
      <4>1. (IF missed = 2 THEN 3 ELSE 1) \in 0..3
        BY Numbers
      <4>2. 255 \in {0, 2, 255}
        OBVIOUS
      <4>3. D0 \in DReg
        BY ZeroRegsType
      <4>4. QED
        BY <3>1, <4>1, <4>2, <4>3, DRegExcept, ZenonT(60) DEF FetchCacheStall
    <3>4. QED
      BY <3>1, <3>2, <3>3 DEF FetchCacheStall, TypeOK
  <2>4. QED
    BY <2>1, <2>2, <2>3 DEF Fetch
<1>3. QED
  BY <1>1, <1>2, Zenon DEF Fetch, TypeOK

\* the X register stage_decode builds from the D register is well typed
LEMMA XRegOfType ==
  ASSUME NEW d \in DReg, NEW ns \in 0..1,
         NEW v1 \in 0..Val-1, NEW v2 \in 0..Val-1,
         NEW r1 \in RegIdx \cup {NoReg}, NEW r2 \in RegIdx \cup {NoReg},
         NEW rd \in RegIdx \cup {NoReg}
  PROVE  XRegOf(d, ns, v1, v2, r1, r2, rd) \in XReg
BY Zenon DEF XRegOf, XReg, DReg

\* stage_decode preserves the type invariant
LEMMA DecodeTypeOK ==
  ASSUME TypeOK, Decode
  PROVE  TypeOK'
<1>1. stage' \in 1..Len(StageOrder) + 1
  BY StageAdvance DEF Decode
<1>2. newX' \in XReg /\ pc' \in Int
  <2>1. CASE DecodeGated
    BY <2>1, Numbers, Zenon DEF DecodeGated, TypeOK, XReg
  <2>2. CASE DecodeStall
    <3>1. NoReg \in RegIdx \cup {NoReg} /\ 0 \in 0..1 /\ curD \in DReg
      BY Numbers DEF TypeOK
    <3>2. curD.pc \in Int
      BY <3>1 DEF DReg
    <3>3. QED
      BY <2>2, <3>1, <3>2, Numbers, XRegOfType DEF DecodeStall, Rewind
  <2>3. CASE DecodeIssue
    <3> DEFINE ins == curD.instruction
    <3>1. ins \in Instr /\ curD \in DReg
      BY DEF TypeOK, DReg
    <3>2. ins.rs1 \in RegIdx /\ ins.rs2 \in RegIdx
      BY <3>1 DEF Instr
    <3>3. /\ (IF Rs1Of(ins) = NoReg THEN AllOnes ELSE Forward(ins.rs1)) \in 0..Val-1
          /\ (IF Rs2Of(ins) = NoReg THEN AllOnes ELSE Forward(ins.rs2)) \in 0..Val-1
      BY <3>2, ForwardType, Numbers
    <3>4. 1 \in 0..1
      BY Numbers
    <3>5. newX' \in XReg
      BY <2>3, <3>1, <3>3, <3>4, DecodeFieldsType, XRegOfType DEF DecodeIssue
    <3>6. QED
      BY <2>3, <3>5 DEF DecodeIssue, TypeOK
  <2>4. QED
    BY <2>1, <2>2, <2>3 DEF Decode
<1>3. QED
  BY <1>1, <1>2, Zenon DEF Decode, TypeOK

\* setting the taint count or the ghost id of an M register keeps its type
LEMMA MRegTaint ==
  ASSUME NEW m \in MReg, NEW t \in 0..1
  PROVE  [m EXCEPT !.tainted_executions = t] \in MReg
BY Zenon DEF MReg

LEMMA MRegId ==
  ASSUME NEW m \in MReg, NEW i \in Int
  PROVE  [m EXCEPT !.id = i] \in MReg
BY Zenon DEF MReg

LEMMA MRegIdTaint ==
  ASSUME NEW m \in MReg, NEW i \in Int, NEW t \in 0..1
  PROVE  [m EXCEPT !.id = i, !.tainted_executions = t] \in MReg
BY Zenon DEF MReg

\* a taint count of 0..1 that is positive counts down to 0
LEMMA CountdownType ==
  ASSUME NEW t \in 0..1, t > 0
  PROVE  TaintCountdown(t) \in 0..1
BY DEF TaintCountdown

\* stage_execute preserves the type invariant
LEMMA ExecuteTypeOK ==
  ASSUME TypeOK, Execute
  PROVE  TypeOK'
<1> DEFINE Tbl == [0..BP!TableSize-1 -> BP!Entry]
<1>0. /\ curX \in XReg /\ curM \in MReg /\ curW \in WReg /\ newM \in MReg
      /\ pc \in Int /\ bt \in Tbl
  BY DEF TypeOK
<1>1. stage' \in 1..Len(StageOrder) + 1
  BY StageAdvance DEF Execute
<1>2. newM' \in MReg /\ pc' \in Int /\ bt' \in Tbl
  <2>1. CASE ExecuteReplay
    <3>1. curW.memory_register \in MReg /\ 1 \in 0..1
      BY <1>0, Numbers DEF WReg
    <3>2. curW.memory_register.pc \in Int
      BY <3>1 DEF MReg
    <3>3. QED
      BY <2>1, <1>0, <3>1, <3>2, MRegTaint DEF ExecuteReplay
  <2>2. CASE ExecuteBubble
    BY <2>2, <1>0, ExecBaseType DEF ExecuteBubble
  <2>3. CASE ExecuteTainted
    <3>1. curM.tainted_executions \in 0..1
      BY <1>0 DEF MReg
    <3>2. TaintCountdown(curM.tainted_executions) \in 0..1
      BY <2>3, <3>1, CountdownType DEF ExecuteTainted
    <3>3. QED
      BY <2>3, <1>0, <3>2, ExecBaseType, MRegTaint, Zenon DEF ExecuteTainted
  <2>4. CASE ExecuteNop
    <3>1. curX.pc \in Int
      BY <1>0 DEF XReg
    <3>2. ExecBase \in MReg
      BY <1>0, ExecBaseType
    <3>3. [ExecBase EXCEPT !.id = curX.pc] \in MReg
      BY <3>1, <3>2, MRegId
    <3>4. newM' \in MReg
      BY <2>4, <3>3 DEF ExecuteNop
    <3>5. QED
      BY <2>4, <1>0, <3>4 DEF ExecuteNop
  <2>5. CASE ExecuteDispatch
    <3> DEFINE e == Eval(curX.instruction, curX.pc, curX.rs1_value, curX.rs2_value)
    <3>1. /\ curX.instruction \in Instr /\ curX.pc \in Int
          /\ curX.rs1_value \in 0..Val-1 /\ curX.rs2_value \in 0..Val-1
      BY <1>0 DEF XReg
    <3>2. e \in EvalRec
      BY <3>1, EvalType
    <3>3. e.next \in Int
      BY <3>2 DEF EvalRec
    <3>4. Dispatched(ExecBase, e) \in MReg
      BY <1>0, <3>2, ExecBaseType, DispatchedType
    <3>5. (IF e.next # curX.new_pc THEN 1 ELSE 0) \in 0..1
      BY Numbers
    <3>6. newM' \in MReg
      BY <2>5, <3>1, <3>4, <3>5, MRegIdTaint, Zenon DEF ExecuteDispatch
    <3>7. pc' \in Int
      BY <2>5, <1>0, <3>3 DEF ExecuteDispatch
    <3>8. bt' \in Tbl
      BY <2>5, <1>0, <3>1, <3>3, UpdateEntryType DEF ExecuteDispatch
    <3>9. QED
      BY <3>6, <3>7, <3>8
  <2>6. QED
    BY <2>1, <2>2, <2>3, <2>4, <2>5 DEF Execute
<1>3. QED
  BY <1>1, <1>2, Zenon DEF Execute, TypeOK

\* The W-register updates of stage_memory keep it a W register: a value
\* passed on, a TLB stall, a cache stall and a squashed slot.
LEMMA WRegPassOn ==
  ASSUME NEW w \in WReg, NEW r \in RegIdx, NEW v \in 0..Val-1, NEW op \in 0..1
  PROVE  [w EXCEPT !.reg = r, !.value = v, !.op = op,
                   !.global_memory_stall = 0, !.tainted_executions = 0] \in WReg
BY Numbers, Zenon DEF WReg

LEMMA WRegTlbStall ==
  ASSUME NEW w \in WReg, NEW g \in 0..5, NEW m \in MReg
  PROVE  [w EXCEPT !.global_memory_stall = g, !.tlb_stall_status = 2,
                   !.value = 0, !.reg = 0, !.op = 0, !.tainted_executions = 1,
                   !.memory_register = m] \in WReg
BY Numbers, Zenon DEF WReg

LEMMA WRegCacheStall ==
  ASSUME NEW w \in WReg, NEW g \in 0..5, NEW t \in 0..1, NEW m \in MReg
  PROVE  [w EXCEPT !.global_memory_stall = g, !.value = 0, !.reg = 0,
                   !.op = 0, !.tainted_executions = t,
                   !.memory_register = m] \in WReg
BY Numbers, Zenon DEF WReg

LEMMA WRegSquash ==
  ASSUME NEW w \in WReg, NEW t \in 0..1
  PROVE  [w EXCEPT !.value = 0, !.reg = 0, !.op = 0,
                   !.global_memory_stall = 0, !.tainted_executions = t] \in WReg
BY Numbers, Zenon DEF WReg

\* the copy of the M register saved for the replay is an M register
LEMMA MRegStall ==
  ASSUME NEW m \in MReg, NEW st \in {0, 2, 255}, NEW ws \in 0..2
  PROVE  [m EXCEPT !.stallStatus = st, !.wasStalled = ws] \in MReg
BY Zenon DEF MReg

\* retiring an instruction keeps the ghost retirement count a natural
LEMMA RetireType ==
  ASSUME TypeOK, Retire
  PROVE  retired' \in Nat
BY DEF Retire, TypeOK

\* a data-TLB walk that stalls stage_memory keeps the type invariant
LEMMA MemTlbStallType ==
  ASSUME TypeOK, NEW gms \in {2, 3}, MemTlbStall(gms)
  PROVE  newW' \in WReg /\ stalls' \in 0..MaxStalls
<1>1. curM \in MReg /\ newW \in WReg
  BY DEF TypeOK
<1>2. gms \in 0..5 /\ 2 \in {0, 2, 255} /\ 1 \in 0..2
  OBVIOUS
<1>3. [curM EXCEPT !.stallStatus = 2, !.wasStalled = 1] \in MReg
  BY <1>1, <1>2, MRegStall, Zenon
<1>4. [newW EXCEPT !.global_memory_stall = gms, !.tlb_stall_status = 2,
                   !.value = 0, !.reg = 0, !.op = 0, !.tainted_executions = 1,
                   !.memory_register = [curM EXCEPT !.stallStatus = 2,
                                                    !.wasStalled = 1]] \in WReg
  BY <1>1, <1>2, <1>3, WRegTlbStall, Zenon
<1>5. stalls' \in 0..MaxStalls
  BY StallType DEF MemTlbStall
<1>6. QED
  BY <1>4, <1>5, Zenon DEF MemTlbStall

\* a data-cache access that stalls stage_memory keeps the type invariant
LEMMA MemCacheStallType ==
  ASSUME TypeOK, NEW missed \in {1, 2}, NEW g \in 0..5, NEW t \in 0..1,
         MemCacheStall(missed, g, t)
  PROVE  newW' \in WReg /\ stalls' \in 0..MaxStalls
<1>1. curM \in MReg /\ newW \in WReg
  BY DEF TypeOK
<1> DEFINE ws == IF missed = 2 THEN 2 ELSE 1
           mr == [curM EXCEPT !.stallStatus = 255, !.wasStalled = ws]
<1>2. ws \in 0..2
  OBVIOUS
<1>3. mr \in MReg
  <2>1. \A st \in {0, 2, 255}, w \in 0..2 :
          [curM EXCEPT !.stallStatus = st, !.wasStalled = w] \in MReg
    BY <1>1, MRegStall
  <2>2. QED
    BY <1>2, <2>1 DEF mr
<1>4. [newW EXCEPT !.global_memory_stall = g, !.value = 0, !.reg = 0,
                   !.op = 0, !.tainted_executions = t,
                   !.memory_register = mr] \in WReg
  <2>1. \A m \in MReg :
          [newW EXCEPT !.global_memory_stall = g, !.value = 0, !.reg = 0,
                       !.op = 0, !.tainted_executions = t,
                       !.memory_register = m] \in WReg
    BY <1>1, WRegCacheStall
  <2>2. QED
    BY <1>3, <2>1
<1>5. stalls' \in 0..MaxStalls
  BY StallType DEF MemCacheStall
<1>6. QED
  BY <1>4, <1>5, Zenon DEF MemCacheStall, mr, ws

\* stage_memory passing a value on keeps the type invariant
LEMMA PassOnType ==
  ASSUME TypeOK, NEW r \in RegIdx, NEW v \in 0..Val-1, NEW op \in 0..1,
         PassOn(r, v, op)
  PROVE  newW' \in WReg
<1>1. newW \in WReg
  BY DEF TypeOK
<1>2. [newW EXCEPT !.reg = r, !.value = v, !.op = op,
                   !.global_memory_stall = 0, !.tainted_executions = 0] \in WReg
  BY <1>1, WRegPassOn
<1>3. QED
  BY <1>2 DEF PassOn

\* stage_memory preserves the type invariant
LEMMA MemoryTypeOK ==
  ASSUME TypeOK, Memory
  PROVE  TypeOK'
<1> DEFINE DMem == [0..MemSize-1 -> 0..Val-1]
<1>0. /\ curM \in MReg /\ curW \in WReg /\ newW \in WReg /\ dmem \in DMem
      /\ retired \in Nat /\ stalls \in 0..MaxStalls
  BY DEF TypeOK
<1>a. /\ curM.reg \in RegIdx /\ curM.value \in 0..Val-1
      /\ curM.address \in 0..MemSize-1
      /\ curW.tainted_executions \in 0..1
  BY <1>0 DEF MReg, WReg
<1>b. 0 \in RegIdx /\ 0 \in 0..Val-1 /\ 0 \in 0..1 /\ 1 \in 0..1
  BY Numbers
<1>1. stage' \in 1..Len(StageOrder) + 1
  BY StageAdvance DEF Memory
<1>2. newW' \in WReg /\ dmem' \in DMem /\ stalls' \in 0..MaxStalls /\ retired' \in Nat
  <2>1. CASE MemoryTainted
    <3>1. TaintCountdown(curW.tainted_executions) \in 0..1
      BY <2>1, <1>a, CountdownType DEF MemoryTainted
    <3>2. [newW EXCEPT !.value = 0, !.reg = 0, !.op = 0,
                       !.global_memory_stall = 0,
                       !.tainted_executions = TaintCountdown(curW.tainted_executions)]
          \in WReg
      BY <1>0, <3>1, WRegSquash
    <3>3. QED
      BY <2>1, <1>0, <3>2 DEF MemoryTainted
  <2>2. CASE MemoryAlu
    BY <2>2, <1>0, <1>a, <1>b, PassOnType, RetireType DEF MemoryAlu
  <2>3. CASE MemLoad
    <3>1. CASE PassOn(curM.reg, dmem[curM.address], 1) /\ Retire
               /\ UNCHANGED <<dmem, stalls>>
      <4>1. dmem[curM.address] \in 0..Val-1
        BY <1>0, <1>a
      <4>2. QED
        BY <3>1, <4>1, <1>0, <1>a, <1>b, PassOnType, RetireType
    <3>2. CASE MemTlbStall(2) /\ UNCHANGED <<dmem, ref, retired>>
      BY <3>2, <1>0, MemTlbStallType
    <3>3. CASE \E missed \in {1, 2} :
                 MemCacheStall(missed, IF missed = 2 THEN 4 ELSE 1, 1)
               /\ UNCHANGED <<dmem, ref, retired>>
      <4>1. PICK missed \in {1, 2} :
                 MemCacheStall(missed, IF missed = 2 THEN 4 ELSE 1, 1)
        BY <3>3
      <4>2. (IF missed = 2 THEN 4 ELSE 1) \in 0..5
        OBVIOUS
      <4>3. QED
        BY <3>3, <4>1, <4>2, <1>0, <1>b, MemCacheStallType
    <3>4. QED
      BY <2>3, <3>1, <3>2, <3>3 DEF MemLoad
  <2>4. CASE MemStore
    <3>1. CASE dmem' = [dmem EXCEPT ![curM.address] = curM.value]
               /\ PassOn(0, 0, 0) /\ Retire /\ UNCHANGED stalls
      <4>1. [dmem EXCEPT ![curM.address] = curM.value] \in DMem
        BY <1>0, <1>a
      <4>2. QED
        BY <3>1, <4>1, <1>0, <1>b, PassOnType, RetireType
    <3>2. CASE MemTlbStall(3) /\ UNCHANGED <<dmem, ref, retired>>
      BY <3>2, <1>0, MemTlbStallType
    <3>3. CASE \E missed \in {1, 2} :
                 MemCacheStall(missed, IF missed = 2 THEN 5 ELSE 1, 0)
               /\ UNCHANGED <<dmem, ref, retired>>
      <4>1. PICK missed \in {1, 2} :
                 MemCacheStall(missed, IF missed = 2 THEN 5 ELSE 1, 0)
        BY <3>3
      <4>2. (IF missed = 2 THEN 5 ELSE 1) \in 0..5
        OBVIOUS
      <4>3. QED
        BY <3>3, <4>1, <4>2, <1>0, <1>b, MemCacheStallType
    <3>4. QED
      BY <2>4, <3>1, <3>2, <3>3 DEF MemStore
  <2>5. CASE MemoryNone
    BY <2>5, <1>0, <1>b, PassOnType, RetireType DEF MemoryNone
  <2>6. QED
    BY <2>1, <2>2, <2>3, <2>4, <2>5 DEF Memory
<1>3. QED
  BY <1>1, <1>2, Zenon DEF Memory, TypeOK

\* stage_writeback preserves the type invariant
LEMMA WritebackTypeOK ==
  ASSUME TypeOK, Writeback
  PROVE  TypeOK'
<1>1. stage' \in 1..Len(StageOrder) + 1
  BY StageAdvance DEF Writeback
<1>2. regs' \in [RegIdx -> 0..Val-1]
  <2>1. regs \in [RegIdx -> 0..Val-1] /\ curW.reg \in RegIdx
        /\ curW.value \in 0..Val-1
    BY DEF TypeOK, WReg
  <2>2. QED
    BY <2>1, RegisterWriteType DEF Writeback
<1>3. QED
  BY <1>1, <1>2, Zenon DEF Writeback, TypeOK

\* the harness's end of cycle preserves the type invariant
LEMMA EndCycleTypeOK ==
  ASSUME TypeOK, EndCycle
  PROVE  TypeOK'
<1>1. stage' \in 1..Len(StageOrder) + 1 /\ cycle' \in 0..MaxCycles
  BY Numbers DEF EndCycle, TypeOK
<1>2. /\ newD' \in DReg /\ newX' \in XReg /\ newM' \in MReg /\ newW' \in WReg
      /\ curD' \in DReg /\ curX' \in XReg /\ curM' \in MReg /\ curW' \in WReg
  BY ZeroRegsType, Zenon DEF EndCycle, TypeOK
<1>3. QED
  BY <1>1, <1>2, Zenon DEF EndCycle, TypeOK

\* the initial state is well typed
LEMMA InitTypeOK ==
  Init => TypeOK
<1> SUFFICES ASSUME Init PROVE TypeOK
  OBVIOUS
<1>1. /\ regs \in [RegIdx -> 0..Val-1] /\ dmem \in [0..MemSize-1 -> 0..Val-1]
      /\ pc \in Int /\ stage \in 1..Len(StageOrder) + 1
      /\ cycle \in 0..MaxCycles /\ stalls \in 0..MaxStalls /\ retired \in Nat
  <2>1. MemInit \in [0..MemSize-1 -> 0..Val-1]
    BY ConstAssumption
  <2>2. QED
    BY <2>1, Numbers DEF Init
<1>2. bt \in [0..BP!TableSize-1 -> BP!Entry]
  BY DEF Init, BP!EmptyTable, BP!Entry, BP!TableSize
<1>3. QED
  BY <1>1, <1>2, ZeroRegsType, Zenon DEF Init, TypeOK

\* The type invariant of the pipeline: every stage register, the register
\* file, data memory and the branch table keep the shapes the C structures
\* of riscv_pipeline_registers.h and branch_predictor.c give them, and the
\* harness counters stay in their ranges, for every program and every
\* value of the constants.
THEOREM TypeCorrect == Spec => []TypeOK
<1>1. Init => TypeOK
  BY InitTypeOK
<1>2. TypeOK /\ [Next]_vars => TypeOK'
  <2> SUFFICES ASSUME TypeOK, [Next]_vars PROVE TypeOK'
    OBVIOUS
  <2>1. CASE Fetch
    BY <2>1, FetchTypeOK
  <2>2. CASE Decode
    BY <2>2, DecodeTypeOK
  <2>3. CASE Execute
    BY <2>3, ExecuteTypeOK
  <2>4. CASE Memory
    BY <2>4, MemoryTypeOK
  <2>5. CASE Writeback
    BY <2>5, WritebackTypeOK
  <2>6. CASE EndCycle
    BY <2>6, EndCycleTypeOK
  <2>7. CASE Done \/ UNCHANGED vars
    BY <2>7, Zenon DEF Done, vars, TypeOK
  <2>8. QED
    BY <2>1, <2>2, <2>3, <2>4, <2>5, <2>6, <2>7 DEF Next
<1>3. QED
  BY <1>1, <1>2, PTL DEF Spec

=============================================================================
