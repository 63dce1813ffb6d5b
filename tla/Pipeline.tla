------------------------------- MODULE Pipeline -------------------------------
(***************************************************************************)
(* The five-stage pipeline of src/src/riscv_virtualizer.c: stage_fetch,    *)
(* stage_decode (with the forwarding network), stage_execute, stage_memory *)
(* and stage_writeback, the stage registers of riscv_pipeline_registers.h, *)
(* the stall / taint / global-memory-stall protocol and the branch table.  *)
(*                                                                         *)
(* Each stage call is one action; the harness (not under src/) calls the   *)
(* five stages once per cycle in the order StageOrder and then copies the  *)
(* new stage registers into the current ones (EndCycle).                   *)
(*                                                                         *)
(* Data is abstracted: an instruction is a record of a few kinds, a        *)
(* register holds a value in 0..Val-1, memory holds MemSize words.  The   *)
(* instruction and data sides of the memory hierarchy (TLB + cache) are    *)
(* abstracted to their outcome per call: done, or one of the stall codes   *)
(* the code can return; every stall is counted against MaxStalls.         *)
(*                                                                         *)
(* A reference sequential interpreter (ref, retired) is kept as ghost     *)
(* state: it executes one instruction of the program each time the memory *)
(* stage lets an instruction through.                                      *)
(***************************************************************************)
EXTENDS Naturals, Integers, Sequences

CONSTANTS
  Prog,        \* the program: a function from byte addresses to instructions
  NReg,        \* registers x0..xNReg
  Val,         \* register values are 0..Val-1 (arithmetic modulo Val)
  MemSize,     \* data memory words 0..MemSize-1
  MemInit,     \* initial contents of data memory
  StageOrder,  \* the order in which the harness calls the five stages
  RegsZeroed,  \* TRUE iff the harness zeroes the new stage registers each cycle
  MaxCycles,   \* number of cycles the harness drives
  MaxStalls    \* bound on the number of multi-cycle memory stalls

Ops == {"alui", "alu", "load", "store", "beq", "jal", "zero"}
RegIdx == 0..NReg
NoReg == -1                     \* int16_t rs1/rs2/rd = -1: no register
NoId == -1                      \* ghost: no instruction (pcs are multiples of 4)

Instr == [op : Ops, rd : RegIdx, rs1 : RegIdx, rs2 : RegIdx, imm : -16..16]

\* the all-zero instruction word: opcode 0 decodes as I-type with x0 fields
ZeroWord == [op |-> "zero", rd |-> 0, rs1 |-> 0, rs2 |-> 0, imm |-> 0]

ASSUME ConstAssumption ==
  /\ NReg \in Nat /\ Val \in Nat \ {0} /\ MemSize \in Nat \ {0}
  /\ MemInit \in [0..MemSize-1 -> 0..Val-1]
  /\ \A a \in DOMAIN Prog : a \in Nat /\ a % 4 = 0 /\ Prog[a] \in Instr
  /\ StageOrder \in Seq({"F", "D", "X", "M", "W"})
  /\ RegsZeroed \in BOOLEAN
  /\ MaxCycles \in Nat /\ MaxStalls \in Nat

AllOnes == Val - 1              \* (uint64_t) -1

InstrAt(a) == IF a \in DOMAIN Prog THEN Prog[a] ELSE ZeroWord

VARIABLES
  pc,            \* get_pc / set_pc
  regs,          \* the architectural register file
  dmem,          \* data memory as seen through the data cache
  bt,            \* branch_table
  curD, curX, curM, curW,   \* current_stage_*_register
  newD, newX, newM, newW,   \* the new_*_reg arguments of the stage calls
  stage,         \* index into StageOrder of the next stage call
  cycle, stalls,
  ref, retired   \* ghost: reference interpreter and number of retirements

vars == <<pc, regs, dmem, bt, curD, curX, curM, curW, newD, newX, newM, newW,
          stage, cycle, stalls, ref, retired>>

BP == INSTANCE BranchPredictor WITH Addr <- DOMAIN Prog, branch_table <- bt

(***************************************************************************)
(* Stage registers (only the fields the control reads).                    *)
(***************************************************************************)
DReg == [pc : Int, new_pc : Int, instruction : Instr, not_stalled : 0..1,
         will_be_stalled : 0..3, tlb_stall_status : {0, 2, 255}]
XReg == [pc : Int, new_pc : Int, instruction : Instr, not_stalled : 0..1,
         rs1_value : 0..Val-1, rs2_value : 0..Val-1,
         rs1 : RegIdx \cup {NoReg}, rs2 : RegIdx \cup {NoReg},
         rd : RegIdx \cup {NoReg}]
MReg == [address : 0..MemSize-1, readWrite : 0..3, reg : RegIdx,
         value : 0..Val-1, tainted_executions : 0..1, wasStalled : 0..2,
         stallStatus : {0, 2, 255}, pc : Int, id : Int]
WReg == [reg : RegIdx, value : 0..Val-1, op : 0..1,
         global_memory_stall : 0..5, tlb_stall_status : {0, 2, 255},
         tainted_executions : 0..1, memory_register : MReg]

D0 == [pc |-> 0, new_pc |-> 0, instruction |-> ZeroWord, not_stalled |-> 0,
       will_be_stalled |-> 0, tlb_stall_status |-> 0]
X0 == [pc |-> 0, new_pc |-> 0, instruction |-> ZeroWord, not_stalled |-> 0,
       rs1_value |-> 0, rs2_value |-> 0, rs1 |-> 0, rs2 |-> 0, rd |-> 0]
M0 == [address |-> 0, readWrite |-> 0, reg |-> 0, value |-> 0,
       tainted_executions |-> 0, wasStalled |-> 0, stallStatus |-> 0,
       pc |-> 0, id |-> NoId]
W0 == [reg |-> 0, value |-> 0, op |-> 0, global_memory_stall |-> 0,
       tlb_stall_status |-> 0, tainted_executions |-> 0, memory_register |-> M0]

(***************************************************************************)
(* Execution engine: the effect of one instruction at address a with     *)
(* operand values v1, v2 (the dispatch table's handlers).                  *)
(***************************************************************************)
\* The handlers, each with the result it leaves in pc and new_m_reg:
\* next (the pc), rw (readWrite), reg, value, addr (address).
RiscvAddi(ins, a, v1, v2) ==
  [next |-> a + 4, rw |-> 3, reg |-> ins.rd, value |-> (v1 + ins.imm) % Val,
   addr |-> 0]
RiscvAdd(ins, a, v1, v2) ==
  [next |-> a + 4, rw |-> 3, reg |-> ins.rd, value |-> (v1 + v2) % Val,
   addr |-> 0]
RiscvLd(ins, a, v1, v2) ==
  [next |-> a + 4, rw |-> 2, reg |-> ins.rd, value |-> 0,
   addr |-> (v1 + ins.imm) % MemSize]
RiscvSd(ins, a, v1, v2) ==
  [next |-> a + 4, rw |-> 1, reg |-> 0, value |-> v2,
   addr |-> (v1 + ins.imm) % MemSize]
RiscvBeq(ins, a, v1, v2) ==
  [next |-> IF v1 = v2 THEN a + 4 * ins.imm ELSE a + 4, rw |-> 0, reg |-> 0,
   value |-> 0, addr |-> 0]
\* the link value is the incremented pc
RiscvJal(ins, a, v1, v2) ==
  [next |-> a + 4 * ins.imm, rw |-> 3, reg |-> ins.rd, value |-> (a + 4) % Val,
   addr |-> 0]
RiscvNop(ins, a, v1, v2) ==
  [next |-> a + 4, rw |-> 0, reg |-> 0, value |-> 0, addr |-> 0]

Handlers(ins, a, v1, v2) ==
  [alui |-> RiscvAddi(ins, a, v1, v2), alu  |-> RiscvAdd(ins, a, v1, v2),
   load |-> RiscvLd(ins, a, v1, v2),   store |-> RiscvSd(ins, a, v1, v2),
   beq  |-> RiscvBeq(ins, a, v1, v2),  jal  |-> RiscvJal(ins, a, v1, v2),
   zero |-> RiscvNop(ins, a, v1, v2)]

\* major_dispatch_table[opcode](&pc, instruction, new_m_reg)
Eval(ins, a, v1, v2) == Handlers(ins, a, v1, v2)[ins.op]

\* register_write: the register file keeps x0 at zero (harness contract)
RegisterWrite(r, reg, v) == IF reg = 0 THEN r ELSE [r EXCEPT ![reg] = v]

\* the decoding_type switch of stage_decode: I = 0, U = 1, S = 2, R = 3
DecodingType(ins) ==
  CASE ins.op = "jal"                -> "U"
    [] ins.op \in {"store", "beq"}   -> "S"
    [] ins.op = "alu"                -> "R"
    [] OTHER                         -> "I"

Rs1Of(ins) == IF DecodingType(ins) = "U" THEN NoReg ELSE ins.rs1
Rs2Of(ins) == IF DecodingType(ins) \in {"S", "R"} THEN ins.rs2 ELSE NoReg
RdOf(ins)  == IF DecodingType(ins) = "S" THEN NoReg ELSE ins.rd

(***************************************************************************)
(* Reference sequential interpreter (ghost).                               *)
(***************************************************************************)
RefInit == [pc |-> 0, regs |-> [r \in RegIdx |-> 0], mem |-> MemInit]

RefStep(s) ==
  LET ins == InstrAt(s.pc)
      e   == Eval(ins, s.pc, s.regs[ins.rs1], s.regs[ins.rs2])
  IN [pc   |-> e.next,
      regs |-> CASE e.rw = 3 -> RegisterWrite(s.regs, e.reg, e.value)
                 [] e.rw = 2 -> RegisterWrite(s.regs, e.reg, s.mem[e.addr])
                 [] OTHER    -> s.regs,
      mem  |-> IF e.rw = 1 THEN [s.mem EXCEPT ![e.addr] = e.value] ELSE s.mem]

\* the states the sequential machine passes through, for k instructions
RefRun[k \in Nat] == IF k = 0 THEN RefInit ELSE RefStep(RefRun[k - 1])

(***************************************************************************)
(* Initial state: the harness starts with zeroed stage registers, PC 0.    *)
(***************************************************************************)
Init ==
  /\ pc = 0
  /\ regs = [r \in RegIdx |-> 0]
  /\ dmem = MemInit
  /\ bt = BP!EmptyTable
  /\ curD = D0 /\ curX = X0 /\ curM = M0 /\ curW = W0
  /\ newD = D0 /\ newX = X0 /\ newM = M0 /\ newW = W0
  /\ stage = 1 /\ cycle = 0 /\ stalls = 0
  /\ ref = RefInit /\ retired = 0

StageIs(s) == cycle < MaxCycles /\ stage \in DOMAIN StageOrder /\ StageOrder[stage] = s

\* a multi-cycle memory operation did not complete in this call
Stall == stalls < MaxStalls /\ stalls' = stalls + 1

(***************************************************************************)
(* Helpers shared by the stage actions, each preceded by the mutant that   *)
(* the mutation runs substitute for it.                                    *)
(***************************************************************************)
ForwardNoM(r) == IF curW.reg = r THEN curW.value ELSE regs[r]

\* forwarded_register_read_single for a register that does not wait on X:
\* the M stage's register write, else the W stage's, else the register file
Forward(r) ==
  IF curM.readWrite = 3 /\ curM.reg = r THEN curM.value
  ELSE IF curW.reg = r THEN curW.value
  ELSE regs[r]

LoadUseIgnored(rs1, rs2, rd) == FALSE

\* stage_decode: a load in M whose destination is a source or the
\* destination of the instruction being decoded
LoadUseHazard(rs1, rs2, rd) == curM.readWrite = 2 /\ curM.reg \in {rs1, rs2, rd}

RewindDropped == UNCHANGED pc

\* stage_decode's self-stall: set_pc(current_stage_d_register->pc)
Rewind == pc' = curD.pc

TaintKept(t) == t
TaintUp(t) == t + 1

\* one in-flight stage advance suppressed: tainted_executions - 1
TaintCountdown(t) == t - 1

(***************************************************************************)
(* stage_fetch: translate the PC through the instruction TLB, read the     *)
(* instruction cache, predict the next PC.                                 *)
(***************************************************************************)
FetchDone ==
  LET np == BP!PredictAddress(bt, pc) IN
  /\ newD' = [newD EXCEPT !.pc = pc, !.new_pc = np, !.instruction = InstrAt(pc),
                          !.not_stalled = 1, !.will_be_stalled = 0]
  /\ pc' = np
  /\ UNCHANGED stalls

\* get_address returned a walk status: only two fields of new_d_reg are set
FetchTlbStall ==
  /\ Stall
  /\ newD' = [newD EXCEPT !.will_be_stalled = 2, !.tlb_stall_status = 2]
  /\ UNCHANGED pc

\* read_access returned 1 (line fill pending) or 2 (the walk that completed
\* in this call used the memory port, possible only when resuming a walk)
FetchCacheStall(missed) ==
  /\ missed = 2 => curD.will_be_stalled = 2
  /\ Stall
  /\ newD' = [D0 EXCEPT !.tlb_stall_status = 255,
                        !.will_be_stalled = IF missed = 2 THEN 3 ELSE 1]
  /\ UNCHANGED pc

Fetch ==
  /\ StageIs("F")
  /\ \/ FetchDone
     \/ FetchTlbStall
     \/ \E missed \in {1, 2} : FetchCacheStall(missed)
  /\ stage' = stage + 1
  /\ UNCHANGED <<regs, dmem, bt, curD, curX, curM, curW, newX, newM, newW,
                 cycle, ref, retired>>

(***************************************************************************)
(* stage_decode with forwarded_register_read.                              *)
(***************************************************************************)
XRegOf(d, ns, v1, v2, rs1, rs2, rd) ==
  [pc |-> d.pc, new_pc |-> d.new_pc, instruction |-> d.instruction,
   not_stalled |-> ns, rs1_value |-> v1, rs2_value |-> v2,
   rs1 |-> rs1, rs2 |-> rs2, rd |-> rd]

\* the registers stage_decode hands to forwarded_register_read: a format
\* with one source passes register 0 as its second operand
Srcs(ins) ==
  IF Rs1Of(ins) = NoReg /\ Rs2Of(ins) = NoReg THEN {}
  ELSE IF Rs2Of(ins) = NoReg THEN {ins.rs1, 0}
  ELSE {ins.rs1, ins.rs2}

\* the D stage holds no instruction, or a memory stall freezes the front
DecodeGated ==
  /\ curD.not_stalled = 0 \/ curW.global_memory_stall # 0
  /\ newX' = [newX EXCEPT !.not_stalled = 0]
  /\ UNCHANGED pc

DecodeReady == curD.not_stalled # 0 /\ curW.global_memory_stall = 0

\* the load-use check, or forwarded_register_read_single returning 2
DecodeHazard ==
  LET ins == curD.instruction IN
  \/ LoadUseHazard(Rs1Of(ins), Rs2Of(ins), RdOf(ins))
  \/ curX.rd \in Srcs(ins)

DecodeStall ==
  /\ DecodeReady /\ DecodeHazard
  /\ newX' = XRegOf(curD, 0, AllOnes, AllOnes, NoReg, NoReg, NoReg)
  /\ Rewind

DecodeIssue ==
  LET ins == curD.instruction IN
  /\ DecodeReady /\ ~DecodeHazard
  /\ newX' = XRegOf(curD, 1,
                    IF Rs1Of(ins) = NoReg THEN AllOnes ELSE Forward(ins.rs1),
                    IF Rs2Of(ins) = NoReg THEN AllOnes ELSE Forward(ins.rs2),
                    Rs1Of(ins), Rs2Of(ins), RdOf(ins))
  /\ UNCHANGED pc

Decode ==
  /\ StageIs("D")
  /\ DecodeGated \/ DecodeStall \/ DecodeIssue
  /\ stage' = stage + 1
  /\ UNCHANGED <<regs, dmem, bt, curD, curX, curM, curW, newD, newM, newW,
                 cycle, stalls, ref, retired>>

(***************************************************************************)
(* stage_execute: replay during a global memory stall, otherwise dispatch  *)
(* the decoded instruction, detect a misprediction, update the table.      *)
(***************************************************************************)
\* the fields of new_m_reg the dispatched handler assigns
Dispatched(m, e) ==
  IF e.rw = 3 THEN [m EXCEPT !.readWrite = 3, !.reg = e.reg, !.value = e.value]
  ELSE IF e.rw = 2 THEN [m EXCEPT !.readWrite = 2, !.reg = e.reg, !.address = e.addr]
  ELSE IF e.rw = 1 THEN [m EXCEPT !.readWrite = 1, !.value = e.value, !.address = e.addr]
  ELSE m

\* a global memory stall: replay the stalled memory operation
ExecuteReplay ==
  /\ curW.global_memory_stall # 0
  /\ newM' = [curW.memory_register EXCEPT !.tainted_executions = 1]
  /\ pc' = curW.memory_register.pc
  /\ UNCHANGED bt

\* the fields stage_execute sets before its early returns
ExecBase == [newM EXCEPT !.wasStalled = 0, !.tainted_executions = 0,
                         !.readWrite = 0, !.pc = curX.pc, !.id = NoId]

ExecuteBubble ==
  /\ curW.global_memory_stall = 0 /\ curX.not_stalled = 0
  /\ newM' = ExecBase
  /\ UNCHANGED <<pc, bt>>

ExecuteTainted ==
  /\ curW.global_memory_stall = 0 /\ curX.not_stalled # 0
  /\ curM.tainted_executions > 0
  /\ newM' = [ExecBase EXCEPT !.tainted_executions =
                                   TaintCountdown(curM.tainted_executions)]
  /\ UNCHANGED <<pc, bt>>

ExecReady ==
  curW.global_memory_stall = 0 /\ curX.not_stalled # 0 /\ curM.tainted_executions = 0

\* the all-zero word is an artificial nop
ExecuteNop ==
  /\ ExecReady /\ curX.instruction = ZeroWord
  /\ newM' = [ExecBase EXCEPT !.id = curX.pc]
  /\ UNCHANGED <<pc, bt>>

ExecuteDispatch ==
  LET e == Eval(curX.instruction, curX.pc, curX.rs1_value, curX.rs2_value)
      mispredict == e.next # curX.new_pc
  IN /\ ExecReady /\ curX.instruction # ZeroWord
     /\ newM' = [Dispatched(ExecBase, e) EXCEPT !.id = curX.pc,
                   !.tainted_executions = IF mispredict THEN 1 ELSE 0]
     /\ pc' = IF mispredict THEN e.next ELSE pc
     /\ bt' = IF e.next # curX.pc + 4
              THEN BP!UpdateEntry(bt, curX.pc, e.next, FALSE)
              ELSE bt

Execute ==
  /\ StageIs("X")
  /\ \/ ExecuteReplay \/ ExecuteBubble \/ ExecuteTainted
     \/ ExecuteNop \/ ExecuteDispatch
  /\ stage' = stage + 1
  /\ UNCHANGED <<regs, dmem, curD, curX, curM, curW, newD, newX, newW,
                 cycle, stalls, ref, retired>>

(***************************************************************************)
(* stage_memory.  The instruction in M retires (ghost: the reference       *)
(* interpreter takes one step) when the stage lets it through.            *)
(***************************************************************************)
Retire ==
  IF curM.id # NoId
  THEN ref' = RefStep(ref) /\ retired' = retired + 1
  ELSE UNCHANGED <<ref, retired>>

PassOn(reg, value, op) ==
  newW' = [newW EXCEPT !.reg = reg, !.value = value, !.op = op,
                       !.global_memory_stall = 0, !.tainted_executions = 0]

\* get_address on the data TLB returned a walk status
MemTlbStall(gms) ==
  /\ Stall
  /\ newW' = [newW EXCEPT !.global_memory_stall = gms, !.tlb_stall_status = 2,
                 !.value = 0, !.reg = 0, !.op = 0, !.tainted_executions = 1,
                 !.memory_register = [curM EXCEPT !.stallStatus = 2, !.wasStalled = 1]]

\* read_access / write_access returned missed = 1 or 2; missed = 2 needs a
\* walk that completed in this call (a resumed walk: wasStalled, status set)
MemCacheStall(missed, gms, taint) ==
  /\ missed = 2 => curM.wasStalled # 0 /\ curM.stallStatus # 255
  /\ Stall
  /\ newW' = [newW EXCEPT !.global_memory_stall = gms, !.value = 0, !.reg = 0,
                 !.op = 0, !.tainted_executions = taint,
                 !.memory_register = [curM EXCEPT !.stallStatus = 255,
                                        !.wasStalled = IF missed = 2 THEN 2 ELSE 1]]

\* the W stage holds a squashed slot: count the taint down
MemoryTainted ==
  /\ curW.tainted_executions > 0
  /\ newW' = [newW EXCEPT !.value = 0, !.reg = 0, !.op = 0,
                 !.global_memory_stall = 0,
                 !.tainted_executions = TaintCountdown(curW.tainted_executions)]
  /\ UNCHANGED <<dmem, stalls, ref, retired>>

MemReady == curW.tainted_executions = 0

\* readWrite = 3: register write data forward
MemoryAlu ==
  /\ MemReady /\ curM.readWrite = 3
  /\ PassOn(curM.reg, curM.value, 1) /\ Retire /\ UNCHANGED <<dmem, stalls>>

MemLoad ==
  /\ MemReady /\ curM.readWrite = 2
  /\ \/ /\ PassOn(curM.reg, dmem[curM.address], 1)
        /\ Retire /\ UNCHANGED <<dmem, stalls>>
     \/ /\ MemTlbStall(2)
        /\ UNCHANGED <<dmem, ref, retired>>
     \/ /\ \E missed \in {1, 2} : MemCacheStall(missed, IF missed = 2 THEN 4 ELSE 1, 1)
        /\ UNCHANGED <<dmem, ref, retired>>

\* a write miss sets tainted_executions = 1 and then overwrites it with 0
MemStore ==
  /\ MemReady /\ curM.readWrite = 1
  /\ \/ /\ dmem' = [dmem EXCEPT ![curM.address] = curM.value]
        /\ PassOn(0, 0, 0)
        /\ Retire /\ UNCHANGED stalls
     \/ /\ MemTlbStall(3)
        /\ UNCHANGED <<dmem, ref, retired>>
     \/ /\ \E missed \in {1, 2} : MemCacheStall(missed, IF missed = 2 THEN 5 ELSE 1, 0)
        /\ UNCHANGED <<dmem, ref, retired>>

\* any other readWrite: a nop passes an empty slot on
MemoryNone ==
  /\ MemReady /\ curM.readWrite \notin {1, 2, 3}
  /\ PassOn(0, 0, 0) /\ Retire /\ UNCHANGED <<dmem, stalls>>

Memory ==
  /\ StageIs("M")
  /\ \/ MemoryTainted \/ MemoryAlu \/ MemLoad \/ MemStore \/ MemoryNone
  /\ stage' = stage + 1
  /\ UNCHANGED <<pc, regs, bt, curD, curX, curM, curW, newD, newX, newM, cycle>>

(***************************************************************************)
(* stage_writeback                                                          *)
(***************************************************************************)
Writeback ==
  /\ StageIs("W")
  /\ regs' = IF curW.op = 1 THEN RegisterWrite(regs, curW.reg, curW.value) ELSE regs
  /\ stage' = stage + 1
  /\ UNCHANGED <<pc, dmem, bt, curD, curX, curM, curW, newD, newX, newM, newW,
                 cycle, stalls, ref, retired>>

(***************************************************************************)
(* The harness latches the new stage registers at the end of a cycle.  If  *)
(* it does not zero them, a new_*_reg starts the next cycle with the value *)
(* it was given in this one.                                               *)
(***************************************************************************)
EndCycle ==
  /\ cycle < MaxCycles
  /\ stage = Len(StageOrder) + 1
  /\ curD' = newD /\ curX' = newX /\ curM' = newM /\ curW' = newW
  /\ IF RegsZeroed
     THEN newD' = D0 /\ newX' = X0 /\ newM' = M0 /\ newW' = W0
     ELSE UNCHANGED <<newD, newX, newM, newW>>
  /\ stage' = 1
  /\ cycle' = cycle + 1
  /\ UNCHANGED <<pc, regs, dmem, bt, stalls, ref, retired>>

\* the harness has driven its MaxCycles cycles and stops
Done == cycle = MaxCycles /\ UNCHANGED vars

Next == Fetch \/ Decode \/ Execute \/ Memory \/ Writeback \/ EndCycle \/ Done

Spec == Init /\ [][Next]_vars

(***************************************************************************)
(* Properties                                                              *)
(***************************************************************************)
TypeOK ==
  /\ pc \in Int
  /\ regs \in [RegIdx -> 0..Val-1]
  /\ dmem \in [0..MemSize-1 -> 0..Val-1]
  /\ bt \in [0..BP!TableSize-1 -> BP!Entry]
  /\ curD \in DReg /\ newD \in DReg
  /\ curX \in XReg /\ newX \in XReg
  /\ curM \in MReg /\ newM \in MReg
  /\ curW \in WReg /\ newW \in WReg
  /\ stage \in 1..Len(StageOrder) + 1
  /\ cycle \in 0..MaxCycles
  /\ stalls \in 0..MaxStalls
  /\ retired \in Nat

\* the register file with the write still waiting in W applied
Committed == IF curW.op = 1 THEN RegisterWrite(regs, curW.reg, curW.value) ELSE regs

\* At every cycle boundary the architectural state (registers, with the
\* pending writeback, and memory) is a state the sequential machine passes
\* through: forwarding, stalls, flushes and replays of stage_decode,
\* stage_execute and stage_memory never expose a state no in-order
\* execution has.
PreciseState ==
  stage = 1 =>
    \E k \in 0..retired : Committed = RefRun[k].regs /\ dmem = RefRun[k].mem

\* Every instruction stage_memory lets through is the next one the
\* sequential machine executes: instructions retire in program order,
\* each exactly once, and no wrong-path or flushed instruction retires.
RetireInOrder == [][retired' # retired => curM.id = ref.pc]_vars

\* the sequential machine has just left the program after k instructions
ExitsAfter(k) ==
  /\ RefRun[k].pc \notin DOMAIN Prog
  /\ \A j \in 0..k-1 : RefRun[j].pc \in DOMAIN Prog

\* Within the cycles the harness drives, and with at most MaxStalls memory
\* stalls, the pipeline produces the program's result: at the last cycle
\* the architectural state (registers, with the pending writeback, and
\* memory) is the one the sequential machine has when it leaves the
\* program.  The stall, rewind, taint and replay loops of stage_decode,
\* stage_execute and stage_memory always let the pipeline make progress
\* (no livelock), and what they let through is the whole program.
ProgramCompletes ==
  cycle = MaxCycles =>
    \E k \in 0..retired : /\ ExitsAfter(k)
                          /\ Committed = RefRun[k].regs
                          /\ dmem = RefRun[k].mem

=============================================================================
