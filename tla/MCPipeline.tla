----------------------------- MODULE MCPipeline -----------------------------
(***************************************************************************)
(* Model-checking instances of Pipeline: programs and harness settings.    *)
(***************************************************************************)
EXTENDS Pipeline, TLC

I(op, rd, rs1, rs2, imm) == [op |-> op, rd |-> rd, rs1 |-> rs1, rs2 |-> rs2, imm |-> imm]

\* writeback order of the harness: stages called from the back of the pipe
BackToFront == <<"W", "M", "X", "D", "F">>
\* the order spec.md section 2 states
FrontToBack == <<"F", "D", "X", "M", "W">>

\* ADDI x1,x0,5 ; ADDI x2,x1,10 ; ADD x3,x1,x2  (spec.md section 8)
ProgChain ==
  0 :> I("alui", 1, 0, 0, 5) @@ 4 :> I("alui", 2, 1, 0, 10) @@ 8 :> I("alu", 3, 1, 2, 0)
\* a counted loop: x1 = 2; do x1 = x1 - 1 until x1 = 0 (BEQ forward out,
\* JAL back); then x3 = 7
ProgLoop ==
  0 :> I("alui", 1, 0, 0, 2) @@ 4 :> I("alui", 1, 1, 0, -1) @@
  8 :> I("beq", 0, 1, 0, 2) @@ 12 :> I("jal", 2, 0, 0, -2) @@
  16 :> I("alui", 3, 0, 0, 7)

\* store, then a dependent increment, then a load of the stored word
ProgStoreInc ==
  0 :> I("alui", 1, 0, 0, 3) @@ 4 :> I("store", 0, 0, 1, 1) @@
  8 :> I("alui", 1, 1, 0, 1) @@ 12 :> I("load", 2, 0, 0, 1)

\* a load whose result is its own base register, then a use of it
ProgLoadSelf ==
  0 :> I("alui", 1, 0, 0, 1) @@ 4 :> I("load", 1, 1, 0, 0) @@
  8 :> I("alui", 2, 1, 0, 1)

\* a load, a taken branch, and a wrong-path use of the loaded register
ProgLoadBranch ==
  0 :> I("load", 1, 0, 0, 0) @@ 4 :> I("beq", 0, 0, 0, 2) @@
  8 :> I("alui", 2, 1, 0, 1) @@ 12 :> I("alui", 3, 0, 0, 5)

\* J L (JAL x0) ; L: ADDI x1, x0, 5
ProgJumpX0 ==
  0 :> I("jal", 0, 0, 0, 2) @@ 4 :> I("alui", 2, 0, 0, 1) @@
  8 :> I("alui", 1, 0, 0, 5)

\* JAL x0 to L over one instruction ; L: ADDI x1, x0, 5
ProgX0Fwd ==
  0 :> I("jal", 0, 0, 0, 2) @@ 4 :> I("alu", 2, 1, 1, 0) @@
  8 :> I("alui", 1, 0, 0, 5)

\* every kind of instruction: a store followed by a nop, a load and a use
\* of it, an always-taken branch over one instruction, a second store
ProgMem ==
  0 :> I("alui", 1, 0, 0, 1) @@ 4 :> I("store", 0, 0, 1, 0) @@
  8 :> ZeroWord @@ 12 :> I("load", 2, 0, 0, 0) @@
  16 :> I("alu", 3, 2, 1, 0) @@ 20 :> I("beq", 0, 3, 3, 2) @@
  24 :> I("alui", 1, 0, 0, 7) @@ 28 :> I("store", 0, 0, 3, 1) @@
  32 :> ZeroWord

\* data memory: word 0 holds 1, word 1 holds 0
MemInit10 == 0 :> 1 @@ 1 :> 0

=============================================================================
