# TLA+ verification of the RISC-V pipeline simulator

This directory models the RISC-V pipeline simulator of `src/src` and checks it
with TLC and TLAPS. Three components are modelled:

- The five-stage pipeline of `riscv_virtualizer.c`. This covers forwarding, load-use stalls, branch prediction with misprediction flushes, and TLB and cache stalls with the replay through `global_memory_stall`. The question asked is whether the pipeline commits exactly what a sequential execution of the program would commit, in program order.
- The TLB of `TLB.c`: lookups, the two-level page walk spread over several calls, and the slots it installs. The question is whether a completed lookup returns the page table's translation, and whether every lookup completes.
- The caches of `cache.c`, as the build configures them (two-way, write-back). This covers hits, evictions, write-backs, refills and the followup protocol. The questions are:
  - whether the ways stay apart;
  - whether every access completes;
  - whether a read returns what the writes left;
  - whether the instruction cache implements a read-only memory.

Inside the pipeline model the TLB and caches are abstracted to the results they
return. Their own modules model them in full, each driven the way the pipeline
drives it.

## The system

| Part | Source | Role |
|---|---|---|
| Stage functions | `riscv_virtualizer.c` 997-1247 | `stage_fetch`, `stage_decode`, `stage_execute`, `stage_memory`, `stage_writeback`; each reads the *current* stage registers and writes one *new* one |
| Stage registers | `riscv_pipeline_registers.h` | `stage_reg_d/x/m/w`; `stage_reg_w` also carries a copy of a stalled `stage_reg_m` |
| Forwarding | `riscv_virtualizer.c` 13-43 | operands from X (stall), M (`readWrite == 3`), W, else the register file |
| Execution engine | `riscv_virtualizer.c` 49-991 | `major_dispatch_table` and the per-instruction handlers writing `new_m_reg` and `pc` |
| Branch predictor | `branch_predictor.c` | 32-entry table with 2-bit counters, used by fetch and updated by execute |
| TLB | `TLB.c` | `get_address`, a two-level walk spread over several calls; returns done (`0xFE`/`0xFF`) or a status to resume with |
| Caches | `cache.c` | `read_access` / `write_access`: 0 on hit, 1 or 2 on a miss that must be retried |
| Harness | not under `src/` (spec.md) | calls the five stages once per cycle, then copies new registers to current ones; owns `register_write`, `get_pc`/`set_pc` and memory |

How they interact:
- A stage that cannot finish records a stall in its new register.
- Fetch records its stall with `will_be_stalled`.
- Memory records its stall with `global_memory_stall` and a copy of the access in `stage_reg_w.memory_register`.
- On the next cycle, execute sees `global_memory_stall`, replays the saved access into `new_m_reg` and resets `pc`.
- The instructions fetched in the meantime are squashed by `tainted_executions`. Execute and memory count it down.
- A mispredicted branch sets `pc` and taints one execution.

## Modules

- **`BranchPredictor.tla`** models `branch_predictor.c`. The table is a
  function from `0..31` to entries. `UpdateBht`, `PredictAddress`,
  `PredictAddressBTFNT` and `UpdateEntry` translate the C functions of those
  names. They take the table as an argument, so the pipeline applies them to its
  own variable `bt` through `INSTANCE ... WITH`.
- **`Pipeline.tla`** models the pipeline. Variables:
  - `pc`, the register file `regs`, the data memory `dmem` and the branch table `bt`;
  - the eight stage registers (`curD`..`curW`, `newD`..`newW`), records with the C fields the code reads;
  - the harness position `stage` and `cycle`;
  - the stall budget `stalls`.

  The stage functions map to actions as follows. Each disjunct is one path of the C function, with its guard taken from the code's `if`s and early returns:

  | Action | Disjuncts |
  |---|---|
  | `Fetch` | `FetchDone`, `FetchTlbStall`, `FetchCacheStall` |
  | `Decode` | `DecodeGated`, `DecodeStall`, `DecodeIssue` |
  | `Execute` | `ExecuteReplay`, `ExecuteBubble`, `ExecuteTainted`, `ExecuteNop`, `ExecuteDispatch` |
  | `Memory` | `MemoryTainted`, `MemoryAlu`, `MemLoad`, `MemStore`, `MemoryNone` |
  | `Writeback` | `Writeback` |

  The handlers are `RiscvAddi` ... `RiscvNop`. `Eval` indexes a record of them by
  opcode, as `major_dispatch_table` does. `EndCycle` is the harness's copy of new
  into current registers. When `RegsZeroed` is TRUE, it also zeroes the new
  registers, which is what the simulator does.
- **`MCPipeline.tla`** holds the small programs and the two stage orders that
  the runs use.
- **`PipelineProofs.tla`** holds the TLAPS proofs about the pipeline.
- **`BackingStore.tla`** models the harness's main-memory contract (spec.md §6). The harness is not under `src/`, so this module follows the spec and its map entries are marked `spec_modelled`.
  - `memory_read` and `memory_write` either complete in the call or leave the access outstanding.
  - `memory_status` polls it later.
  - A completed access stays "done" until the next one to its address.
  - An address never accessed is "idle" and never reports completion.
  - Reads and writes may span several words (`ReadWords`, `WriteWords`).

  The operators take the store's state as arguments, so each client keeps its own copy.
- **`TLB.tla`** models one TLB (`itlb` or `dtlb`) of `TLB.c` and the stage that drives it.
  - Variables: the 8 slots `entries`, `cached_second_index` (`csi`), the store (`mem`, `req`), the address `va`, the status `st` the stage passes back, and `busy`, `out`, `halted` (`exit(1)` was called).
  - `GetAddress` is `get_address`: a hit, or `UpdateTlbEntry`.
  - `UpdateTlbEntry` is `update_tlb_entry`: the first-level read and its followup, then `SecondLevel`.
  - `SecondLevel` reads the second level and calls `Install`, which covers the invalid-entry `0x80`, the `exit(1)` check and the slot write.
  - Actions: `Start` (a new lookup, status `0xFF`), `Call` (one call; a stall status is passed back on the next), `RedirectPc` (execute moves the pc while fetch stalls in a walk) and `MemComplete`.
  - Page-table entries are kept decoded as (valid, 31-bit base). Address arithmetic keeps the code's shifts and field widths (`PhysPage`, `L2Addr`, `Output`).
  - `RefL1`, `RefL2` and `Translate` are the reference translation of spec.md §4.4.
- **`MCTLB.tla`** holds a page table with two superpages mapped (at 64 and 4096 and up), invalid entries, and the virtual-address sets the configurations use.
- **`Cache.tla`** models one cache of `cache.c` with `TWOWAY` and `WRITEBACK` defined, and the stage that calls it once per cycle until it returns 0.
  - The model is word-addressed: the code exits on any other alignment. A data row (`CType = "D"`) holds 2 words; an instruction row (`"I"`) holds 4 words and is direct mapped.
  - `rows` is `cache->rows`. Indices from `2 * NBlocks` up stand for the heap past the array, with arbitrary valid and dirty bits.
  - `HitRow` is the two hit checks. `EvictIndex` is the way choice.
  - `EvictRead` is `evict_read`. One call covers the write-back of a dirty victim, the refill read, the followup poll of both and the returned row. It also records an out-of-bounds row in `oob`.
  - `ReadAccess` and `WriteAccess` are `read_access` and `write_access` (with `evict_write`), every return path included.
  - `OldAddr` is `old_address`, including its or-ing of the way bit into the tag.
  - The driver has `Start`, `Call`, `RedirectPc` and `MemComplete`:
    - `Start` takes up an access of `Program[n]`, with the first-call inputs the TLB leaves: `is_followup` and `memory_read_available`.
    - `Call` makes one call. After a 1 the next call is a followup; after a 2, a new request.
    - `RedirectPc` is an I-cache fetch redirected while its fill is pending.
    - `MemComplete` is the store finishing an access between calls.
  - `ref` is the memory as the completed accesses define it. It is ghost state for `ReadCorrect`.
- **`ROM.tla`** is the abstract specification of the instruction cache: a request for an address is answered, possibly after the address changed, with the word the memory holds there. `Cache` instantiates it with `addr <- acc.addr` and `busy`/`out` by name, so `RefinesROM` states that the cache implements it.
- **`MCCache.tla`** holds small memories and access programs. Neighbouring words differ, and so do the words at one offset of the blocks of an index, so a wrong block or a wrong word is visible.
- **`CacheProofs.tla`** holds the TLAPS proofs about the cache.
- **`CacheRefinement.tla`** holds the TLAPS proof that the instruction cache refines `ROM`.
- **`TLBProofs.tla`** holds the TLAPS proofs about the TLB.
- **`AddressTranslation.tla`** is the abstract specification of a TLB as its stage sees it: a request for a virtual address, which a redirect may retarget while it is pending, is answered only for an address the page table maps, and with that address's translation. `TLB` instantiates it as `TransSpec`: the mapped addresses and their translations come from `RefL1`, `RefL2` and `Translate`, and `busy`, `va` and `out` are the TLB's own. `RefinesTranslation` states that the TLB implements it.
- **`TLBRefinement.tla`** holds the TLAPS proof that the data TLB refines `AddressTranslation`.

Abstractions (data, not control):
- Registers hold `0..Val-1`, and arithmetic is modulo `Val`.
- Memory has `MemSize` words.
- An instruction is a record (op, rd, rs1, rs2, imm), not an encoded word.
- A TLB or cache call is a nondeterministic choice among the results the code can return to the stage:
  - done;
  - a TLB stall;
  - a cache miss with `missed = 1`;
  - `missed = 2`, which is only possible on a resumed access.

  Every stall consumes one unit of `MaxStalls`, so the runs are finite.
- Ghost state follows a sequential reference interpreter:
  - `ref` is the interpreter's state and `retired` counts the instructions it has run;
  - `RefStep` and `RefRun` define the interpreter;
  - `curM.id` is the pc of the instruction an M register holds.

  The ghost state is not code, so it is not in the map.

## Properties

| Property | Kind | Meaning |
|---|---|---|
| `TypeOK` | invariant | all variables in their types |
| `PreciseState` | invariant | at each cycle boundary, the committed registers (the register file after W's pending write) and memory equal the reference after some `k <= retired` instructions |
| `RetireInOrder` | action property | an instruction leaves M as retired only if it is the next one in program order |
| `ProgramCompletes` | invariant | when the cycle budget is used up, the registers (with the pending writeback) and memory are the state the sequential machine has when it leaves the program: the pipeline has produced the whole program's result within the bound. It does not count retirements, which a replay can repeat |

For the TLB and the caches:

| Property | Module | Kind | Meaning |
|---|---|---|---|
| `TranslationCorrect` | TLB | invariant | a completed lookup, hit or walk, is of a page the table maps and returns `Translate(va)` |
| `EntriesCorrect` | TLB | invariant | a valid slot translates every address that hits it as the page table does |
| `WalkCompletes` | TLB | liveness | every lookup eventually stops returning a stall status |
| `NoAbort` | TLB | invariant | no lookup calls `exit(1)` |
| `NoDuplicateLines` | Cache | invariant | the two ways of a data-cache index never hold valid copies of the same block |
| `AccessCompletes` | Cache | liveness | every access the stage starts eventually returns 0 |
| `ReadCorrect` | Cache | invariant | a completed read returns what the completed writes, in order, left at its address (spec.md §8) |
| `InBounds` | Cache | invariant | no call touches a row past the rows array |
| `RefinesROM` | Cache | refinement | the instruction cache implements `ROM` |
| `RefinesTranslation` | TLB | refinement | the TLB implements `AddressTranslation`: a lookup is answered only for a mapped address, with its translation, and the output does not change between answers. It is proved (`TLBRefinement`) and not a run's property: in this model its one condition beyond the shape of the steps is `TranslationCorrect` after the answer, which `tlb_translate` already checks |

Fairness for the TLB and the caches has two parts:
- Weak fairness of `Call`: the harness calls every stage once per cycle (spec.md §5), so a stalled stage keeps calling.
- Weak fairness of `MemComplete` for each address: the store finishes every access it was given (spec.md §6).

`RedirectPc` and `Start` are not fair. Nothing forces the pc to move or a new
access to begin.

`ProgramCompletes` is a bounded form of liveness. The simulator is a
deterministic loop over cycles with no scheduler, so the harness needs no
fairness assumption. Each run gives a cycle budget `MaxCycles` large enough for
the program with `MaxStalls` stalls. In `mem` the budget is 32, the least
for which the worst interleaving finishes; the replays, which run an
instruction twice, make it longer than a count of instructions suggests. The only nondeterminism is in the TLB and
cache outcomes and in the order of the C stage calls, which is fixed per run.

## Runs (`MCPipeline_<name>.cfg`)

Every run has 3 registers, `Val = 32` and 2 memory words.

| Run | Expect | Program | What it shows |
|---|---|---|---|
| chain | pass | dependent ALU chain, ≤2 stalls | forwarding from M and W and the rewinds keep the state precise and in order |
| loop | pass | counted loop (ADDI, BEQ, backward JAL), ≤3 stalls | mispredictions, table updates and flushes; the program's result is reached |
| mem | pass | store, zero word, load-use, ADD, taken BEQ, store, ≤3 stalls, 32 cycles | TLB and cache stalls, replay and squash; `TypeOK`; the program's result is reached |
| specorder | violation | chain, spec order | spec §2's F→W order breaks decode's rewind |
| stalenew | violation | loop, registers not zeroed | fetch's TLB-stall return leaves a stale `new_d_reg` |
| storeleak | violation | store then use | a store miss clears its own taint (1227-1228) |
| redirect | violation | load, taken branch | decode's rewind overwrites execute's redirect |
| x0fwd | violation | `JAL x0` then a use | x0's link value is forwarded, as §4.1.1 prescribes, past the register file |
| loadreplay | violation | `ld x1,0(x1)` with a miss | the replay refetches the load, which runs twice |

Three more runs check the TLB and the caches:

| Run | Expect | Configuration | What it shows |
|---|---|---|---|
| tlb_translate | pass | `MCTLB_translate.cfg`: 6 addresses over both superpages (mapped, unmapped, other slot), 3 lookups, 2 redirects | `TranslationCorrect` and `EntriesCorrect`: hits and walks, resumed across stalls, redirects and late completions, return the table's translation |
| cache_data | pass | `MCCache_data.cfg`: data cache, 2 indices, 4 accesses, each any 4- or 8-byte read or write of index 0's three blocks | `NoDuplicateLines` and `AccessCompletes` under every order of write-back and refill completions |
| cache_fetch | pass | `MCCache_fetch.cfg`: instruction cache, 3 fetches at every offset of both indices, 1 redirect | `RefinesROM`: fetches return the memory's word at the current pc, across misses, followups and a redirect |

The bounds are chosen so that every victim choice happens. Three blocks share
one index of a two-way cache, so the data run reaches every combination of
valid, dirty and clean ways. Four accesses give eviction, write-back and refill
of each block. The store may complete each outstanding access at any point.

`MCTLB.tla` and `MCCache.tla` have more configurations. The project keeps its
twelve runs, so these are kept as scenario configurations. Each one
reproduces a hazard of `PROJECT.json` and can be run with
`tlc -config <file> <module>`:

| Configuration | Result | Hazard |
|---|---|---|
| `MCTLB_complete.cfg` | `WalkCompletes` holds for mapped addresses, with late completions | — |
| `MCTLB_abort.cfg` | `NoAbort` violated: superpage 1 (slot 1, tag 0) reaches `exit(1)` | `TLB.c:49` compares the slot's tag with the slot |
| `MCTLB_fault.cfg` | `WalkCompletes` violated: an invalid entry returns `0x80`, which the stage passes back forever | `TLB.c:47` |
| `MCTLB_redirect.cfg` | `WalkCompletes` violated: a redirect during a walk resumes status 1 with another address's read | `riscv_virtualizer.c:1001` |
| `MCTLB_partial.cfg` | `TranslationCorrect` violated: a page whose entry is invalid hits the slot its neighbour installed | `TLB.c:65` superpage-granular slots |
| `MCTLB_stalecsi.cfg` | `TranslationCorrect` violated: after a redirect while fetch waits at status 2, the new address's walk reads the old address's second-level table through `cached_second_index` and installs a wrong translation (address 16 into frame 10, not 5); `RefinesTranslation` fails on the same trace, which is why its theorem assumes `Redirect = FALSE` | `TLB.c:27` |
| `MCCache_writehit.cfg` | `ReadCorrect` violated: a write hit leaves the row clean, so eviction drops the write | `cache.c:225` |
| `MCCache_wayone.cfg` | `ReadCorrect` violated: a hit in way 1 writes way 0's row | `cache.c:230` |
| `MCCache_oob.cfg` | `InBounds` violated: `evict_write` passes the way-adjusted index to `evict_read`, which adjusts it again | `cache.c:176` |
| `MCCache_unaligned.cfg` | `RefinesROM` violated when `memory_read` returns the words from the access address, not the block start | `cache.c:71` |
| `MCCache_iredirect.cfg` | `AccessCompletes` violated: a followup after a redirect polls the new pc's block, which was never requested | `riscv_virtualizer.c:1011` |

The passing runs use `BackToFront` (W, M, X, D, F). That is the order in which
the code is correct: decode and execute must set `pc` after fetch has used it.
spec.md gives the other order, and the `specorder` run shows what it breaks.

Why the bounds are enough:
- The programs make every branch of every stage function happen: each stall kind at each stage, a replay during a taint, and a load-use hazard behind a load.
- Two or three stalls let a stall hit each of the instructions in flight.

Every property of a passing run has a mutant, listed in `PROJECT.json`. Each
mutant is a plausible bug that TLC catches:
- forwarding that ignores M;
- a dropped rewind;
- a taint that is never counted down;
- a taint counted up;
- an ignored load-use hazard.

## Findings

The details are in `PROJECT.json` under `findings`:
1. spec §2's stage order is not the one the code needs.
2. The fetch TLB-stall path relies on the harness zeroing `new_d_reg`, which the spec does not say.
3. A store cache miss sets `tainted_executions = 1` and then `0` (`riscv_virtualizer.c:1227-1228`), so the next in-order instruction commits before the replayed store.
4. Decode's `set_pc` on a stall (1069/1092) overrides execute's mispredict `set_pc` (1134).
5. Forwarding does not treat x0 specially (lines 17 and 20). spec §4.1.1 prescribes this and makes x0-as-zero the register file's job, but a forwarded value never passes through the register file, so after `JAL x0` the next instruction reads x0 as the link address, not the zero RV64I (§4.2) requires. This is a gap in the spec, not a divergence of the code.
6. The memory-stall replay restarts fetch at the stalled instruction's own pc (1111), so that instruction runs twice; for `ld x1,0(x1)` the refetched copy reads through the base the first execution overwrote.

## Proofs

`PipelineProofs.tla` proves `THEOREM TypeCorrect == Spec => []TypeOK` for all
constants satisfying `ConstAssumption`:
- `NReg` is a natural number.
- `Val` and `MemSize` are positive.
- The program is a function from word-aligned addresses to instructions.
- The stage order is a sequence of stage names.

`TypeOK` is inductive as it stands. The proof has one step per action:
- `FetchTypeOK` and `DecodeTypeOK` cover fetch and decode.
- `ExecuteTypeOK` covers execute.
- `MemoryTypeOK` covers memory.
- `WritebackTypeOK` and `EndCycleTypeOK` cover writeback and the cycle boundary.

Each step rests on lemmas about the operators the model is built from:
- the handlers return an `EvalRec` (`EvalType`);
- `UpdateEntry` keeps the table typed;
- `Forward` returns a value in range;
- the record updates of each stall path stay in `MReg` and `WReg`.

The handlers are written as a record indexed by opcode, and the stage actions as
guarded disjuncts rather than `CASE`, so that the SMT backend can reason about
them.

`CacheProofs.tla` proves `THEOREM NoDuplicateLinesInvariant == Spec =>
[]NoDuplicateLines` for every cache that `CacheAssumption` allows:
- any type;
- any positive number of blocks;
- any memory image;
- any access program, in which the instruction cache only reads, since fetch calls only `read_access`.

`NoDuplicateLines` is not inductive alone. The inductive invariant `IInv` adds
`TypeInv`:
- rows are records with a natural tag and Boolean valid and dirty bits;
- the store holds words of `Vals` and well-formed requests;
- the access being served is an access of the program;
- a busy stage has started one;
- the instruction cache serves only reads.

The argument runs as follows:
- `InitIInv`: the array starts zeroed.
- `EvictReadEffect`: `evict_read` changes only the row `EvictIndex` picks. That row either keeps its tag and valid bit, on a stall or a pending fill, or takes the missing block's tag.
- `EvictIndexRange`: the picked row is a way of the missing index, or, through `evict_write`'s double adjustment, a row past the array, which no index reads.
- `InstallKeepsApart`: a block installed only after both hit checks missed cannot duplicate the other way.
- `ReadStep` and `WriteStep` apply this to every return path of `read_access` and `write_access`.
- `CallStep` and `OtherSteps` cover the driver, and `NextIInv` closes the induction.

`TLBProofs.tla` proves `TranslationCorrectInvariant` (`Spec =>
[]TranslationCorrect`) and `EntriesCorrectInvariant` (`Spec =>
[]EntriesCorrect`). They hold for every page-table base, page table, address set
and bound satisfying three hypotheses:
- `Redirect = FALSE`. This is the data TLB: `stage_memory` never changes the
  address while a walk is pending. With redirects the theorem is false, and
  `MCTLB_stalecsi.cfg` shows a counterexample (`TLB.c:27`).
- `EntriesFit`: every valid entry's base fits in 20 bits, as the code's 32-bit
  shifts assume (`TLB.c:35, 54`).
- `SuperpageUniform`: the pages of a mapped 16 KB superpage map to one 16 KB
  frame. A slot caches a superpage, and `MCTLB_partial.cfg` shows that without
  this assumption a hit returns another page's frame (`TLB.c:65`).

The inductive invariant `IInv` adds the following to `TypeOK` and `TranslationCorrect`:
- `mem = PageTable`: the TLB only reads the store.
- `SlotOK`: every valid slot translates every address that hits it as the
  table does. This is `EntriesCorrect` generalised to the slot index.
- `WalkOK`: while a walk is between its first- and second-level reads,
  `cached_second_index` holds the first-level entry of the address being
  translated.

The lemmas follow the code's paths:
- `InstallGood`: an installed slot satisfies `SlotGood`. It rests on
  `PhysPageRef`, `L1AddrRef`, `L2AddrRef` and `SameSuperpage`, which relate the
  code's shifts to the reference translation.
- `QuietStep`: a call that does not install keeps the slots.
- `CallStep`: a hit, and each stage of the walk.
- `StartStep` and `MemCompleteStep`: the other steps.
- `NextIInv`: closes the induction.

`TLBRefinement.tla` proves `DataTLBRefinesTranslation`: under the three
hypotheses of `TLBProofs`, `Spec => RefinesTranslation`. The step argument
needs `RefInv`, which is `IInv` and one more conjunct: while a lookup is in
progress, `lookups > 0`. `TranslationCorrect` speaks of the last counted
lookup, and this conjunct makes it apply to the answer of the call in
progress. One lemma per action:
- `RefStart`: `Start` is `Request`.
- `RefCall`: a call that returns `0xFE` or `0xFF` is `Respond`. Its address is
  mapped and its output is `Translate(va)` by `TranslationCorrect'`. Every
  other call leaves `busy`, `va` and `out` unchanged, a stutter.
- `MemComplete` and `Finished` are stutters.
- `RedirectPc` cannot happen when `Redirect = FALSE`. The instruction TLB's
  redirect would be `Retarget`, but its resumed walk reads a stale
  `cached_second_index`, so there the refinement fails (`MCTLB_stalecsi.cfg`).
- `RefNext` combines them, and the theorem's last step is PTL.

`CacheRefinement.tla` proves `InstructionCacheRefinesROM`: with `CType = "I"`
and `AlignedReads = TRUE`, `Spec => RefinesROM`. It holds for every number of
blocks, memory image and fetch program, and with redirects of the pc allowed.
`AlignedReads` is the harness's reading of `memory_read(address, row, 16)`;
under the other reading the refinement fails (`MCCache_unaligned.cfg`).

The step argument needs the invariant `RomInv`:
- `IInv` of `CacheProofs`;
- the store keeps its initial image and every request is a read;
- `RowsHoldBlocks`: a valid row holds the words of the block that its tag and
  index name;
- the pending fetch is 4 bytes.

The lemmas:
- `DivProduct` and `BlockOfAddress`: the arithmetic showing that the block a
  row's tag and index name holds the address's word at the subindex.
- `IEvictRead`: what `evict_read` does on the instruction cache.
- One lemma per action:
  - `RomStart` is `Request`;
  - `RomRedirect` is `Retarget`;
  - `RomCall` is `Respond` with `<<MemInit[pc]>>` on a hit or a fill, and a stutter otherwise;
  - `RomMemComplete` is a stutter.
- `RomNext` combines them.

The theorem's last step is PTL.

Only model-checked:
- `PreciseState` and `RetireInOrder`. They are false for the code in general:
  - the violation runs show `PreciseState` broken;
  - with `RetireInOrder` put in place of `PreciseState` in their cfgs, TLC
    finds it violated in five of them (all but `x0fwd`).

  Where they hold, they relate the pipeline to `RefRun`, a recursive function
  over the number of retired instructions, and induction over it is beyond
  the provers.
- `ProgramCompletes`: it is a bounded liveness statement on concrete programs.
- `WalkCompletes` and `AccessCompletes`: liveness under fairness, which the
  provers do not handle here (ENABLED and WF).
- `TranslationCorrect` and `EntriesCorrect` with redirects (the instruction TLB).
  `MCTLB_stalecsi.cfg` shows that they fail there, as `RefinesTranslation`
  does, and `tlb_translate` checks them on a table where they hold.
- `ReadCorrect` and `InBounds`: they fail in the code (see the scenario
  configurations), so they cannot be theorems. For the same reason, no
  write-back property of the data cache is proved: `evict_write` passes
  `evict_read` an index it has already adjusted (`cache.c:176`), so the
  write-back reads a row past the array (`InBounds`) and `old_address`
  builds its address from that index.

## Not modelled

- Instruction encoding:
  - the `riscv_beq` sign test uses `11 << 1`;
  - `riscv_add` truncates to 32 bits.
  The pipeline keeps instructions decoded, so these stay out of reach.
- The handlers besides ADDI, ADD, LD, SD, BEQ, JAL and NOP. They are data transformations of the same shape; the pipeline's control does not depend on which one runs.
- 1- and 2-byte cache accesses. Also an 8-byte data read at a row's second word, which reads past the row (`cache.c:106`). The word-level cache model has no bytes to put there.
- The pipeline composed with the TLB and cache modules. The pipeline takes their returns as nondeterministic outcomes, which over-approximates them; the full product is beyond TLC's reach at useful bounds.
- `mem.c`: allocation only, with no state the properties depend on.
- The harness (`register_write`, `get_pc`/`set_pc`, memory): it is not under `src/`. Its memory contract is `BackingStore`, modelled from the spec.
