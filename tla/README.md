# A verification project for the LLVM BPF backend

The repository is an out-of-tree LLVM backend (LLVM 3.2 to 3.4) that compiles
LLVM bitcode to BPF: instruction selection hooks, an instruction set
description, branch hooks, frame lowering, a machine code emitter with its
assembler backend, and the `llc` driver.  The generic code generator that calls
these hooks is LLVM's and is not in the repository; where a model needs it, it is
modelled from the way the hooks are used and marked external in `PROJECT.json`.

All of it is sequential; only the driver can be interrupted, by errors deep in
the code generator and by signals.  What is hard is protocol:
hooks that rewrite a program while someone else holds assumptions about it,
widths that differ between the stages that hand a value on, and steps that are
only correct because of what another file did before.

## 1. Inventory

Paths are relative to `src/lib/Target/BPF/` unless they start with `tools/`.

| Component | State it keeps or changes | Operations | Talks to |
|---|---|---|---|
| Machine code emitter (`MCTargetDesc/BPFMCCodeEmitter.cpp`, `BPFBaseInfo.h`) | bytes of the section, the vector of fixups | `EncodeInstruction`, `getMachineOpValue`, `getMemoryOpValue` | called by the object streamer; the fixups it pushes are handled by the assembler backend |
| Assembler backend and ELF writer (`BPFAsmBackend.cpp`, `BPFELFObjectWriter.cpp`) | bytes already emitted, relocation entries | `writeNopData`, `applyFixup`, `GetRelocType`, the relaxation hooks | called by `MCAssembler` after layout |
| Instruction set (`BPFInstrInfo.td`, `BPFInstrFormats.td`, `BPFRegisterInfo.td`) | none | formats, opcodes, patterns, immediate predicates | used by selection and by the emitter |
| Branch hooks (`BPFInstrInfo.cpp`) | instructions of a block | `AnalyzeBranch`, `RemoveBranch`, `InsertBranch` | called by branch folding and block placement, which change the layout between calls |
| Comparisons (`BPFISelLowering.cpp`, part) | DAG nodes, blocks, CFG edges, PHIs | `NegateCC`, `LowerBR_CC`, `LowerSELECT_CC`, `EmitInstrWithCustomInserter` | the inserter relies on the lowering, and both on the patterns |
| Calls (`BPFISelLowering.cpp`, part; `BPFCallingConv.td`) | argument and result locations, DAG chain | `LowerFormalArguments`, `LowerCall`, `LowerCallResult`, `LowerReturn` | caller and callee agree only through the convention |
| Legalization (`BPFISelLowering.cpp`, part; patterns in `BPFInstrInfo.td`) | table of operation actions | constructor, `LowerOperation`, `LowerGlobalAddress` | LLVM's legalizer dispatches on the table; what it leaves must have a pattern |
| Addresses and frame (`BPFISelDAGToDAG.cpp`, `BPFRegisterInfo.cpp`, `BPFFrameLowering.cpp`, stack slots in `BPFInstrInfo.cpp`) | operands of machine instructions, used and reserved registers, frame objects | `SelectAddr`, `Select`, `eliminateFrameIndex`, `storeRegToStackSlot`, `loadRegFromStackSlot`, `copyPhysReg`, `processFunctionBeforeCalleeSavedScan` | offsets go from selection through elimination to the emitter |
| MCInst lowering (`BPFMCInstLower.cpp`) | none | `Lower`, `LowerSymbolOperand` | between the code generator and the emitter |
| Printing (`BPFAsmPrinter.cpp`, `InstPrinter/`) | output text | `EmitInstruction`, `printInstruction`, `printOperand`, `printImm64Operand`, `printMemOperand` | the same MCInst goes to the emitter |
| Registration (`BPFTargetMachine.cpp`, `BPFSubtarget.cpp`, `BPFMCTargetDesc.cpp`, `TargetInfo/`) | registries | factories | |
| Driver (`tools/llc/llc.cpp`) | output file, exit code | `main`, `GetOutputStream`, `GetFileNameRoot` | everything above, which may end the process; signals |

What makes each component correct, and what is hard about it:

* **Emitter.**  The words of an instruction decode to that instruction, for
  operands at the limits of their fields.  Hard: casts and masks, the one
  instruction that takes two words, the choice of fixup by opcode.
* **Assembler backend.**  A branch lands on its block in both directions, over
  two-word instructions and padding; a symbol gets exactly the relocation it
  needs; resolving a fixup changes nothing else.  Hard: the fixup is recorded
  at one time and applied at another; unsigned arithmetic on negative distances.
* **Branch hooks.**  The code of a block always goes where the CFG says, what
  is reported is what the block does, and every call returns.  Hard: loops that
  erase under their iterator and restart; a modification followed by the answer
  "cannot analyze"; a branch removed because of a layout that changes later.
* **Comparisons.**  The machine code takes the same way with the same values as
  the source.  Hard: swapped operands, signed and unsigned, constants on the
  wrong side, CFG surgery repeated on the part of the block that has moved.
* **Calls.**  Caller and callee use the same locations, or both refuse, and
  nothing is lost on the way.  Hard: the two sides agree only through tables,
  the copies survive only because the call names their registers, and registers
  that the caller relies on must be kept by the callee.
* **Legalization.**  Exactly what the target lacks is refused, what is compiled
  keeps its meaning, and rewriting ends.  Hard: expansions that lead to each
  other, the order of rewriting, immediates that the machine sign-extends.
* **Printing.**  The text says what the object contains.  Hard: each operand has
  its own conversion in the printer and another in the encoder, and both find it
  by its number.
* **Frame.**  A stack access reaches its object, with the offset it was
  selected with; no register is lost across a call.
* **Driver.**  Exit code 0 exactly if the output was produced and kept, and no
  other ending leaves part of an output behind.  Hard: the file is truncated
  before the last checks, errors end the process from inside, closing may fail
  after the file was declared good.

`PROJECT.json` lists the hazards line by line with the properties that cover
them.  Two have no property and a note that says why; a third has a note on what its
property leaves open.

## 2. Plan

Done:

1. `BPFEncoding`, `BPFAssembler` and their proofs: what ends up in the object
   file is what everything else is for.
2. `BPFBranch`.
3. `BPFCondCodes`, `BPFSelect` and the proof that comparisons are kept.
4. `BPFFrame`: from `SelectAddr` to executed stack accesses.
5. `BPFCall`: arguments, results, callee-saved registers; `BPFCallSource`, what a
   program does according to its source, which `BPFCall` implements.
6. `BPFLegalize`: from operations of the IR to instructions.
7. `BPFInstPrinter`: the text output, compared with the object.
8. `LLCSpec` and `LLCDriver`: a run of the compiler as one step, implemented by
   the phases of `main`; the proof of that.

9. Proofs of the invariants of `BPFBranch`, of the CFG in `BPFSelect`, of what
   `BPFCall` rejects and that it implements `BPFCallSource`, of the types of
   `BPFFrame` and its frame pointer, of the text against the object.
10. The proof of `AddressesKept` of `BPFFrame`, with all spills.
11. The proof of `ResultsAgree` of `BPFSelect`, with all selects of a block.

Left, in this order:

12. An abstract specification of the assembler, a section of instructions with
   symbolic targets that is decoded in one step, shown to be implemented by
   `BPFAssembler`; and of a source block, implemented by `BPFSelect`.  Today
   `JumpsLand`, `RelocsExact` and `ResultsAgree` say the same of each state.
13. The constant splitting `HI32`/`LO32`, kept in the description as the
   commented alternative of `LD_imm64`, as an algorithm against its comment.

## 3. Modules

| Module | Models | Depends on |
|---|---|---|
| `BPFEncoding` | instruction formats and opcodes, operand encoding, and an independent decoder | |
| `BPFAssembler` | emission, padding, layout, fixups, relocations | `BPFEncoding` |
| `BPFInstPrinter` | MCInst lowering and the text of instructions | `BPFAssembler` |
| `MCBPFAssembler` | instances for TLC | `BPFInstPrinter` |
| `BPFEncodingProofs` | modular arithmetic and the encoding round trip | `BPFEncoding` |
| `BPFAssemblerProofs` | the invariants of the assembler, the text against the object | `BPFInstPrinter`, `BPFEncodingProofs`, `SequenceLemmas` |
| `BPFBranch`, `MCBPFBranch` | the branch hooks and the passes around them | |
| `BPFBranchProofs` | the hooks keep the CFG and report the truth | `BPFBranch` |
| `BPFCondCodes` | condition codes, `NegateCC`, the jump of each code | |
| `BPFSelect`, `MCBPFSelect` | lowering, selection, expansion and execution of a block | `BPFCondCodes` |
| `SequenceLemmas` | concatenation, insertion, cutting and flattening of sequences, element by element | |
| `BPFSelectProofs` | comparisons are kept; the CFG survives every expansion; the code computes what the source does | `BPFSelect`, `SequenceLemmas` |
| `BPFFrame`, `MCBPFFrame` | address selection, spills, frame index elimination, execution | |
| `BPFFrameProofs` | types of the compiled function; nothing writes R10; its accesses are those of the source | `BPFFrame`, `SequenceLemmas` |
| `BPFCallSource` | what a module does, statement by statement: the abstract specification | |
| `BPFCall`, `MCBPFCall` | lowering of calls, arguments and returns, callee-saved registers, execution | `BPFCallSource` |
| `BPFCallProofs` | exactly what is unsupported is rejected; compiled code does what its source does | `BPFCall`, `SequenceLemmas` |
| `BPFLegalize`, `MCBPFLegalize` | operation actions, legalization, selection of arithmetic, loads, stores and constants | `BPFCondCodes` |
| `LLCSpec` | a run of llc as one step: the abstract specification | |
| `LLCDriver`, `MCLLCDriver` | `main`, the output file, errors, signals and kills | `LLCSpec` |
| `LLCDriverProofs` | the driver implements its specification and spares its input | `LLCDriver` |

### BPFEncoding and BPFAssembler

An MCInst is a record of its operands; a word is a record of the fields that
`EncodeInstruction` writes (opcode byte, two register nibbles, offset,
immediate).  `getBinaryCodeForInstr` stands for the generated encoder, translated
from the `Inst{..}` assignments of the formats; `getMachineOpValue` and
`getMemoryOpValue` are the hand-written operand encoders.  The widths of the
offset and immediate fields are the constants `OffMod` and `ImmMod`, so that TLC
can run on narrow fields while the proofs cover 2^16 and 2^32.  The decoder
(`DecodedFormat` and what follows) reads a word the way a BPF interpreter does
and shares nothing with the encoder but the tables of operation names.

`BPFAssembler` has the section (`image`), the fixups, the labels, the relocations
and a history of what was emitted where (`source`).  `BeginFunction` pads with
`writeNopData`; `EncodeInstruction` appends one or two words and the fixup;
`FinishLayout` fixes the labels; `ResolveFixup` is `applyFixup`, in section
order, after `GetRelocType` for what is not a branch; `WriteObject` ends.  The
value that `applyFixup` gets for a symbol is LLVM's: zero, except that a symbol
with local binding is relocated against its section, in which case its offset is
passed because the backend asks for relocations without addend
(`BPFELFObjectWriter.cpp:28`).  The assertion on that value
(`BPFAsmBackend.cpp:70`) ends the model in the phase `aborted`; `AbortsExactly`
says for which sections it does.

### BPFInstPrinter

A `MachineInstr` is a sequence of operands in the order of the format's outs and
ins, with the implicit ones behind them; `Lower` drops those, and
`printInstruction` picks the rest by number, each through its print method.  The
text is the sequence of the operands shown.  `Disassembled` reads the words of
the object in the same order.  The module adds no state to `BPFAssembler`: its
property is an invariant of that module's runs.

### BPFBranch

A block is a sequence of what matters to control flow: ordinary instructions,
debug values, conditional jumps, `JMP`s and returns.  One step is one iteration
of a loop of `AnalyzeBranch` or `RemoveBranch`, with the iterator (`call.I`) and
the outputs (`TBB`, the return value) in `call`.  The passes are external:
branch folding analyzes any block with modification allowed and may replace the
branch it was told about; block placement picks a new layout, keeping a block that
cannot be analyzed together with the successor it falls through to, and has
`updateTerminator` repair the others one by one (`stale` holds those that wait).
`BodiesAssumption` is what LLVM's verifier demands of a block: no ordinary
instruction behind a terminator.  `AnalyzeBranch` relies on it, since it walks
backwards and stops at the first instruction that is not a terminator.

### BPFCondCodes and BPFSelect

`NegateCC` works on a node with a condition code and two operands.  A block of
selects and a branch goes through `LowerSELECT_CC`/`LowerBR_CC`, `SelectBlock`
(immediate or register forms by `immSExt32`, constants loaded where a pattern
wants a register), one `EmitInstrWithCustomInserter` per select, in the block
the previous one returned, and is then executed.  A jump compares with what is
left of its immediate in the field that the emitter writes (`Compared`), so that a
constant too wide for it would show.  The reference is `Holds` for conditions and
the registers after each select in turn (`RegsAfter`) for values.

### BPFFrame

A source is a sequence of accesses to a frame object or through a register, each
with a constant, and of address takings.  `SelectCode` translates it with
`SelectAddr`: the constant is folded if it fits an immediate, else the address
is computed.  `AllocateRegisters` is LLVM's: any assignment of registers that are
not reserved, spilling any virtual registers with `Store` and `Load`
(`storeRegToStackSlot`, `loadRegFromStackSlot`).  `LayOutFrame` gives offsets to
objects and slots; `eliminateFrameIndex` rewrites one instruction per step, in
the two ways of the code: `EliminateInMove` and `EliminateInAddress`.  Then the
code runs on the empty prologue.  `WordMod` and `ImmMod` are the widths of an
address and of an `int`.

### BPFCall

A module is a sequence of functions; each is lowered statement by statement.
The fatal errors are the stage `rejected`, an `llvm_unreachable` the stage
`unreachable`; the locations come from `CC_BPF64` and `RetCC_BPF64`.  A copy into
an argument register is an instruction of its own and is deleted when no call
names the register.  `AllocateHomes` puts virtual registers into slots or into
callee-saved registers, and `SavedRegs` is what the scan finds after
`processFunctionBeforeCalleeSavedScan`.
A kernel function returns any value and destroys R0 to R5, and sees the argument
registers, which `trace` records.

`BPFCallSource` has none of this: an activation is a function, a statement and the
values of its variables.  `BPFCall` implements it under a mapping that reads each
variable where the allocator put it, takes a copy from a register that is next to
execute as made, and finds the statement by the next instruction that carries a
number; compilation is a stutter.

### BPFLegalize

A term is an IR operation with operands.  `OperationAction` is the table the
constructor fills.  `Legalize` does one node, in any order, as LLVM does for its
action: `LowerOperation` for Custom, `Expand` and `Promote` otherwise; `Select`
then needs a pattern for every node and builds the instructions.  `Eval` gives
terms before and after their value; `known` says how many low bits of a value are
defined (a comparison has one, the target leaves the contents of booleans
undefined, an any-extending load as many as were loaded).  The value of a
store is the word it leaves in memory.  The condition of a `select` or a `brcond`
that is not a comparison is compared with zero as a whole; LLVM masks it for a branch
only, so that for a `select` the expansion of comparisons must leave 0 or 1.  Widths
are a quarter of the real ones.

### LLCDriver and LLCSpec

The phases of `main` are its places of exit: parsing, options, opening the output,
adding passes, `PM.run`, `keep`, closing, returning.  The output file follows
LLVM's `tool_output_file`: opened with truncation, removed on a signal or a fatal
error while it is open, removed by the destructor unless `keep` was called, and an
error of the stream found when it is closed is fatal.  Between runs the user may
edit the inputs, and a run may take the output of an earlier one.  `LLCSpec` is a
run as one step: `Compile`, `Refuse`, `Interrupt` or `Kill`.  The mapping shows it
the disk as it was when the run last started or ended (`before`, a history
variable), so that the step is taken when the process ends.

## 4. Runs

| Run | Question | Instance and why it is enough | Size |
|---|---|---|---|
| `asm_layout` | are instructions, labels, jumps and relocations right in every section? | 5 words, two functions, two blocks, alignment 8 and 16, 4-bit fields: jumps forward and backward over a two-word load, padding between functions, one function static | 1.2 M states |
| `asm_encoding` | does every opcode encode properly, and is it printed as what was encoded? | every opcode with operands at and next to each limit, 4-bit offsets and 5-bit immediates; one instruction suffices, as encoding does not depend on what came before | 241 k states |
| `branch` | do the hooks keep the CFG, whatever the passes do? | three blocks with eight kinds of body over all targets, both layouts: self loops, chains of `JMP`s, debug values in between, empty blocks | 342 k states |
| `select` | does compiled code compute what the source says? | 3-bit registers, 2-bit immediates, all values of two live-in registers; up to two selects, all ten conditions, constants that fit and that do not, a block that branches to itself | 81 k states |
| `frame` | does compiled code access the addresses of the source? | 10-bit addresses, 7-bit immediates; two objects, a pointer argument, constants at the limits of an immediate; all allocations to four registers, `MaxSpills` = 2 so that computed addresses and pointers are spilled together or alone, both orders of objects and of slots | 79 k states |
| `call` | does compiled code implement its source, and is exactly what is unsupported rejected? | three functions deep, five arguments, permuted arguments, calls without result, one module for each reason to be rejected and for each way to reach `llvm_unreachable`, in the first and in the second function; two values tell any two arguments apart, as all combinations are tried | 20 k states |
| `legalize` | does legalization end, with the same meaning, refusing only what is unsupported? | 16-bit words, 8-bit immediates; every binary operation, constants at each limit of an immediate, loads of each width and extension, stores of each width, conditions that combine comparisons or are loaded, each unsupported operation alone or under a supported one; values at the limits of signed and unsigned words; `MaxNodes` = 40 is never reached by a run that ends | 355 states |
| `llc` | is a run of the compiler one step? | two runs (`MaxRuns`), so that one starts from what another left; an input with each kind of name, `-o` naming the input, another file or the standard output, every option that can fail; two modules | 117 k states |

The passing runs of all modules but `BPFBranch` end when the program does, so
deadlock is not checked there; in `branch` it is.

Four runs refute something the repository says; each is a finding:

| Run | Statement | What the run shows |
|---|---|---|
| `asm_far_branch` | "No instruction requires relaxation" (`BPFAsmBackend.cpp:31`) | a distance beyond the offset field wraps around silently; 3-bit field, 7 words |
| `asm_mem_offset` | `(ops GPR, i16imm)` (`BPFInstrInfo.td:84`) | a selected offset wider than the field is cut by the mask of `getMemoryOpValue` |
| `frame_edge` | `llvm_unreachable("bug in frame offset")` (`BPFRegisterInfo.cpp:83`) | the sum is cut to an `int` before it is checked |
| `call_saved` | "callee saved" (`BPFRegisterInfo.td:34`, `BPFCallingConv.td:24`) | R6 to R9 are hidden from the scan for registers to save, so compiled functions do not keep them for each other |

### Properties

* `InstructionsDecode`: from emission to the finished object, each instruction
  decodes to its operation, registers, offset and immediate (the last two when
  they fit).
* `LabelsOnInstructions`: no label points into a two-word instruction.
* `JumpsLand`: a resolved branch lands on its block; an unresolved one has
  exactly its fixup.
* `RelocsExact`: the object has the relocations its references need and no other.
* `OnlyBranchOffsetsPatched` (action): the section is append-only but for the
  offset of the branch just resolved.
* `EdgesPreserved`: outside a repair, the exits of each block are its CFG edges,
  at every step of the hooks' loops.
* `AnalysisTruthful`, `FoldedBlocksTidy`: what `AnalyzeBranch` reports, and what
  it leaves behind, also when it gives up.
* `CallsReturn` (liveness): the hooks return.
* `LoweredFaithfully`, `ResultsAgree`: comparisons, and whole blocks, mean what
  the source means.
* `CFGConsistent`: after each expansion, edges, layout, jumps and PHIs agree.
* `Completes` (liveness): compilation does not end in a fatal error and the code
  reaches an exit.

* `AddressesKept`: the compiled function accesses the addresses of the source,
  in its order, in every layout and allocation.
* `FramePointerStays` (action): R10 keeps its value while the function runs.
* `SourceRefined` (refinement): every execution of the compiled module is one of
  `BPFCallSource`: arguments, results and values that live across calls are those
  of the source, and the kernel sees the same calls with the same values.
* `RejectsExactly`: compilation is refused only if the module has something
  unsupported, and what has it is never compiled to the end, stated independently
  of where the code checks it.  What is marked unreachable is reached only with a
  convention or results there is no place for, never because of an argument.

* `AbortsExactly`: the assertion of `applyFixup` stops the compiler for the
  sections that call a local function which is not at their start, and for no
  other.
* `TextMeansObject`: the operands printed are those a machine reads in the object,
  also where an immediate was cut to its field.  Text and object cut the immediate of
  a call alike, so that the property does not see that a call of a wider address
  reaches another one (the hazard at `BPFInstrInfo.td:465`).
* `MeaningKept`, `AcceptsExactly`, `Terminates` (liveness): what legalization and
  selection make of a term has its value, exactly the unsupported operations are
  refused, and rewriting ends.
* `Implements` (refinement): every behaviour of the driver is one of `LLCSpec`.
* `InputSurvives` (action): without `-o`, the input is never written to.

In the run `call` only the entry function gets callee-saved registers, as in a
BPF program whose callees are kernel functions or small; `call_saved` shows what
happens otherwise.  This is the hypothesis `KeepersNotCalled` of the proof below;
`MCBPFCall` has TLC evaluate it for the modules of the run (`HypothesisMet`).
A definition with a calling convention other than C and Fast is not reported
but reaches `llvm_unreachable` (`BPFISelLowering.cpp:154`), while a call is;
so do results that need more than one register, for which `RetCC_BPF64` has no
location.  The model stops there in the stage `unreachable`.

### Fairness

`BPFBranch` has weak fairness of the steps of the hooks: a hook that was called
runs on, since the compiler is one thread; nothing is assumed of the passes.
`BPFSelect` has weak fairness of its next-state relation: compiler and program
are deterministic and run on until they stop.  `BPFLegalize` has it too: the
legalizer works until nothing is left.  Its order of nodes is arbitrary, so
`Terminates` holds for every order.  The other modules need none; nothing obliges
the user to call `llc`, nor the compiler to return.

## 5. Proofs

`tlapm` checks the following for every value of the constants, under the
assumptions named in the modules.

* `BPFEncodingProofs!EncodingRoundTrip`: for fields of any even width, every
  MCInst decodes to itself.  It rests on `MemOperandRoundTrip` (base and offset
  share one number), `SExtRoundTrip` and `HalvesAddUp` (sign extension undoes
  the cast, and the two halves of a wide immediate add up), and
  `OpcodeRoundTrip` (the opcode byte determines format and operation).
* `BPFAssemblerProofs`: `TypeCorrect`, `EncodingFaithful`, `LabelsSound`,
  `RelocationsExact`, `FixupsTouchOnlyBranches`, and `BranchesLand`.  None of the
  properties is inductive: that a patched branch still decodes needs to know that
  the fixup's word is a branch; that a branch lands needs the labels not to move
  and each branch to have one fixup until it is resolved.  `IInv` collects this:
  which slots hold which words, that fixups belong to branches or symbol
  references of `source`, that resolved branches have their offset, and that
  relocations and pending fixups together are the references.  Each action has a
  lemma, with a step for each conjunct it can disturb.  `BranchesLand` has the
  hypothesis `2 * MaxSlots <= OffMod`: the section is small enough for the offset
  field.  The run `asm_far_branch` shows that it cannot be dropped.
* `BPFSelectProofs!ComparisonsKept`: for registers of any width and every source
  block, a lowered comparison has the operands of the source and a jump that is
  taken for exactly the values for which the source holds.  The invariant
  (`Nodewise`) says which nodes are lowered and that the others are untouched;
  the arithmetic is in `DirectJump` and `SwappedCondition`.
* `BPFBranchProofs`: `TypeCorrect`, `EdgesKept`, `AnalysisSound`, `FoldingTidy`,
  for any set of blocks, bodies and layouts.  That the exits of a block are its
  edges in the middle of a loop follows only from what the loop has found so far.
  `IInv` says it: behind the iterator of `AnalyzeBranch` there are only debug
  values and the one `JMP` that it reported (`ScanOK`); what it returned holds of the
  whole block (`StoppedOK`) and still holds when its caller acts on it (`CallerOK`);
  of a block that waits for `updateTerminator` the exits are right for the layout
  it was made for, or its last `JMP` leads where it fell through before (`StaleOK`,
  `RepairOK`).  The lemmas about `Exits` say what erasing, appending or cutting at a
  barrier does to the successors of a block.
* `BPFSelectProofs!SelectTypeCorrect` and `ExpansionKeepsCFG`, for any number of
  selects in a block.  That one expansion leaves a consistent CFG needs more than
  a consistent CFG: that every exit of the block is behind the pseudo that is
  expanded, so that `copy1MBB` takes all of them; that only the first
  instruction of a block is a PHI; that the layout has each block once, so that
  "the block behind" means something; that the block about to be cut is the one which
  the previous expansion returned.  `CFGInv` has these, by block (`BlocksOK`,
  `ShapesOK`, `PhisOK`, `ExitsOK`), and for the execution that it is always where
  an edge led it and never runs off the end behind a `JMP` (`RunOK`).  The recursive
  `FlattenSeq` is handled in `SequenceLemmas`, with an induction over a set of
  numbers instead of a predicate (`SetInduction`).
* `BPFSelectProofs!ExpansionKeepsResults`: `ResultsAgree`, for any block, any number
  of selects in it, any operands and any values in the registers.  On top of `CFGInv`,
  the invariant `Simulates` says what the code is, and where the run is in it.  After
  `k` expansions the block is a chain (`Chain(k)`): each diamond that was made has the
  loads, the jump and the PHI of its select (`CutAt`), the last block has the PHI of
  the last of them and all the source's nodes that are left (`RestFrom`), and the PHIs
  of the entry and of the exits name the right registers and the last block
  (`EntryPhi`, `ExitPhis`).  One expansion makes `Chain(k + 1)` of `Chain(k)`
  (`ChainGrows`), as the first pseudo of the rest is that of the next select
  (`NextPiece`).  While the code runs (`Following`), it is in the loads or at the jump
  of a node with the registers of the source before it (`Within`), in the empty block
  of the false value (`InMid`), or at the PHI with the side known that it came from
  (`AtPhi`); the jump is taken exactly if the source's condition is met (`Met`),
  by `LoweredFaithfully` and, for an immediate, by `FieldKeeps`, which needs that
  `immSExt32` was asked.  That `RegsAfter` is what its recursion says, for every
  number of selects, is `RegsAfterEvaluated`, again by `SetInduction`.
* `BPFCallProofs!RejectionExact`: `RejectsExactly`, for any modules.  The invariant
  `Lowered` says that everything before the place where lowering is, in this function
  and those before it, is supported by the source's definition; the lemmas
  `FiveRegisters` and `CallLimits` that caller and callee mean the same by it.
* `BPFCallProofs!CallTypeCorrect`: `TypeOK` of `BPFCall`, for any modules and any
  homes of the variables.  That an execution is always before an instruction is a
  fact about all of the code at once.  `CallInv` is `Lowered`, `CodeInv` and
  `Executing`.  `CodeInv` describes the code of a function by a list of positions,
  the instructions that do its statements (`Laid`): before each one are the copies
  from registers of what has just arrived, the parameters or the results of the
  statement before, and behind these the copies to registers of what it takes
  (`Section`).  Of the function being lowered this is said of the code with the call
  frame pseudos erased, together with `Tidy`, that every copy to a register is used
  by the next call or return; so elimination erases the pseudos, deletes no
  copy, and leaves the layout (`FrameCode`).  `Executing` says that the activation
  on top is inside the section of a statement with the copies behind it made
  (`TopAt`), and that the others wait right behind a call of the one above them
  (`Waiting`).
* `BPFCallProofs!SourceImplemented`: `BPFCall` implements `BPFCallSource`
  (`SourceRefined`), for any modules and homes, under `KeepersNotCalled`: no
  function whose variables the allocator keeps in registers is called by a function
  of the module.  The hypothesis is what `processFunctionBeforeCalleeSavedScan`
  costs, and `call_saved` shows that it cannot be dropped.  On top of `CallInv` each
  kind of instruction has a lemma that says what the source sees of it
  (`CopyFromSame`, `CopyToSame`, `LoadImmShown`, `CallKernelShown`,
  `CallFunctionShown`, `ReturnShown`, `EnterShown`), from two about the mapping:
  `TopView`, that the variables of the activation on top are where they live
  except those whose copy is next, and `WaitView`, that a waiting one is at its call.
  Copies are stutters, and so is compilation unless it rejects; everything else
  is the step of `BPFCallSource` with its name (`SourceStep`).
* `BPFAssemblerProofs!AbortsForMisplaced`: `AbortsExactly`, from an invariant that
  keeps the fixup of every such call pending until it is resolved.
* `BPFAssemblerProofs!TextsMatch`: `TextMeansObject`.  `IInv` says what every field
  decodes to if it fits; of an immediate that was cut `ImmediatesWritten` says
  what is in the field, which no step writes again (`EmittedWordsStay`, the same
  lemma that gives `FixupsTouchOnlyBranches`).  The text is a lemma for each
  format (`JumpText` to `WideText`), on top of `LowerKeeps`: of the operands of a
  MachineInstr the explicit ones are left, in their order.  Two words print as the
  number they are the representation of (`WideImmediateRead`).
* `BPFFrameProofs`: `FrameTypeCorrect` and `FramePointerKept`, for any source,
  objects, widths and allocation.  `FrameInv` says of which registers and frame
  indices instructions are made at each stage, and that `eliminateFrameIndex` has left no
  index behind the instruction it is at.  R10 keeps its value because
  from allocation on every instruction writes a register that is not reserved
  (`InsnsNow`), also those that elimination adds.  That every index in use gets an
  offset needs that `UsedIndices` is finite, so that the order in which the layout takes
  the indices has all of them (`ListedInOrder`).
* `BPFFrameProofs!AddressesOfSource`: `AddressesKept`, for any sources, allocation,
  spills and layout, under `FramesFit`: the offset of each object and slot is an `int`
  in every layout of the frame, and so is its sum with an operand that was folded.
  `frame_edge` shows that it cannot be dropped, as `eliminateFrameIndex` does not notice;
  TLC evaluates it for the sources of `frame` (`SumsFit`).  There are two invariants
  besides `FrameInv`.  `Made` says what the code is at each stage: the selected code,
  the units that the allocator makes of its instructions (`Around`: reloads, the
  instruction, spills), and, while indices are eliminated, the final code up to the
  place where elimination is and the allocated code behind it (`Partway`).  `At` and
  `Line` are the places of an instruction in allocated and in final code.  `RunInv` says
  where the run is: in a unit among its reloads (`Ahead`), between the move of the
  frame pointer and the addition behind it (`Between`), or among its spills
  (`Behind`), for some values of the virtual registers; each of these is in its register, or in
  its slot if it is spilled (`Kept`).  Slots do not disturb each other because
  no two indices in use have the same place (`Placed`, `SlotsApart`), and registers
  that are shared do not because both values are in their slots and not needed
  together.  `Reached` ties the values to the source: `ptr`, `obj` and the
  half-computed `sum` and `imm` are what the addresses of the source need, and the trace is
  that of the items before (`ReachedNext`).  The run ends behind the last unit
  (`InsideCode`), where the trace is whole.
* `LLCDriverProofs`: `TypeCorrect`, `DriverImplements`, `InputsSurvive`, for any
  names, command lines, modules and number of runs.  `TypeOK` does not say what is
  on the disk in the middle of a run; `DiskInv` does (only the output file differs
  from `before`, and how it does depends on the phase and the result), and
  `PhaseInv` ties `done`, `kept` and `result` to the phase.  The refinement has a
  step for each action: those inside a run leave `before` and `exit` alone, those
  that end one map to one of the four steps of `LLCSpec`.  `InputsSurvive` rests
  on `DerivedNameDiffers`: stripping `bc` or `ll` and appending `s`, `o` or `null`
  never gives the name one started from.

Assumptions: `WidthAssumption` (the address range is a multiple of the range of
branches, fields have even range), `SymbolAssumption`, `InstrsAssumption`,
`LayoutAssumption` (functions are aligned to words:
`setMinFunctionAlignment(3)`), `RegisterWidthAssumption`, `ProgramsAssumption` (of
`BPFSelect`: the registers that selection makes for constants are new),
`FrameAssumption` and `IndexAssumption` (widths of `BPFFrame`; no index and no
register stands for "none"), its `ProgramsAssumption` (a virtual register is
defined once, before its uses),
`BodiesAssumption` (terminators are at the end of a block), `ModuleAssumption` (a
module has a function; as the IR verifier sees to it, bodies end in a return,
parameters differ, and calls within the module have the callee's signature), `CommandsAssumption`, `NamesAssumption`, `EditsAssumption`,
`RunsAssumption` (what command lines, file names and inputs look like).
The runs evaluate all of them.

Only model-checked: the invariants of `BPFLegalize` (`TypeOK`, `MeaningKept`,
`AcceptsExactly`), whose terms are recursive data and whose operators on them are
recursive; and liveness (`CallsReturn`, `Completes`, `Terminates`).  Both are out of
the prover's reach.

## 6. Not modelled

* Operations whose expansion the target has no say in: rotates, byte swaps,
  population counts, carries and the high half of a product.  LLVM expands them into
  operations that are modelled, except the product of two `i128`, which becomes a
  call of a library function.
* `STACKRESTORE`, which becomes a copy to R11 and comes with dynamic allocas, which are
  refused; `SDIVREM` and `UDIVREM`, which LLVM does not build for a target that
  expands them.
* Truncation to `i1`: the upper bits of such a condition are left to LLVM's type
  legalizer, as the target leaves the contents of booleans undefined.
* Selection of atomics: what their result register holds is the machine's decision
  (see the hazard at `BPFInstrInfo.td:476`).  Their encodings are in `BPFEncoding`,
  their addresses in `BPFFrame`.
* The offset of a global address, which `LowerGlobalAddress` does not copy
  (`BPFISelLowering.cpp:585`): LLVM folds offsets into global addresses only if the
  target allows it, and this one does not, so that it is always zero.
* Options of `llc` that only reach the code generator.
* Promotion of arguments in the call lowering: `i64` is the only legal type
  (`BPFISelLowering.cpp:32`), so smaller ones are extended before.
* Calls of functions with variable arguments, which `LowerCall` treats as any other,
  and parameters passed by value in a definition, which `LowerFormalArguments` does not
  look at.  Where one block can end both with an error of the lowering and in
  `llvm_unreachable`, the model keeps that it ends, not which of the two comes first.
* The exit of `llc` when the target is not found: `main` has registered the one it looks
  up, and the exit would be the one of a wrong option, in the same phase.
* Dynamic allocas and the register scavenger.
* The `NOP` instruction: nothing creates it.
* Printing: register names, mnemonics and layout; `BPFAsmPrinter::printOperand`,
  which serves inline assembly.
* Registration, factories, build files: no state that changes.
* Register allocation, scheduling, the generic DAG code: LLVM's.  The models take
  their results as inputs.
* Bytes within a word: the fields are emitted in a fixed little-endian order
  and no property depends on it.  The padding word is written as one number;
  its fields in the model are those of its bytes.
