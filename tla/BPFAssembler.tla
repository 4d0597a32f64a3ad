---------------------------- MODULE BPFAssembler ----------------------------
(***************************************************************************)
(* The object emission path, from the first MCInst of a section to the     *)
(* relocatable object: BPFMCCodeEmitter::EncodeInstruction appends words   *)
(* and records fixups, alignment pads with BPFAsmBackend::writeNopData,    *)
(* and once the layout is fixed the assembler resolves every fixup, with   *)
(* BPFAsmBackend::applyFixup or BPFELFObjectWriter::GetRelocType.          *)
(*                                                                         *)
(* The streamer and assembler that call these hooks are LLVM's: they are   *)
(* modelled from the way the hooks are called and marked external.         *)
(***************************************************************************)
EXTENDS BPFEncoding

CONSTANTS
  Instrs,      (* the MCInsts a function may consist of                    *)
  BlocksOf,    (* the blocks of each function                              *)
  StaticFuncs, (* functions with local binding                             *)
  Aligns,      (* alignments, in bytes, that functions ask for             *)
  MaxSlots     (* bound: words in the section                              *)

ASSUME InstrsAssumption ==
  /\ Instrs \subseteq MCInst
  /\ StaticFuncs \subseteq Funcs

\* setMinFunctionAlignment(3): every function is aligned to a word at least.
ASSUME LayoutAssumption ==
  /\ BlocksOf \in [Funcs -> SUBSET Blocks]
  /\ \A a \in Aligns : a \in Nat \ {0} /\ a % WordBytes = 0
  /\ MaxSlots \in Nat

VARIABLES
  image,       (* section contents: a sequence of words                    *)
  fixups,      (* MCFixups not yet resolved: [at, kind, sym]               *)
  labels,      (* byte offset of each block and function symbol            *)
  relocs,      (* relocation entries of the object: [at, type, sym]        *)
  fn,          (* the function being emitted, or NoSym                     *)
  phase,       (* "emit", then "layout", then "done" or "aborted"          *)
  source       (* history: slot of an instruction's first word |-> MCInst  *)

vars == <<image, fixups, labels, relocs, fn, phase, source>>

Unplaced  == -1
Size      == WordBytes * Len(image)
AddrOf(k) == WordBytes * (k - 1)        \* byte offset of word k

\* No jump refers to a block that has no address yet.
BlocksPlaced == \A x \in fixups : x.sym \in Blocks => labels[x.sym] # Unplaced

-----------------------------------------------------------------------------
Init ==
  /\ image  = << >>
  /\ fixups = {}
  /\ labels = [l \in Blocks \cup Funcs |-> Unplaced]
  /\ relocs = {}
  /\ fn     = NoSym
  /\ phase  = "emit"
  /\ source = [k \in {} |-> NoSym]

\* Bytes from the current end of the section to the next multiple of a.
Padding(a) == (-Size) % a

\* BPFAsmBackend::writeNopData.
writeNopData(count) == [n \in 1 .. count \div WordBytes |-> NopWord]

\* A function header: pad the section to the alignment and place the symbol.
\* The blocks of the previous function have all been emitted by then.
BeginFunction(f, a) ==
  /\ phase = "emit"
  /\ labels[f] = Unplaced
  /\ BlocksPlaced
  /\ WordBytes * Len(image) + Padding(a) <= WordBytes * MaxSlots
  /\ image'  = image \o writeNopData(Padding(a))
  /\ labels' = [labels EXCEPT ![f] = Size + Padding(a)]
  /\ fn'     = f
  /\ UNCHANGED <<fixups, relocs, phase, source>>

\* The label of a block of the current function is placed at the current end.
EmitLabel(b) ==
  /\ phase = "emit"
  /\ fn # NoSym
  /\ b \in BlocksOf[fn]
  /\ labels[b] = Unplaced
  /\ labels' = [labels EXCEPT ![b] = Size]
  /\ UNCHANGED <<image, fixups, relocs, fn, phase, source>>

\* BPFMCCodeEmitter::EncodeInstruction; a branch stays in its function.
EncodeInstruction(i) ==
  /\ phase = "emit"
  /\ fn # NoSym
  /\ i.sym \in Blocks => i.sym \in BlocksOf[fn]
  /\ Len(image) + Len(Words(i)) <= MaxSlots
  /\ image'  = image \o Words(i)
  /\ fixups' = fixups \cup NewFixups(i, Size)
  /\ source' = [k \in DOMAIN source \cup {Len(image) + 1} |->
                  IF k = Len(image) + 1 THEN i ELSE source[k]]
  /\ UNCHANGED <<labels, relocs, fn, phase>>

\* The streamer is finished: every block and function of this section that is
\* referred to has been placed.
FinishLayout ==
  /\ phase = "emit"
  /\ \A x \in fixups : x.sym \in Blocks \cup Funcs => labels[x.sym] # Unplaced
  /\ phase' = "layout"
  /\ UNCHANGED <<image, fixups, labels, relocs, fn, source>>

\* Mutant: the displacement is counted from the branch itself.
BranchOffset_FromSelf(value) == (value \div 8) % OffMod

\* BPFAsmBackend::applyFixup: (uint16_t)((Value - 8) / 8), in uint64_t.
BranchOffset(value) == (((value - 8) % AddrMod) \div 8) % OffMod

\* The word whose offset field is at Data[Offset + 2].
PatchedSlot(x) == (x.at \div WordBytes) + 1

\* Mutant: eight bytes are stored where two are meant.
ApplyBranchFixup_WideStore(x) ==
  LET value == (labels[x.sym] - x.at) % AddrMod
  IN  /\ x.kind = "FK_PCRel_2"
      /\ image' = [image EXCEPT ![PatchedSlot(x)].off = BranchOffset(value),
                               ![PatchedSlot(x)].imm = 0]
      /\ UNCHANGED <<relocs, phase>>

\* applyFixup on FK_PCRel_2; the assembler passes symbol minus fixup address.
ApplyBranchFixup(x) ==
  LET value == (labels[x.sym] - x.at) % AddrMod
  IN  /\ x.kind = "FK_PCRel_2"
      /\ image' = [image EXCEPT ![PatchedSlot(x)].off = BranchOffset(value)]
      /\ UNCHANGED <<relocs, phase>>

\* BPFELFObjectWriter::GetRelocType.
GetRelocType(kind) == CASE kind = "FK_SecRel_8" -> "R_X86_64_64"
                        [] kind = "FK_SecRel_4" -> "R_X86_64_PC32"

\* The value LLVM's ELF writer passes back with HasRelocationAddend = false:
\* a symbol with local binding is relocated against its section, and its
\* offset in the section becomes the value to store in the instruction.
FixedValue(sym) == IF sym \in StaticFuncs THEN labels[sym] ELSE 0

\* Mutant: the value is not looked at.
ApplySecRelFixup_NoAssert(x) ==
  /\ x.kind \in {"FK_SecRel_4", "FK_SecRel_8"}
  /\ relocs' = relocs \cup {[at |-> x.at, type |-> GetRelocType(x.kind), sym |-> x.sym]}
  /\ UNCHANGED <<image, phase>>

\* applyFixup on FK_SecRel_4 and FK_SecRel_8, after the relocation entry is
\* recorded: assert (Value == 0), and the data is left alone.
ApplySecRelFixup(x) ==
  /\ x.kind \in {"FK_SecRel_4", "FK_SecRel_8"}
  /\ relocs' = relocs \cup {[at |-> x.at, type |-> GetRelocType(x.kind), sym |-> x.sym]}
  /\ phase'  = IF FixedValue(x.sym) = 0 THEN "layout" ELSE "aborted"
  /\ UNCHANGED image

\* One fixup is resolved, in the order of the section.
ResolveFixup(x) ==
  /\ phase = "layout"
  /\ \A y \in fixups : x.at <= y.at
  /\ fixups' = fixups \ {x}
  /\ UNCHANGED <<labels, fn, source>>
  /\ ApplyBranchFixup(x) \/ ApplySecRelFixup(x)

WriteObject ==
  /\ phase = "layout"
  /\ fixups = {}
  /\ phase' = "done"
  /\ UNCHANGED <<image, fixups, labels, relocs, fn, source>>

Next ==
  \/ \E f \in Funcs, a \in Aligns : BeginFunction(f, a)
  \/ \E b \in Blocks : EmitLabel(b)
  \/ \E i \in Instrs : EncodeInstruction(i)
  \/ FinishLayout
  \/ \E x \in fixups : ResolveFixup(x)
  \/ WriteObject

Spec == Init /\ [][Next]_vars

-----------------------------------------------------------------------------
(***************************************************************************)
(* Properties.                                                             *)
(***************************************************************************)
Kinds      == {"FK_PCRel_2", "FK_SecRel_4", "FK_SecRel_8"}
RelocTypes == {"R_X86_64_64", "R_X86_64_PC32"}
Symbols    == Blocks \cup Funcs \cup Externs

\* Type invariant: every field of every word fits its width, every offset of
\* a fixup or a label is a word boundary of the section.
TypeOK ==
  /\ image \in Seq(Word) /\ Len(image) <= MaxSlots
  /\ \A x \in fixups : /\ x.kind \in Kinds /\ x.sym \in Symbols
                       /\ \E k \in DOMAIN image : x.at = AddrOf(k)
  /\ labels \in [Blocks \cup Funcs -> {Unplaced} \cup
                   {AddrOf(k) : k \in 1 .. Len(image) + 1}]
  /\ \A r \in relocs : r.type \in RelocTypes /\ r.sym \in Symbols
  /\ fn \in Funcs \cup {NoSym}
  /\ phase \in {"emit", "layout", "done", "aborted"}
  /\ DOMAIN source \subseteq DOMAIN image
  /\ \A k \in DOMAIN source : source[k] \in Instrs

\* The encoder and an interpreter agree: through emission, padding and fixup
\* resolution, every instruction of the section decodes to the operation,
\* registers and immediate it was built from, and to its memory offset; the
\* last two whenever they fit their field.
InstructionsDecode ==
  \A k \in DOMAIN source :
    LET i == source[k] IN
      /\ OperationKept(i, image[k])
      /\ RegistersKept(i, image[k])
      /\ FitsOffset(i) => OffsetKept(i, image[k])
      /\ IF i.fmt = "LD_IMM64"
         THEN k + 1 \in DOMAIN image /\ WideImmediateKept(i, image[k], image[k + 1])
         ELSE FitsImmediate(i) => ImmediateKept(i, image[k])

\* No label points between the two words of an LD_imm64: a jump or a call
\* that lands on a label lands on an instruction.
LabelsOnInstructions ==
  \A l \in Blocks \cup Funcs, k \in DOMAIN source :
    labels[l] = AddrOf(k + 1) => Width(image[k]) = 1

Resolved(k) == \A x \in fixups : x.at # AddrOf(k)

\* The address an interpreter continues at when the jump in word k is taken.
TargetOf(k) == AddrOf(k + 1) + WordBytes * SExt(image[k].off, OffMod)

IsJump(i) == i.fmt \in JumpFormats \cup {"BRANCH"}

\* A resolved jump lands on the block it names, forwards and backwards and
\* over two-word instructions; one not resolved yet still has its fixup.  It
\* needs the section to be addressable by the offset field.
JumpsLand ==
  \A k \in DOMAIN source :
    IsJump(source[k]) =>
      IF Resolved(k)
      THEN phase # "emit" /\ TargetOf(k) = labels[source[k].sym]
      ELSE [at |-> AddrOf(k), kind |-> "FK_PCRel_2", sym |-> source[k].sym] \in fixups

\* The relocation a call or an address load of a symbol needs.
NeededRelocs ==
  {[at |-> AddrOf(k), type |-> IF source[k].fmt = "CALL" THEN "R_X86_64_PC32"
                               ELSE "R_X86_64_64", sym |-> source[k].sym] :
     k \in {n \in DOMAIN source : source[n].sym \notin Blocks \cup {NoSym}}}

\* The finished object has exactly one relocation for every reference to a
\* function or global, of the type of the referring instruction, and none for
\* a branch.
RelocsExact == phase = "done" => relocs = NeededRelocs

\* The assertion of applyFixup on the value of a section-relative fixup stops
\* the compiler if and only if some instruction refers to a function with local
\* binding that is not the first of its section, wherever either was emitted.
AbortsExactly ==
  LET misplaced == {k \in DOMAIN source : source[k].sym \in StaticFuncs /\ labels[source[k].sym] # 0}
  IN  /\ phase = "aborted" => misplaced # {}
      /\ phase = "done"    => misplaced = {}

OnlyBranchOffsetsChange ==
  \A k \in DOMAIN image :
    /\ k \in DOMAIN image'
    /\ image'[k] # image[k] =>
         /\ k \in DOMAIN source /\ IsJump(source[k])
         /\ ~Resolved(k) /\ Resolved(k)'
         /\ image'[k] = [image[k] EXCEPT !.off = image'[k].off]

\* Resolving a fixup writes the offset field of one branch and nothing else;
\* the rest of the section is never rewritten once it is emitted.
OnlyBranchOffsetsPatched == [][OnlyBranchOffsetsChange]_vars

(***************************************************************************)
(* What comments and declarations of the code say, checked by runs that    *)
(* refute it.                                                              *)
(***************************************************************************)

\* "No instruction requires relaxation": a resolved branch reaches its block
\* whatever the distance.
NoBranchNeedsRelaxation ==
  \A k \in DOMAIN source :
    IsJump(source[k]) /\ Resolved(k) => TargetOf(k) = labels[source[k].sym]

\* "(ops GPR, i16imm)": the offset of a memory operand is a 16-bit immediate,
\* so what is encoded is what was selected.
MemOffsetsEncoded == \A k \in DOMAIN source : OffsetKept(source[k], image[k])
=============================================================================
