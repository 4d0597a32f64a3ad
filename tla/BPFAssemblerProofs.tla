------------------------- MODULE BPFAssemblerProofs -------------------------
(***************************************************************************)
(* Proofs about BPFAssembler and BPFInstPrinter, for every width of the    *)
(* fields, every set of instructions and functions, and every size of the  *)
(* section.                                                                *)
(***************************************************************************)
EXTENDS BPFInstPrinter, BPFEncodingProofs, SequenceLemmas

(***************************************************************************)
(* The inductive invariant.                                                *)
(***************************************************************************)
FixupOf(k) == [at |-> AddrOf(k), kind |-> FixupKind(source[k]), sym |-> source[k].sym]

RelocOf(k) == [at |-> AddrOf(k),
               type |-> IF source[k].fmt = "CALL" THEN "R_X86_64_PC32" ELSE "R_X86_64_64",
               sym |-> source[k].sym]

\* The second word of an LD_imm64 is there, and no instruction starts at it.
SecondWords ==
  \A k \in DOMAIN source : source[k].fmt = "LD_IMM64" =>
    k + 1 \in DOMAIN image /\ k + 1 \notin DOMAIN source

\* Every fixup is the one of an instruction with that symbol.
FixupsOwned ==
  \A x \in fixups : \E k \in DOMAIN source : source[k].sym # NoSym /\ x = FixupOf(k)

\* Nothing is resolved while instructions are emitted.
AllPending == \A k \in DOMAIN source : source[k].sym # NoSym => FixupOf(k) \in fixups

NothingResolvedEarly == phase = "emit" => relocs = {} /\ AllPending

\* Once the layout is fixed, a fixup refers to no symbol without an address.
SymbolsPlaced ==
  phase # "emit" => \A x \in fixups : x.sym \in Blocks \cup Funcs => labels[x.sym] # Unplaced

\* A reference to a function or global has its fixup or its relocation.
RelocsAccounted ==
  /\ \A k \in DOMAIN source : source[k].sym \notin Blocks \cup {NoSym} =>
       FixupOf(k) \in fixups \/ RelocOf(k) \in relocs
  /\ \A r \in relocs : \E k \in DOMAIN source :
       source[k].sym \notin Blocks \cup {NoSym} /\ r = RelocOf(k)

IInv ==
  /\ TypeOK /\ SecondWords /\ FixupsOwned /\ NothingResolvedEarly
  /\ SymbolsPlaced /\ RelocsAccounted /\ InstructionsDecode
  /\ LabelsOnInstructions
  /\ phase = "done" => fixups = {}

-----------------------------------------------------------------------------
(***************************************************************************)
(* Facts about addresses, padding and the section.                         *)
(***************************************************************************)

\* The slot of a byte offset is found again.
LEMMA SlotOfAddress ==
  ASSUME NEW k \in Int
  PROVE  (AddrOf(k) \div WordBytes) + 1 = k /\ AddrOf(k) \in Int
BY DEF AddrOf, WordBytes

\* Alignments are whole words, so padding is.
LEMMA PaddingIsWords ==
  ASSUME TypeOK, NEW a \in Aligns
  PROVE  \E n \in Nat : Padding(a) = WordBytes * n /\ Padding(a) \div WordBytes = n
<1>1. Len(image) \in Nat
  BY LenProperties DEF TypeOK
<1>2. a \in Nat \ {0} /\ a % 8 = 0
  BY LayoutAssumption DEF WordBytes
<1>3. PICK c \in Int : a = (8 * c) + 0
  BY <1>2, DivMod
<1>4. c \in Nat \ {0}
  BY <1>2, <1>3
<1>5. -Len(image) \in Int
  BY <1>1
<1>6. PICK q \in Int, r \in 0 .. c - 1 : -Len(image) = (c * q) + r
  BY <1>4, <1>5, DivMod
<1>7. PICK z \in Int, s \in 0 .. a - 1 :
        z = -(8 * Len(image)) /\ s = 8 * r /\ z = (a * q) + s
  <2>1. a * q = 8 * (c * q)
    BY <1>3, <1>4, <1>6
  <2>2. 8 * r \in 0 .. a - 1
    BY <1>3, <1>4, <1>6
  <2> QED
    BY <1>1, <1>6, <2>1, <2>2
<1>8. z % a = s
  BY <1>2, <1>6, <1>7, DivModUnique
<1>9. Padding(a) = 8 * r
  BY <1>7, <1>8 DEF Padding, Size, WordBytes
<1> QED
  BY <1>4, <1>9 DEF WordBytes

\* What writeNopData writes is a sequence of words.
LEMMA PaddingWords ==
  ASSUME TypeOK, NEW a \in Aligns
  PROVE  /\ writeNopData(Padding(a)) \in Seq(Word)
         /\ Len(writeNopData(Padding(a))) = Padding(a) \div WordBytes
<1>1. PICK n \in Nat : Padding(a) = WordBytes * n /\ Padding(a) \div WordBytes = n
  BY PaddingIsWords
<1>2. NopWord \in Word
  <2>1. (21 * 256) % OffMod \in 0 .. OffMod - 1 /\ 0 \in 0 .. ImmMod - 1
    BY Widths, DivMod
  <2> QED
    BY <2>1 DEF NopWord, Word, RegMod
<1>3. writeNopData(Padding(a)) \in [1 .. n -> Word]
  BY <1>1, <1>2 DEF writeNopData
<1> QED
  BY <1>1, <1>3, SeqDef, LenProperties

\* Appending words keeps the words that are there.
LEMMA GrowImage ==
  ASSUME TypeOK, NEW s \in Seq(Word), image' = image \o s
  PROVE  /\ image' \in Seq(Word) /\ Len(image) \in Nat /\ Len(s) \in Nat
         /\ Len(image') = Len(image) + Len(s)
         /\ DOMAIN image = 1 .. Len(image)
         /\ DOMAIN image' = 1 .. Len(image) + Len(s)
         /\ \A k \in 1 .. Len(image) : image'[k] = image[k]
         /\ \A n \in 1 .. Len(s) : image'[Len(image) + n] = s[n]
<1>1. image \in Seq(Word)
  BY DEF TypeOK
<1>2. /\ image' \in Seq(Word) /\ Len(image') = Len(image) + Len(s)
      /\ \A k \in 1 .. Len(image) + Len(s) :
           image'[k] = IF k <= Len(image) THEN image[k] ELSE s[k - Len(image)]
  BY <1>1, ConcatProperties
<1>3. /\ Len(image) \in Nat /\ Len(s) \in Nat /\ DOMAIN image = 1 .. Len(image)
      /\ DOMAIN image' = 1 .. Len(image')
  BY <1>1, <1>2, LenProperties
<1> QED
  BY <1>2, <1>3

\* EncodeInstruction writes one word, or the two of LD_imm64.
LEMMA WordsOf ==
  ASSUME NEW i \in MCInst
  PROVE  /\ Words(i) \in Seq(Word)
         /\ Len(Words(i)) = IF i.fmt = "LD_IMM64" THEN 2 ELSE 1
         /\ Words(i)[1] = getBinaryCodeForInstr(i)
         /\ i.fmt = "LD_IMM64" => Words(i)[2] = HighWord(i)
<1>1. getBinaryCodeForInstr(i) \in Word /\ HighWord(i) \in Word
  BY WordsTyped
<1>2. i.fmt = "LD_IMM64" =>
        [getBinaryCodeForInstr(i) EXCEPT !.off = 0] = getBinaryCodeForInstr(i)
  BY DEF getBinaryCodeForInstr, OffField, MemFormats
<1>3. CASE i.fmt = "LD_IMM64"
  <2>1. Words(i) = <<getBinaryCodeForInstr(i), HighWord(i)>>
    BY <1>2, <1>3 DEF Words
  <2> QED
    BY <1>1, <1>3, <2>1
<1>4. CASE i.fmt # "LD_IMM64"
  <2>1. Words(i) = <<getBinaryCodeForInstr(i)>>
    BY <1>4 DEF Words
  <2> QED
    BY <1>1, <1>4, <2>1
<1> QED
  BY <1>3, <1>4

-----------------------------------------------------------------------------
(***************************************************************************)
(* The invariant holds initially and every step preserves it.              *)
(***************************************************************************)
LEMMA InitInv == Init => IInv
<1> SUFFICES ASSUME Init PROVE IInv
  OBVIOUS
<1>1. DOMAIN source = {} /\ fixups = {} /\ relocs = {} /\ phase = "emit"
  BY DEF Init
<1>2. image \in Seq(Word) /\ Len(image) = 0
  BY EmptySeq DEF Init
<1>3. TypeOK
  BY <1>1, <1>2, LayoutAssumption DEF Init, TypeOK
<1> QED
  BY <1>1, <1>3
  DEF IInv, SecondWords, FixupsOwned, NothingResolvedEarly, AllPending, SymbolsPlaced,
      RelocsAccounted, InstructionsDecode, LabelsOnInstructions

\* What the invariant says about one instruction of the section.
LEMMA InstFacts ==
  ASSUME IInv, NEW k \in DOMAIN source
  PROVE  /\ source[k] \in MCInst /\ k \in 1 .. Len(image) /\ k \in Int
         /\ Len(image) \in Nat /\ DOMAIN image = 1 .. Len(image)
         /\ image[k] \in Word
<1>1. image \in Seq(Word) /\ DOMAIN source \subseteq DOMAIN image /\ source[k] \in Instrs
  BY DEF IInv, TypeOK
<1>2. Len(image) \in Nat /\ DOMAIN image = 1 .. Len(image)
  BY <1>1, LenProperties
<1> QED
  BY <1>1, <1>2, InstrsAssumption, ElementOfSeq

\* The words of the section stay what they are, and more may follow them.
SectionGrows ==
  /\ image' \in Seq(Word) /\ Len(image') \in Nat /\ Len(image) \in Nat
  /\ Len(image) <= Len(image') /\ Len(image') <= MaxSlots
  /\ DOMAIN image = 1 .. Len(image) /\ DOMAIN image' = 1 .. Len(image')
  /\ \A k \in 1 .. Len(image) : image'[k] = image[k]

\* The instructions that are there decode as they did.
LEMMA DecodingKept ==
  ASSUME IInv, SectionGrows, NEW k \in DOMAIN source, source'[k] = source[k]
  PROVE  /\ OperationKept(source'[k], image'[k])
         /\ RegistersKept(source'[k], image'[k])
         /\ FitsOffset(source'[k]) => OffsetKept(source'[k], image'[k])
         /\ IF source'[k].fmt = "LD_IMM64"
            THEN /\ k + 1 \in DOMAIN image'
                 /\ WideImmediateKept(source'[k], image'[k], image'[k + 1])
            ELSE FitsImmediate(source'[k]) => ImmediateKept(source'[k], image'[k])
<1>1. k \in 1 .. Len(image) /\ image'[k] = image[k]
  BY InstFacts DEF SectionGrows
<1>2. ASSUME source[k].fmt = "LD_IMM64"
      PROVE  k + 1 \in DOMAIN image' /\ image'[k + 1] = image[k + 1]
  BY <1>2 DEF IInv, SecondWords, SectionGrows
<1> QED
  BY <1>1, <1>2 DEF IInv, InstructionsDecode

\* An instruction that ends where the section ends is one word long.
LEMMA EndOfSection ==
  ASSUME IInv, NEW k \in DOMAIN source, NEW n \in Nat,
         AddrOf(k + 1) = AddrOf(Len(image) + n + 1)
  PROVE  Width(image[k]) = 1
<1>1. k \in Int /\ Len(image) \in Nat /\ DOMAIN image = 1 .. Len(image)
  BY InstFacts
<1>2. k + 1 \notin DOMAIN image
  BY <1>1 DEF AddrOf, WordBytes
<1>3. source[k].fmt # "LD_IMM64"
  BY <1>2 DEF IInv, SecondWords
<1>4. DecodedFormat(image[k]) = source[k].fmt
  BY DEF IInv, InstructionsDecode, OperationKept
<1> QED
  BY <1>3, <1>4 DEF Width

\* A function header adds padding at the end and a label after it.
LEMMA BeginFunctionInv ==
  ASSUME IInv, NEW f \in Funcs, NEW a \in Aligns, BeginFunction(f, a)
  PROVE  IInv'
<1> DEFINE s == writeNopData(Padding(a))
<1>1. PICK n \in Nat : Padding(a) = WordBytes * n /\ Padding(a) \div WordBytes = n
  BY PaddingIsWords DEF IInv
<1>2. s \in Seq(Word) /\ Len(s) = n
  BY <1>1, PaddingWords DEF IInv
<1> HIDE DEF s
<1>3. /\ SectionGrows /\ Len(image') = Len(image) + n
      /\ \A m \in 1 .. n : image'[Len(image) + m] = s[m]
  <2>1. image' = image \o s
    BY DEF BeginFunction, s
  <2>2. Len(image) + n <= MaxSlots
    <3>1. Len(image) \in Nat
      BY <2>1, <1>2, GrowImage DEF IInv
    <3> QED
      BY <3>1, <1>1, LayoutAssumption DEF BeginFunction, WordBytes
  <2>3. /\ image' \in Seq(Word) /\ Len(image) \in Nat
        /\ Len(image') = Len(image) + n
        /\ DOMAIN image = 1 .. Len(image) /\ DOMAIN image' = 1 .. Len(image) + n
        /\ \A k \in 1 .. Len(image) : image'[k] = image[k]
        /\ \A m \in 1 .. n : image'[Len(image) + m] = s[m]
    BY <2>1, <1>2, GrowImage DEF IInv
  <2> QED
    BY <2>2, <2>3 DEF SectionGrows
<1>4. /\ labels' = [labels EXCEPT ![f] = AddrOf(Len(image') + 1)]
      /\ fn' = f /\ phase = "emit" /\ f \in DOMAIN labels
      /\ UNCHANGED <<fixups, relocs, phase, source>>
  <2>1. Size + Padding(a) = AddrOf(Len(image') + 1)
    BY <1>1, <1>3 DEF Size, AddrOf, SectionGrows, WordBytes
  <2> QED
    BY <2>1 DEF BeginFunction, IInv, TypeOK
<1>5. \A k \in DOMAIN source : source[k] \in MCInst /\ k \in 1 .. Len(image)
  BY InstFacts
<1>6. TypeOK'
  <2>1. \A k \in DOMAIN image : k \in DOMAIN image'
    BY <1>3 DEF SectionGrows
  <2>2. labels' \in [Blocks \cup Funcs -> {Unplaced} \cup
                       {AddrOf(k) : k \in 1 .. Len(image') + 1}]
    <3> DEFINE Old == {Unplaced} \cup {AddrOf(k) : k \in 1 .. Len(image) + 1}
               New == {Unplaced} \cup {AddrOf(k) : k \in 1 .. Len(image') + 1}
    <3>1. labels \in [Blocks \cup Funcs -> Old]
      BY DEF IInv, TypeOK
    <3>2. \A k \in 1 .. Len(image) + 1 : k \in 1 .. Len(image') + 1
      BY <1>3 DEF SectionGrows
    <3>3. Len(image') + 1 \in 1 .. Len(image') + 1
      BY <1>3 DEF SectionGrows
    <3>4. Old \subseteq New /\ AddrOf(Len(image') + 1) \in New
      BY <3>2, <3>3, Zenon
    <3> HIDE DEF Old, New
    <3>5. labels' \in [Blocks \cup Funcs -> New]
      BY <1>4, <3>1, <3>4
    <3> QED
      BY <3>5 DEF New
  <2> QED
    BY <1>3, <1>4, <2>1, <2>2 DEF IInv, TypeOK, SectionGrows
<1>7. SecondWords'
  BY <1>3, <1>4 DEF IInv, SecondWords, SectionGrows
<1>8. FixupsOwned' /\ NothingResolvedEarly' /\ RelocsAccounted'
  BY <1>4 DEF IInv, FixupsOwned, NothingResolvedEarly, AllPending, RelocsAccounted, FixupOf, RelocOf
<1>9. SymbolsPlaced'
  BY <1>4 DEF IInv, SymbolsPlaced
<1>10. InstructionsDecode'
  BY <1>3, <1>4, DecodingKept DEF InstructionsDecode
<1>11. LabelsOnInstructions'
  <2> SUFFICES ASSUME NEW l \in Blocks \cup Funcs, NEW k \in DOMAIN source,
                      labels'[l] = AddrOf(k + 1)
               PROVE  Width(image'[k]) = 1
    BY <1>4 DEF LabelsOnInstructions
  <2>1. k \in 1 .. Len(image) /\ image'[k] = image[k] /\ Len(image) \in Nat
    BY <1>3, <1>5 DEF SectionGrows
  <2>2. CASE l = f
    <3>1. AddrOf(k + 1) = AddrOf(Len(image) + n + 1)
      BY <1>3, <1>4, <2>2 DEF IInv, TypeOK
    <3> QED
      BY <2>1, <3>1, EndOfSection
  <2>3. CASE l # f
    <3>1. labels[l] = AddrOf(k + 1)
      BY <1>4, <2>3 DEF IInv, TypeOK
    <3> QED
      BY <2>1, <3>1 DEF IInv, LabelsOnInstructions
  <2> QED
    BY <2>2, <2>3
<1> QED
  BY <1>4, <1>6, <1>7, <1>8, <1>9, <1>10, <1>11 DEF IInv

\* The label of a block adds nothing but an address at the end.
LEMMA EmitLabelInv ==
  ASSUME IInv, NEW b \in Blocks, EmitLabel(b)
  PROVE  IInv'
<1>1. /\ labels' = [labels EXCEPT ![b] = AddrOf(Len(image) + 1)]
      /\ phase = "emit" /\ b \in DOMAIN labels
      /\ UNCHANGED <<image, fixups, relocs, fn, phase, source>>
  <2>1. Len(image) \in Nat
    BY LenProperties DEF IInv, TypeOK
  <2>2. Size = AddrOf(Len(image) + 1)
    BY <2>1 DEF Size, AddrOf, WordBytes
  <2> QED
    BY <2>2 DEF EmitLabel, IInv, TypeOK
<1>2. TypeOK'
  <2>1. Len(image) + 1 \in 1 .. Len(image) + 1
    BY LenProperties DEF IInv, TypeOK
  <2>2. labels' \in [Blocks \cup Funcs -> {Unplaced} \cup
                       {AddrOf(k) : k \in 1 .. Len(image) + 1}]
    BY <1>1, <2>1 DEF IInv, TypeOK
  <2> QED
    BY <1>1, <2>2 DEF IInv, TypeOK
<1>3. SecondWords' /\ FixupsOwned' /\ NothingResolvedEarly' /\ RelocsAccounted'
  BY <1>1
  DEF IInv, SecondWords, FixupsOwned, NothingResolvedEarly, AllPending, RelocsAccounted,
      FixupOf, RelocOf
<1>4. SymbolsPlaced' /\ InstructionsDecode'
  BY <1>1 DEF IInv, SymbolsPlaced, InstructionsDecode
<1>5. LabelsOnInstructions'
  <2> SUFFICES ASSUME NEW l \in Blocks \cup Funcs, NEW k \in DOMAIN source,
                      labels'[l] = AddrOf(k + 1)
               PROVE  Width(image[k]) = 1
    BY <1>1 DEF LabelsOnInstructions
  <2>1. CASE l = b
    <3>1. AddrOf(k + 1) = AddrOf(Len(image) + 0 + 1)
      BY <1>1, <2>1, LenProperties DEF IInv, TypeOK
    <3> QED
      BY <3>1, EndOfSection
  <2>2. CASE l # b
    <3>1. labels[l] = AddrOf(k + 1)
      BY <1>1, <2>2 DEF IInv, TypeOK
    <3> QED
      BY <3>1 DEF IInv, LabelsOnInstructions
  <2> QED
    BY <2>1, <2>2
<1> QED
  BY <1>1, <1>2, <1>3, <1>4, <1>5 DEF IInv

\* The end of the stream changes the phase and needs every symbol placed.
LEMMA FinishLayoutInv ==
  ASSUME IInv, FinishLayout
  PROVE  IInv'
<1> USE DEF FinishLayout
<1>1. TypeOK' /\ SecondWords' /\ FixupsOwned' /\ RelocsAccounted'
  BY DEF IInv, TypeOK, SecondWords, FixupsOwned, RelocsAccounted, FixupOf, RelocOf
<1>2. NothingResolvedEarly' /\ SymbolsPlaced'
  BY DEF NothingResolvedEarly, AllPending, SymbolsPlaced
<1>3. InstructionsDecode' /\ LabelsOnInstructions'
  BY DEF IInv, InstructionsDecode, LabelsOnInstructions
<1> QED
  BY <1>1, <1>2, <1>3 DEF IInv

\* Writing the object changes the phase only.
LEMMA WriteObjectInv ==
  ASSUME IInv, WriteObject
  PROVE  IInv'
<1> USE DEF WriteObject
<1>1. TypeOK' /\ SecondWords' /\ FixupsOwned' /\ RelocsAccounted'
  BY DEF IInv, TypeOK, SecondWords, FixupsOwned, RelocsAccounted, FixupOf, RelocOf
<1>2. NothingResolvedEarly' /\ SymbolsPlaced'
  BY DEF NothingResolvedEarly, AllPending, SymbolsPlaced
<1>3. InstructionsDecode' /\ LabelsOnInstructions'
  BY DEF IInv, InstructionsDecode, LabelsOnInstructions
<1> QED
  BY <1>1, <1>2, <1>3 DEF IInv

\* An instruction adds its words, its fixup and its history.
LEMMA EncodeInstructionInv ==
  ASSUME IInv, NEW i \in Instrs, EncodeInstruction(i)
  PROVE  IInv'
<1>1. i \in MCInst
  BY InstrsAssumption
<1>2. /\ Words(i) \in Seq(Word) /\ Len(Words(i)) = IF i.fmt = "LD_IMM64" THEN 2 ELSE 1
      /\ Words(i)[1] = getBinaryCodeForInstr(i)
      /\ i.fmt = "LD_IMM64" => Words(i)[2] = HighWord(i)
  BY <1>1, WordsOf
<1>3. /\ image' \in Seq(Word) /\ Len(image) \in Nat
      /\ Len(image') = Len(image) + Len(Words(i))
      /\ DOMAIN image = 1 .. Len(image)
      /\ DOMAIN image' = 1 .. Len(image) + Len(Words(i))
      /\ \A k \in 1 .. Len(image) : image'[k] = image[k]
      /\ \A n \in 1 .. Len(Words(i)) : image'[Len(image) + n] = Words(i)[n]
  <2>1. image' = image \o Words(i)
    BY DEF EncodeInstruction
  <2> QED
    BY <2>1, <1>2, GrowImage DEF IInv
<1> PICK K \in Int : K = Len(image) + 1
  BY <1>3
<1>4. SectionGrows
  BY <1>2, <1>3 DEF SectionGrows, EncodeInstruction
<1>5. /\ K \in 1 .. Len(image') /\ K \notin 1 .. Len(image) /\ K \in Int
      /\ image'[K] = getBinaryCodeForInstr(i)
      /\ i.fmt = "LD_IMM64" => K + 1 \in 1 .. Len(image') /\ image'[K + 1] = HighWord(i)
  BY <1>2, <1>3
<1>6. \A k \in DOMAIN source : k \in 1 .. Len(image) /\ k # K /\ source[k] \in MCInst
  BY <1>5, InstFacts
<1>7. /\ DOMAIN source' = DOMAIN source \cup {K} /\ source'[K] = i
      /\ \A k \in DOMAIN source : source'[k] = source[k]
      /\ fixups' = fixups \cup NewFixups(i, AddrOf(K))
      /\ phase = "emit" /\ UNCHANGED <<labels, relocs, fn, phase>>
  <2>1. Size = AddrOf(K)
    BY <1>3 DEF Size, AddrOf, WordBytes
  <2> QED
    BY <2>1, <1>6 DEF EncodeInstruction
<1>8. /\ \A k \in DOMAIN source : FixupOf(k)' = FixupOf(k) /\ RelocOf(k)' = RelocOf(k)
      /\ FixupOf(K)' = [at |-> AddrOf(K), kind |-> FixupKind(i), sym |-> i.sym]
  BY <1>7 DEF FixupOf, RelocOf
<1>9. TypeOK'
  <2>1. labels' \in [Blocks \cup Funcs -> {Unplaced} \cup
                       {AddrOf(k) : k \in 1 .. Len(image') + 1}]
    BY <1>4, <1>7 DEF IInv, TypeOK, SectionGrows
  <2>2. \A x \in fixups' : /\ x.kind \in Kinds /\ x.sym \in Symbols
                           /\ \E k \in DOMAIN image' : x.at = AddrOf(k)
    <3>1. ASSUME NEW x \in fixups
          PROVE  /\ x.kind \in Kinds /\ x.sym \in Symbols
                 /\ \E k \in DOMAIN image' : x.at = AddrOf(k)
      BY <1>4 DEF IInv, TypeOK, SectionGrows
    <3>2. ASSUME NEW x \in NewFixups(i, AddrOf(K))
          PROVE  /\ x.kind \in Kinds /\ x.sym \in Symbols
                 /\ \E k \in DOMAIN image' : x.at = AddrOf(k)
      <4>1. i.sym # NoSym /\ x = [at |-> AddrOf(K), kind |-> FixupKind(i), sym |-> i.sym]
        BY <3>2 DEF NewFixups
      <4>2. i.sym \in Symbols
        BY <1>1, <4>1, InstTypes DEF SymsOf, Symbols
      <4>3. FixupKind(i) \in Kinds
        BY DEF FixupKind, Kinds
      <4> QED
        BY <4>1, <4>2, <4>3, <1>4, <1>5 DEF SectionGrows
    <3> QED
      BY <3>1, <3>2, <1>7
  <2>3. /\ DOMAIN source' \subseteq DOMAIN image'
        /\ \A k \in DOMAIN source' : source'[k] \in Instrs
    BY <1>4, <1>5, <1>6, <1>7 DEF IInv, TypeOK, SectionGrows
  <2> QED
    BY <1>4, <1>7, <2>1, <2>2, <2>3 DEF IInv, TypeOK, SectionGrows
<1>10. SecondWords'
  <2> SUFFICES ASSUME NEW k \in DOMAIN source', source'[k].fmt = "LD_IMM64"
               PROVE  k + 1 \in DOMAIN image' /\ k + 1 \notin DOMAIN source'
    BY DEF SecondWords
  <2>1. CASE k = K
    BY <2>1, <1>3, <1>4, <1>5, <1>6, <1>7 DEF SectionGrows
  <2>2. CASE k \in DOMAIN source
    <3>1. k + 1 \in DOMAIN image /\ k + 1 \notin DOMAIN source
      BY <2>2, <1>7 DEF IInv, SecondWords
    <3> QED
      BY <3>1, <1>3, <1>4, <1>5, <1>7 DEF SectionGrows
  <2> QED
    BY <2>1, <2>2, <1>7
<1>11. FixupsOwned'
  BY <1>7, <1>8 DEF IInv, FixupsOwned, NewFixups
<1>12. NothingResolvedEarly' /\ SymbolsPlaced'
  BY <1>7, <1>8 DEF IInv, NothingResolvedEarly, AllPending, SymbolsPlaced, NewFixups
<1>13. RelocsAccounted'
  <2>1. \A k \in DOMAIN source' : source'[k].sym # NoSym => FixupOf(k)' \in fixups'
    BY <1>12, <1>7 DEF NothingResolvedEarly, AllPending
  <2>2. relocs' = {}
    BY <1>7 DEF IInv, NothingResolvedEarly, AllPending
  <2> QED
    BY <2>1, <2>2 DEF RelocsAccounted
<1>14. InstructionsDecode'
  <2> SUFFICES ASSUME NEW k \in DOMAIN source'
               PROVE  /\ OperationKept(source'[k], image'[k])
                      /\ RegistersKept(source'[k], image'[k])
                      /\ FitsOffset(source'[k]) => OffsetKept(source'[k], image'[k])
                      /\ IF source'[k].fmt = "LD_IMM64"
                         THEN /\ k + 1 \in DOMAIN image'
                              /\ WideImmediateKept(source'[k], image'[k], image'[k + 1])
                         ELSE FitsImmediate(source'[k]) => ImmediateKept(source'[k], image'[k])
    BY DEF InstructionsDecode
  <2>1. CASE k \in DOMAIN source
    BY <2>1, <1>4, <1>7, DecodingKept
  <2>2. CASE k = K
    <3> DEFINE w == getBinaryCodeForInstr(i)
    <3>1. /\ w.opc = OpcodeByte(i) /\ w.dst = DstField(i) /\ w.src = SrcField(i)
          /\ w.off = OffField(i) /\ w.imm = getMachineOpValue(i)
      BY DEF getBinaryCodeForInstr
    <3> HIDE DEF w
    <3>2. /\ OperationKept(i, w) /\ RegistersKept(i, w)
          /\ FitsOffset(i) => OffsetKept(i, w)
          /\ i.fmt # "LD_IMM64" => (FitsImmediate(i) => ImmediateKept(i, w))
          /\ i.fmt = "LD_IMM64" => WideImmediateKept(i, w, HighWord(i))
      BY <1>1, <3>1, EncodingRoundTrip
    <3> QED
      BY <2>2, <3>2, <1>4, <1>5, <1>7 DEF SectionGrows, w
  <2> QED
    BY <2>1, <2>2, <1>7
<1>15. LabelsOnInstructions'
  <2> SUFFICES ASSUME NEW l \in Blocks \cup Funcs, NEW k \in DOMAIN source',
                      labels[l] = AddrOf(k + 1)
               PROVE  Width(image'[k]) = 1
    BY <1>7 DEF LabelsOnInstructions
  <2>1. CASE k \in DOMAIN source
    BY <2>1, <1>4, <1>6 DEF IInv, LabelsOnInstructions, SectionGrows
  <2>2. CASE k = K
    <3>1. labels[l] \in {Unplaced} \cup {AddrOf(m) : m \in 1 .. Len(image) + 1}
      BY DEF IInv, TypeOK
    <3>2. \A m \in 1 .. Len(image) + 1 : AddrOf(m) # AddrOf(K + 1)
      BY <1>3 DEF AddrOf, WordBytes
    <3>3. AddrOf(K + 1) # Unplaced
      BY <1>3 DEF AddrOf, WordBytes, Unplaced
    <3> QED
      BY <2>2, <3>1, <3>2, <3>3
  <2> QED
    BY <2>1, <2>2, <1>7
<1> QED
  BY <1>7, <1>9, <1>10, <1>11, <1>12, <1>13, <1>14, <1>15 DEF IInv

\* What applyFixup stores fits the offset field.
LEMMA BranchOffsetTyped ==
  ASSUME NEW v \in Int
  PROVE  BranchOffset(v) \in 0 .. OffMod - 1
<1>1. PICK u \in Int : u = (v - 8) % AddrMod
  BY Widths, DivMod
<1>2. u \div 8 \in Int
  BY <1>1
<1> QED
  BY <1>1, <1>2, Widths, DivMod DEF BranchOffset

\* Two reductions modulo a multiple of 8 keep a multiple of 8 what it is.
LEMMA TwoWraps ==
  ASSUME NEW a \in Int, NEW c \in Int, NEW p \in Int, NEW q \in Int,
         NEW u \in Int, NEW v \in Int, NEW D \in Int, NEW d \in Int,
         a = 8 * c, D = (a * p) + v, v - 8 = (a * q) + u, D - 8 = 8 * d
  PROVE  u = 8 * (d - (c * (p + q)))
OBVIOUS

\* The displacement applyFixup stores, through two unsigned wrap-arounds, is
\* the distance in words from the instruction after the branch.
LEMMA BranchOffsetIsDistance ==
  ASSUME NEW l \in Int, NEW k \in Int
  PROVE  BranchOffset((AddrOf(l) - AddrOf(k)) % AddrMod) = (l - k - 1) % OffMod
<1>0. PICK d \in Int : d = l - k - 1
  OBVIOUS
<1>1. AddrOf(l) - AddrOf(k) = 8 * (l - k) /\ 8 * (l - k) \in Int
  BY DEF AddrOf, WordBytes
<1>2. AddrMod \in Nat \ {0} /\ OffMod \in Nat \ {0}
  BY Widths
<1>3. PICK m \in Int : AddrMod = 8 * (OffMod * m)
  <2>1. AddrMod % (8 * OffMod) = 0 /\ 8 * OffMod \in Nat \ {0}
    BY <1>2, WidthAssumption DEF WordBytes
  <2>2. PICK m \in Int : AddrMod = ((8 * OffMod) * m) + 0
    BY <1>2, <2>1, DivMod
  <2>3. (8 * OffMod) * m = 8 * (OffMod * m)
    BY <1>2
  <2> QED
    BY <1>2, <2>2, <2>3
<1>4. PICK D \in Int : D = 8 * (l - k) /\ D - 8 = 8 * d
  BY <1>0, <1>1
<1>5. PICK v \in Int, p \in Int, u \in Int, q \in Int :
        /\ v = D % AddrMod /\ D = (AddrMod * p) + v
        /\ u = (v - 8) % AddrMod /\ v - 8 = (AddrMod * q) + u
  <2>1. PICK v \in Int, p \in Int : v = D % AddrMod /\ D = (AddrMod * p) + v
    BY <1>2, DivMod
  <2>2. PICK w \in Int : w = v - 8
    OBVIOUS
  <2>3. PICK u \in Int, q \in Int : u = w % AddrMod /\ w = (AddrMod * q) + u
    BY <1>2, DivMod
  <2> QED
    BY <2>1, <2>2, <2>3
<1>6. PICK e \in Int : e = d - ((OffMod * m) * (p + q))
  BY <1>2
<1>7. u = (8 * e) + 0
  <2>1. OffMod * m \in Int /\ AddrMod \in Int
    BY <1>2
  <2>2. D = (AddrMod * p) + v /\ v - 8 = (AddrMod * q) + u
    BY <1>5
  <2>3. u = 8 * (d - ((OffMod * m) * (p + q)))
    BY <1>3, <1>4, <2>1, <2>2, TwoWraps
  <2> QED
    BY <1>6, <2>3
<1>8. u \div 8 = e
  BY <1>7, DivModUnique
<1>9. PICK s \in Int, r \in 0 .. OffMod - 1 : e = (OffMod * s) + r /\ e % OffMod = r
  BY <1>2, DivMod
<1>10. PICK t \in Int : t = s + (m * (p + q)) /\ d = (OffMod * t) + r
  <2>1. (OffMod * m) * (p + q) = OffMod * (m * (p + q)) /\ m * (p + q) \in Int
    BY <1>2
  <2>2. OffMod * (s + (m * (p + q))) = (OffMod * s) + (OffMod * (m * (p + q)))
    BY <1>2, <2>1
  <2> QED
    BY <1>2, <1>6, <1>9, <2>1, <2>2
<1>11. d % OffMod = r
  BY <1>2, <1>10, DivModUnique
<1>12. AddrOf(l) - AddrOf(k) = D
  BY <1>1, <1>4
<1> QED
  BY <1>0, <1>5, <1>8, <1>9, <1>11, <1>12 DEF BranchOffset

\* Patching a branch leaves every decoding as it was: the patched word is the
\* first word of a jump, whose offset field is no memory offset.
LEMMA ApplyBranchFixupFacts ==
  ASSUME IInv, NEW x \in fixups, ResolveFixup(x), ApplyBranchFixup(x)
  PROVE  \E k \in DOMAIN source :
           /\ x = FixupOf(k) /\ IsJump(source[k]) /\ source[k].sym \in Blocks
           /\ labels[x.sym] \in Int
           /\ image' = [image EXCEPT ![k].off =
                          BranchOffset((labels[x.sym] - x.at) % AddrMod)]
           /\ image' \in Seq(Word) /\ Len(image') = Len(image)
           /\ \A j \in DOMAIN image : j # k => image'[j] = image[j]
           /\ image'[k] = [image[k] EXCEPT !.off =
                             BranchOffset((labels[x.sym] - x.at) % AddrMod)]
<1>1. PICK k \in DOMAIN source : source[k].sym # NoSym /\ x = FixupOf(k)
  BY DEF IInv, FixupsOwned
<1>2. source[k] \in MCInst /\ k \in 1 .. Len(image) /\ k \in Int /\ image[k] \in Word
  BY InstFacts
<1>3. x.at = AddrOf(k) /\ x.kind = FixupKind(source[k]) /\ x.sym = source[k].sym
  BY <1>1 DEF FixupOf
<1>4. PatchedSlot(x) = k
  BY <1>2, <1>3, SlotOfAddress DEF PatchedSlot
<1>5. source[k].fmt \notin {"CALL", "LD_IMM64"}
  BY <1>3 DEF ApplyBranchFixup, FixupKind
<1>6. IsJump(source[k]) /\ source[k].sym \in Blocks
  <2>1. source[k].sym \in SymsOf(source[k].fmt)
    BY <1>2, InstTypes
  <2> QED
    BY <2>1, <1>1, <1>5 DEF SymsOf, IsJump, JumpFormats
<1>7. labels[x.sym] \in Int
  <2>1. labels[x.sym] \in {Unplaced} \cup {AddrOf(m) : m \in 1 .. Len(image) + 1}
    BY <1>3, <1>6 DEF IInv, TypeOK
  <2> QED
    BY <2>1, <1>2 DEF Unplaced, AddrOf, WordBytes
<1> DEFINE off == BranchOffset((labels[x.sym] - x.at) % AddrMod)
           w == [image[k] EXCEPT !.off = off]
<1>8. off \in 0 .. OffMod - 1
  <2>1. x.at \in Int
    BY <1>2, <1>3, SlotOfAddress
  <2>2. PICK d \in Int : d = labels[x.sym] - x.at
    BY <1>7, <2>1
  <2>3. d % AddrMod \in Int
    BY <2>2, Widths, DivMod
  <2> QED
    BY <2>2, <2>3, BranchOffsetTyped
<1> HIDE DEF off
<1>9. w \in Word
  BY <1>2, <1>8 DEF Word
<1>10. image' = [image EXCEPT ![k] = w]
  BY <1>4 DEF ApplyBranchFixup, off, w
<1> HIDE DEF w
<1>11. /\ image' \in Seq(Word) /\ Len(image') = Len(image)
       /\ \A j \in 1 .. Len(image) : image'[j] = IF j = k THEN w ELSE image[j]
  BY <1>2, <1>9, <1>10, ExceptSeq DEF IInv, TypeOK
<1>12. DOMAIN image = 1 .. Len(image)
  BY InstFacts
<1> QED
  BY <1>1, <1>2, <1>4, <1>6, <1>7, <1>10, <1>11, <1>12 DEF w, off

LEMMA ResolveBranchInv ==
  ASSUME IInv, NEW x \in fixups, ResolveFixup(x), ApplyBranchFixup(x)
  PROVE  IInv'
<1>1. PICK k \in DOMAIN source :
        /\ x = FixupOf(k) /\ IsJump(source[k]) /\ source[k].sym \in Blocks
        /\ image' \in Seq(Word) /\ Len(image') = Len(image)
        /\ \A j \in DOMAIN image : j # k => image'[j] = image[j]
        /\ image'[k] = [image[k] EXCEPT !.off =
                          BranchOffset((labels[x.sym] - x.at) % AddrMod)]
  BY ApplyBranchFixupFacts
<1>2. /\ fixups' = fixups \ {x} /\ phase = "layout"
      /\ UNCHANGED <<labels, fn, source, relocs, phase>>
  BY DEF ResolveFixup, ApplyBranchFixup
<1>3. /\ Len(image) \in Nat /\ DOMAIN image = 1 .. Len(image) /\ DOMAIN image' = DOMAIN image
      /\ \A j \in DOMAIN source : j \in DOMAIN image /\ source[j] \in MCInst /\ j \in Int
      /\ image[k] \in Word
  BY <1>1, InstFacts, LenProperties
<1>4. /\ image'[k].opc = image[k].opc /\ image'[k].dst = image[k].dst
      /\ image'[k].src = image[k].src /\ image'[k].imm = image[k].imm
  BY <1>1, <1>3 DEF Word
<1>5. TypeOK'
  BY <1>1, <1>2, <1>3 DEF IInv, TypeOK
<1>6. SecondWords' /\ FixupsOwned' /\ NothingResolvedEarly' /\ SymbolsPlaced'
  BY <1>2, <1>3
  DEF IInv, SecondWords, FixupsOwned, NothingResolvedEarly, AllPending, SymbolsPlaced, FixupOf
<1>7. RelocsAccounted'
  <2>1. ASSUME NEW j \in DOMAIN source, source[j].sym \notin Blocks \cup {NoSym}
        PROVE  FixupOf(j) # x
    BY <1>1, <2>1 DEF FixupOf
  <2> QED
    BY <2>1, <1>2 DEF IInv, RelocsAccounted, FixupOf, RelocOf
<1>8. \A j \in DOMAIN source : DecodedFormat(image'[j]) = DecodedFormat(image[j])
  BY <1>1, <1>3, <1>4, ZenonT(30) DEF DecodedFormat, ClassOf, ModeOf, SizeBitsOf, NibbleOf, SrcBitOf
<1>9. InstructionsDecode'
  <2> SUFFICES ASSUME NEW j \in DOMAIN source
               PROVE  /\ OperationKept(source[j], image'[j])
                      /\ RegistersKept(source[j], image'[j])
                      /\ FitsOffset(source[j]) => OffsetKept(source[j], image'[j])
                      /\ IF source[j].fmt = "LD_IMM64"
                         THEN /\ j + 1 \in DOMAIN image'
                              /\ WideImmediateKept(source[j], image'[j], image'[j + 1])
                         ELSE FitsImmediate(source[j]) => ImmediateKept(source[j], image'[j])
    BY <1>2 DEF InstructionsDecode
  <2>1. CASE j = k
    <3>1. source[j].fmt \notin MemFormats \cup {"LD_IMM64"}
      BY <1>1, <2>1 DEF IsJump, JumpFormats, MemFormats
    <3>2. DecodedOp(image'[j]) = DecodedOp(image[j])
      BY <1>4, <1>8, <2>1 DEF DecodedOp, NibbleOf, SizeBitsOf
    <3> QED
      BY <1>4, <1>8, <2>1, <3>1, <3>2
      DEF IInv, InstructionsDecode, OperationKept, RegistersKept, OffsetKept, ImmediateKept
  <2>2. CASE j # k
    <3>1. image'[j] = image[j]
      BY <1>1, <1>3, <2>2
    <3>2. source[j].fmt = "LD_IMM64" => image'[j + 1] = image[j + 1]
      BY <1>1 DEF IInv, SecondWords
    <3> QED
      BY <1>3, <3>1, <3>2 DEF IInv, InstructionsDecode
  <2> QED
    BY <2>1, <2>2
<1>10. LabelsOnInstructions'
  BY <1>2, <1>8 DEF IInv, LabelsOnInstructions, Width
<1> QED
  BY <1>2, <1>5, <1>6, <1>7, <1>9, <1>10 DEF IInv

\* A section relative fixup becomes a relocation of the type its instruction
\* needs, and leaves the section alone.
LEMMA ResolveSecRelInv ==
  ASSUME IInv, NEW x \in fixups, ResolveFixup(x), ApplySecRelFixup(x)
  PROVE  IInv'
<1>1. PICK k \in DOMAIN source : source[k].sym # NoSym /\ x = FixupOf(k)
  BY DEF IInv, FixupsOwned
<1>2. /\ x.at = AddrOf(k) /\ x.kind = FixupKind(source[k]) /\ x.sym = source[k].sym
      /\ source[k] \in MCInst
  BY <1>1, InstFacts DEF FixupOf
<1>3. source[k].fmt \in {"CALL", "LD_IMM64"}
  BY <1>2 DEF ApplySecRelFixup, FixupKind
<1>4. source[k].sym \notin Blocks \cup {NoSym}
  BY <1>1, <1>2, <1>3, InstTypes, SymbolAssumption DEF SymsOf, JumpFormats
<1>5. [at |-> x.at, type |-> GetRelocType(x.kind), sym |-> x.sym] = RelocOf(k)
  BY <1>2, <1>3 DEF GetRelocType, FixupKind, RelocOf
<1>6. /\ fixups' = fixups \ {x} /\ phase = "layout" /\ phase' \in {"layout", "aborted"}
      /\ relocs' = relocs \cup {RelocOf(k)}
      /\ UNCHANGED <<labels, fn, source, image>>
  BY <1>5 DEF ResolveFixup, ApplySecRelFixup
<1>7. TypeOK'
  <2>1. x.sym \in Symbols
    BY DEF IInv, TypeOK
  <2>2. (RelocOf(k)).type \in RelocTypes /\ (RelocOf(k)).sym \in Symbols
    BY <1>2, <2>1 DEF RelocOf, RelocTypes
  <2> QED
    BY <1>6, <2>2 DEF IInv, TypeOK
<1>8. SecondWords' /\ FixupsOwned' /\ NothingResolvedEarly' /\ SymbolsPlaced'
  BY <1>6
  DEF IInv, SecondWords, FixupsOwned, NothingResolvedEarly, AllPending, SymbolsPlaced, FixupOf
<1>9. RelocsAccounted'
  <2>1. \A j \in DOMAIN source : FixupOf(j) = x => j = k
    BY <1>1, InstFacts DEF FixupOf, AddrOf, WordBytes
  <2> QED
    BY <2>1, <1>1, <1>4, <1>6 DEF IInv, RelocsAccounted, FixupOf, RelocOf
<1>10. InstructionsDecode' /\ LabelsOnInstructions'
  BY <1>6 DEF IInv, InstructionsDecode, LabelsOnInstructions
<1> QED
  BY <1>6, <1>7, <1>8, <1>9, <1>10 DEF IInv

\* No step breaks the invariant.
LEMMA StepInv == IInv /\ [Next]_vars => IInv'
<1> SUFFICES ASSUME IInv, [Next]_vars PROVE IInv'
  OBVIOUS
<1>1. CASE Next
  BY <1>1, BeginFunctionInv, EmitLabelInv, EncodeInstructionInv, FinishLayoutInv,
     ResolveBranchInv, ResolveSecRelInv, WriteObjectInv
  DEF Next, ResolveFixup
<1>2. CASE UNCHANGED vars
  BY <1>2
  DEF vars, IInv, TypeOK, SecondWords, FixupsOwned, NothingResolvedEarly,
      AllPending, SymbolsPlaced, RelocsAccounted, InstructionsDecode,
      LabelsOnInstructions, FixupOf, RelocOf
<1> QED
  BY <1>1, <1>2

\* The invariant holds throughout.
LEMMA Invariance == Spec => []IInv
BY InitInv, StepInv, PTL DEF Spec

-----------------------------------------------------------------------------
(***************************************************************************)
(* The theorems.                                                           *)
(***************************************************************************)

\* Every field of every word that EncodeInstruction, writeNopData and
\* applyFixup write fits its width, in every reachable state.
THEOREM TypeCorrect == Spec => []TypeOK
<1>1. IInv => TypeOK
  BY DEF IInv
<1> QED
  BY <1>1, Invariance, PTL

\* BPFMCCodeEmitter's words decode to the instruction they were built from,
\* whatever the field widths, and applyFixup never changes that.
THEOREM EncodingFaithful == Spec => []InstructionsDecode
<1>1. IInv => InstructionsDecode
  BY DEF IInv
<1> QED
  BY <1>1, Invariance, PTL

\* No label, and so no resolved jump, points into the middle of an LD_imm64,
\* the only instruction EncodeInstruction writes as two words.
THEOREM LabelsSound == Spec => []LabelsOnInstructions
<1>1. IInv => LabelsOnInstructions
  BY DEF IInv
<1> QED
  BY <1>1, Invariance, PTL

\* GetRelocType: the object has the relocations its references need.
THEOREM RelocationsExact == Spec => []RelocsExact
<1>1. IInv => RelocsExact
  <2> SUFFICES ASSUME IInv, phase = "done" PROVE relocs = NeededRelocs
    BY DEF RelocsExact
  <2>1. fixups = {}
    BY DEF IInv
  <2>2. NeededRelocs = {RelocOf(k) : k \in {n \in DOMAIN source : source[n].sym \notin Blocks \cup {NoSym}}}
    BY DEF NeededRelocs, RelocOf
  <2>3. \A k \in DOMAIN source : source[k].sym \notin Blocks \cup {NoSym} => RelocOf(k) \in relocs
    BY <2>1 DEF IInv, RelocsAccounted
  <2>4. \A r \in relocs : \E k \in DOMAIN source :
          source[k].sym \notin Blocks \cup {NoSym} /\ r = RelocOf(k)
    BY DEF IInv, RelocsAccounted
  <2> QED
    BY <2>2, <2>3, <2>4
<1> QED
  BY <1>1, Invariance, PTL

-----------------------------------------------------------------------------
(***************************************************************************)
(* Branches land on their blocks.                                          *)
(***************************************************************************)

\* A fixup is identified by the instruction it patches.
LEMMA FixupAt ==
  ASSUME IInv, NEW k \in DOMAIN source, NEW x \in fixups, x.at = AddrOf(k)
  PROVE  x = FixupOf(k)
<1>1. PICK j \in DOMAIN source : x = FixupOf(j)
  BY DEF IInv, FixupsOwned
<1>2. j \in Int /\ k \in Int /\ AddrOf(j) = AddrOf(k)
  BY <1>1, InstFacts DEF FixupOf
<1> QED
  BY <1>1, <1>2 DEF AddrOf, WordBytes

\* The fixup of a jump is the pc-relative one.
LEMMA JumpFixup ==
  ASSUME IInv, NEW k \in DOMAIN source, IsJump(source[k])
  PROVE  /\ FixupOf(k) = [at |-> AddrOf(k), kind |-> "FK_PCRel_2", sym |-> source[k].sym]
         /\ source[k].sym \in Blocks /\ source[k].sym # NoSym
<1>1. source[k].sym \in SymsOf(source[k].fmt)
  BY InstFacts, InstTypes
<1> QED
  BY <1>1, SymbolAssumption
  DEF FixupOf, FixupKind, IsJump, JumpFormats, SymsOf

\* While every symbol operand has its fixup, no jump is resolved.
LEMMA PendingJumps == IInv /\ AllPending => JumpsLand
<1> SUFFICES ASSUME IInv, AllPending, NEW k \in DOMAIN source, IsJump(source[k])
             PROVE  /\ ~Resolved(k)
                    /\ [at |-> AddrOf(k), kind |-> "FK_PCRel_2", sym |-> source[k].sym]
                          \in fixups
  BY DEF JumpsLand
<1>1. FixupOf(k) \in fixups /\ (FixupOf(k)).at = AddrOf(k)
  BY JumpFixup DEF FixupOf, AllPending
<1> QED
  BY <1>1, JumpFixup DEF Resolved

\* A branch lands on its block once its fixup is applied, if the offset field
\* can address the section.
LEMMA PatchedBranchLands ==
  ASSUME IInv, 2 * MaxSlots <= OffMod, NEW k \in DOMAIN source, IsJump(source[k]),
         labels[source[k].sym] # Unplaced, NEW w,
         w.off = BranchOffset((labels[source[k].sym] - AddrOf(k)) % AddrMod)
  PROVE  AddrOf(k + 1) + WordBytes * SExt(w.off, OffMod) = labels[source[k].sym]
<1>1. /\ k \in 1 .. Len(image) /\ Len(image) \in Nat /\ Len(image) <= MaxSlots
      /\ MaxSlots \in Nat /\ OffMod \in Nat \ {0} /\ OffMod % 2 = 0
  BY InstFacts, Widths, LayoutAssumption DEF IInv, TypeOK
<1>2. PICK l \in 1 .. Len(image) + 1 : labels[source[k].sym] = AddrOf(l)
  BY JumpFixup DEF IInv, TypeOK
<1>3. PICK d \in Int : d = l - k - 1
  BY <1>1
<1>4. w.off = d % OffMod
  <2>1. BranchOffset((AddrOf(l) - AddrOf(k)) % AddrMod) = (l - k - 1) % OffMod
    <3>1. l \in Int /\ k \in Int
      BY <1>1
    <3> QED
      BY <3>1, BranchOffsetIsDistance
  <2> QED
    BY <1>2, <1>3, <2>1
<1>5. d \in SignedRange(OffMod)
  <2>1. -OffMod <= 2 * d /\ 2 * d < OffMod
    BY <1>1, <1>3
  <2> QED
    BY <1>1, <2>1, HalfRange
<1>6. SExt(w.off, OffMod) = d
  BY <1>1, <1>4, <1>5, SExtRoundTrip
<1> QED
  BY <1>1, <1>2, <1>3, <1>6, SMTT(30) DEF AddrOf, WordBytes

\* Resolving one fixup lands its jump and leaves the others as they are.
LEMMA ResolveKeepsJumps ==
  ASSUME IInv, JumpsLand, 2 * MaxSlots <= OffMod, NEW x \in fixups, ResolveFixup(x)
  PROVE  JumpsLand'
<1>1. PICK k \in DOMAIN source : source[k].sym # NoSym /\ x = FixupOf(k)
  BY DEF IInv, FixupsOwned
<1>2. /\ fixups' = fixups \ {x} /\ phase = "layout" /\ phase' # "emit"
      /\ UNCHANGED <<labels, source>>
  BY DEF ResolveFixup, ApplyBranchFixup, ApplySecRelFixup
<1>3. ASSUME NEW j \in DOMAIN source, j # k
      PROVE  Resolved(j)' <=> Resolved(j)
  <2>1. x.at # AddrOf(j)
    BY <1>1, <1>3, InstFacts DEF FixupOf, AddrOf, WordBytes
  <2> QED
    BY <1>2, <2>1 DEF Resolved
<1>4. ASSUME NEW j \in DOMAIN source, j # k PROVE image'[j] = image[j]
  <2>1. CASE ApplyBranchFixup(x)
    <3>1. PICK m \in DOMAIN source : x = FixupOf(m) /\
            \A n \in DOMAIN image : n # m => image'[n] = image[n]
      BY <2>1, ApplyBranchFixupFacts
    <3>2. m = k
      BY <1>1, <3>1, InstFacts DEF FixupOf, AddrOf, WordBytes
    <3> QED
      BY <1>4, <3>1, <3>2, InstFacts
  <2>2. CASE ApplySecRelFixup(x)
    BY <2>2 DEF ApplySecRelFixup
  <2> QED
    BY <2>1, <2>2 DEF ResolveFixup
<1>5. ASSUME NEW j \in DOMAIN source', IsJump(source'[j])
      PROVE  IF Resolved(j)'
             THEN phase' # "emit" /\ TargetOf(j)' = labels'[source'[j].sym]
             ELSE [at |-> AddrOf(j), kind |-> "FK_PCRel_2", sym |-> source'[j].sym] \in fixups'
  <2>1. CASE j = k
    <3>1. Resolved(k)'
      <4>1. \A y \in fixups : y.at = AddrOf(k) => y = x
        BY <1>1, FixupAt
      <4> QED
        BY <1>2, <4>1 DEF Resolved
    <3>2. x.kind = "FK_PCRel_2" /\ x.at = AddrOf(k) /\ x.sym = source[k].sym
      BY <1>1, <1>2, <1>5, <2>1, JumpFixup DEF FixupOf
    <3>3. ApplyBranchFixup(x)
      BY <3>2 DEF ResolveFixup, ApplySecRelFixup
    <3>4. labels[source[k].sym] # Unplaced
      <4>1. source[k].sym \in Blocks
        BY <1>2, <1>5, <2>1, JumpFixup
      <4> QED
        BY <1>2, <3>2, <4>1 DEF IInv, SymbolsPlaced
    <3>5. image'[k].off = BranchOffset((labels[source[k].sym] - AddrOf(k)) % AddrMod)
      <4>1. PICK m \in DOMAIN source : x = FixupOf(m) /\
              image'[m] = [image[m] EXCEPT !.off =
                             BranchOffset((labels[x.sym] - x.at) % AddrMod)]
        BY <3>3, ApplyBranchFixupFacts
      <4>2. m = k
        BY <1>1, <4>1, InstFacts DEF FixupOf, AddrOf, WordBytes
      <4>3. image[k] \in Word
        BY InstFacts
      <4> QED
        BY <3>2, <4>1, <4>2, <4>3 DEF Word
    <3>6. IsJump(source[k])
      BY <1>2, <1>5, <2>1
    <3>7. AddrOf(k + 1) + WordBytes * SExt(image'[k].off, OffMod) = labels[source[k].sym]
      BY <3>4, <3>5, <3>6, PatchedBranchLands
    <3> QED
      BY <1>2, <2>1, <3>1, <3>7 DEF TargetOf
  <2>2. CASE j # k
    <3>1. [at |-> AddrOf(j), kind |-> "FK_PCRel_2", sym |-> source[j].sym] # x
      BY <1>1, <1>2, <2>2, InstFacts DEF FixupOf, AddrOf, WordBytes
    <3> QED
      BY <1>2, <1>3, <1>4, <1>5, <2>2, <3>1 DEF JumpsLand, TargetOf
  <2> QED
    BY <2>1, <2>2
<1> QED
  BY <1>5 DEF JumpsLand

\* Every branch that applyFixup resolves goes to the block it names, in every
\* section the offset field can address: half its range in words each way.
THEOREM BranchesLand == 2 * MaxSlots <= OffMod => (Spec => []JumpsLand)
<1> SUFFICES ASSUME 2 * MaxSlots <= OffMod PROVE Spec => []JumpsLand
  OBVIOUS
<1>1. Init => JumpsLand
  BY DEF Init, JumpsLand
<1>2. IInv /\ IInv' /\ JumpsLand /\ [Next]_vars => JumpsLand'
  <2> SUFFICES ASSUME IInv, IInv', JumpsLand, [Next]_vars PROVE JumpsLand'
    OBVIOUS
  <2>1. ASSUME AllPending' PROVE JumpsLand'
    BY <2>1, PendingJumps, PTL
  <2>2. CASE phase' = "emit"
    BY <2>1, <2>2 DEF IInv, NothingResolvedEarly
  <2>3. CASE FinishLayout
    BY <2>1, <2>3 DEF FinishLayout, IInv, NothingResolvedEarly, AllPending, FixupOf
  <2>4. ASSUME NEW x \in fixups, ResolveFixup(x) PROVE JumpsLand'
    BY <2>4, ResolveKeepsJumps
  <2>5. CASE WriteObject
    BY <2>5 DEF WriteObject, JumpsLand, Resolved, TargetOf
  <2>6. CASE UNCHANGED vars
    BY <2>6 DEF vars, JumpsLand, Resolved, TargetOf
  <2> QED
    BY <2>2, <2>3, <2>4, <2>5, <2>6
    DEF Next, BeginFunction, EmitLabel, EncodeInstruction
<1>3. IInv /\ JumpsLand /\ [Next]_vars => (IInv /\ JumpsLand)'
  BY <1>2, StepInv
<1> QED
  BY <1>1, <1>3, InitInv, PTL DEF Spec

\* What is emitted stays, but for the offset of the branch being resolved.
LEMMA EmittedWordsStay == IInv /\ [Next]_vars => OnlyBranchOffsetsChange
<1> SUFFICES ASSUME IInv, [Next]_vars PROVE OnlyBranchOffsetsChange
  OBVIOUS
<1> USE DEF OnlyBranchOffsetsChange
<1>1. ASSUME NEW s \in Seq(Word), image' = image \o s PROVE OnlyBranchOffsetsChange
  BY <1>1, GrowImage DEF IInv
<1>2. ASSUME NEW f \in Funcs, NEW a \in Aligns, BeginFunction(f, a)
      PROVE  OnlyBranchOffsetsChange
  BY <1>1, <1>2, PaddingWords DEF BeginFunction, IInv
<1>3. ASSUME NEW i \in Instrs, EncodeInstruction(i) PROVE OnlyBranchOffsetsChange
  BY <1>1, <1>3, WordsOf, InstrsAssumption DEF EncodeInstruction
<1>4. ASSUME NEW x \in fixups, ResolveFixup(x), ApplyBranchFixup(x)
      PROVE  OnlyBranchOffsetsChange
  <2>1. PICK k \in DOMAIN source :
          /\ x = FixupOf(k) /\ IsJump(source[k])
          /\ image' \in Seq(Word) /\ Len(image') = Len(image)
          /\ \A j \in DOMAIN image : j # k => image'[j] = image[j]
          /\ image'[k] = [image[k] EXCEPT !.off =
                            BranchOffset((labels[x.sym] - x.at) % AddrMod)]
    BY <1>4, ApplyBranchFixupFacts
  <2>2. ~Resolved(k)
    BY <2>1 DEF Resolved, FixupOf
  <2>3. Resolved(k)'
    <3>1. \A y \in fixups : y.at = AddrOf(k) => y = x
      BY <2>1, FixupAt
    <3>2. fixups' = fixups \ {x}
      BY <1>4 DEF ResolveFixup
    <3> QED
      BY <3>1, <3>2 DEF Resolved
  <2>4. DOMAIN image' = DOMAIN image /\ image[k] \in Word
    BY <2>1, InstFacts, LenProperties
  <2>5. image'[k] = [image[k] EXCEPT !.off = image'[k].off]
    BY <2>1, <2>4 DEF Word
  <2> QED
    BY <2>1, <2>2, <2>3, <2>4, <2>5
<1>5. ASSUME UNCHANGED image PROVE OnlyBranchOffsetsChange
  BY <1>5
<1> QED
  BY <1>2, <1>3, <1>4, <1>5
  DEF Next, EmitLabel, FinishLayout, ResolveFixup, ApplySecRelFixup, WriteObject, vars

\* applyFixup writes two bytes of one branch, and nothing else ever rewrites
\* a word that has been emitted.
THEOREM FixupsTouchOnlyBranches == Spec => OnlyBranchOffsetsPatched
BY EmittedWordsStay, Invariance, PTL DEF Spec, OnlyBranchOffsetsPatched

-----------------------------------------------------------------------------
(***************************************************************************)
(* What the assertion of applyFixup stops.                                 *)
(***************************************************************************)
Misplaced(k) == source[k].sym \in StaticFuncs /\ labels[source[k].sym] # 0

\* While fixups are resolved, an instruction that the object cannot express has
\* its fixup still to come; afterwards there is one if and only if the compiler
\* was stopped.
MisplacedInv ==
  /\ phase = "layout"  => \A k \in DOMAIN source : Misplaced(k) => FixupOf(k) \in fixups
  /\ phase = "aborted" => \E k \in DOMAIN source : Misplaced(k)
  /\ phase = "done"    => \A k \in DOMAIN source : ~Misplaced(k)

LEMMA ResolveKeepsMisplaced ==
  ASSUME IInv, MisplacedInv, NEW x \in fixups, ResolveFixup(x)
  PROVE  MisplacedInv'
<1>1. /\ phase = "layout" /\ fixups' = fixups \ {x} /\ UNCHANGED <<labels, source>>
      /\ phase' \in {"layout", "aborted"}
  BY DEF ResolveFixup, ApplyBranchFixup, ApplySecRelFixup
<1>2. PICK k \in DOMAIN source : source[k].sym # NoSym /\ x = FixupOf(k)
  BY DEF IInv, FixupsOwned
<1>3. \A j \in DOMAIN source : Misplaced(j)' <=> Misplaced(j)
  BY <1>1 DEF Misplaced
<1>4. ASSUME NEW j \in DOMAIN source PROVE FixupOf(j)' = FixupOf(j)
  BY <1>1 DEF FixupOf
<1>5. \A j \in DOMAIN source : j # k => FixupOf(j) # x
  BY <1>2, InstFacts DEF FixupOf, AddrOf, WordBytes
<1>6. CASE ApplyBranchFixup(x)
  <2>1. PICK m \in DOMAIN source : x = FixupOf(m) /\ IsJump(source[m])
    BY <1>6, <1>1, ApplyBranchFixupFacts
  <2>2. m = k
    BY <1>5, <2>1
  <2>3. ~Misplaced(k)
    BY <2>1, <2>2, JumpFixup, SymbolAssumption, InstrsAssumption DEF Misplaced
  <2> QED BY <1>1, <1>3, <1>4, <1>5, <1>6, <2>3 DEF MisplacedInv, ApplyBranchFixup
<1>7. CASE ApplySecRelFixup(x)
  <2>1. x.sym = source[k].sym
    BY <1>2 DEF FixupOf
  <2>2. phase' = "aborted" <=> Misplaced(k)
    BY <1>7, <2>1 DEF ApplySecRelFixup, FixedValue, Misplaced
  <2> QED BY <1>1, <1>3, <1>4, <1>5, <2>2 DEF MisplacedInv
<1> QED BY <1>6, <1>7 DEF ResolveFixup

\* The compiler is stopped for exactly the sections whose references to local
\* functions the object format cannot express.
THEOREM AbortsForMisplaced == Spec => []AbortsExactly
<1>1. Init => MisplacedInv
  BY DEF Init, MisplacedInv
<1>2. IInv /\ MisplacedInv /\ [Next]_vars => MisplacedInv'
  <2> SUFFICES ASSUME IInv, MisplacedInv, [Next]_vars PROVE MisplacedInv'
    OBVIOUS
  <2>1. CASE phase' = "emit"
    BY <2>1 DEF MisplacedInv
  <2>2. CASE FinishLayout
    <3>1. \A k \in DOMAIN source : Misplaced(k) => source[k].sym # NoSym
      BY SymbolAssumption, InstrsAssumption DEF Misplaced
    <3>2. AllPending /\ phase' = "layout" /\ UNCHANGED <<fixups, labels, source>>
      BY <2>2 DEF FinishLayout, IInv, NothingResolvedEarly
    <3> QED BY <3>1, <3>2 DEF MisplacedInv, AllPending, Misplaced, FixupOf
  <2>3. ASSUME NEW x \in fixups, ResolveFixup(x) PROVE MisplacedInv'
    BY <2>3, ResolveKeepsMisplaced
  <2>4. CASE WriteObject
    BY <2>4 DEF WriteObject, MisplacedInv, Misplaced
  <2>5. CASE UNCHANGED vars
    BY <2>5 DEF vars, MisplacedInv, Misplaced, FixupOf
  <2> QED
    BY <2>1, <2>2, <2>3, <2>4, <2>5 DEF Next, BeginFunction, EmitLabel, EncodeInstruction
<1>3. MisplacedInv => AbortsExactly
  BY DEF MisplacedInv, Misplaced, AbortsExactly
<1>4. IInv /\ MisplacedInv /\ [Next]_vars => (IInv /\ MisplacedInv)'
  BY <1>2, StepInv
<1> QED BY <1>1, <1>3, <1>4, InitInv, PTL DEF Spec

-----------------------------------------------------------------------------
(***************************************************************************)
(* The text.  What BPFMCInstLower::Lower leaves of the operands, what is   *)
(* then printed of each format, and that the words of the section say the  *)
(* same.                                                                   *)
(***************************************************************************)

\* The operands that are lowered, and those that are skipped.
Lowered(o) == o.k \in {"reg", "imm", "block", "global"}
Skipped(o) == o.k \in {"mask", "implicit"}
McOperand(o) == IF o.k \in {"block", "global"} THEN Expr(o.v) ELSE o

\* One operand becomes one, or none.
LEMMA LowerOperandIs ==
  ASSUME NEW o
  PROVE  /\ Lowered(o) => LowerOperand(o) = <<McOperand(o)>>
         /\ Skipped(o) => LowerOperand(o) = << >>
<1>1. CASE o.k \in {"block", "global"}
  BY <1>1 DEF Lowered, Skipped, LowerOperand, McOperand
<1>2. CASE o.k \in {"reg", "imm"}
  BY <1>2 DEF Lowered, Skipped, LowerOperand, McOperand
<1>3. CASE o.k \in {"mask", "implicit"}
  BY <1>3 DEF Lowered, Skipped, LowerOperand
<1> QED
  BY <1>1, <1>2, <1>3 DEF Lowered, Skipped

\* What is left of the first i operands when the first m are lowered.
PrefixOf(f, S, ops, m, i) ==
  /\ f \in Seq(S) /\ Len(f) = IF i <= m THEN i ELSE m
  /\ \A j \in 1 .. m : j <= i => f[j] = McOperand(ops[j])

\* Lower keeps the explicit operands and drops the implicit ones behind them.
LEMMA LowerKeeps ==
  ASSUME NEW ops, NEW n \in Nat \ {0}, DOMAIN ops = 1 .. n, NEW m \in 1 .. n,
         \A j \in 1 .. m : Lowered(ops[j]),
         \A j \in m + 1 .. n : Skipped(ops[j])
  PROVE  Len(Lower(ops)) = m /\ \A j \in 1 .. m : Lower(ops)[j] = McOperand(ops[j])
<1> DEFINE seqs == [j \in DOMAIN ops |-> LowerOperand(ops[j])]
           S == {McOperand(ops[j]) : j \in 1 .. m}
<1>1. seqs \in Seq({LowerOperand(ops[j]) : j \in 1 .. n})
  BY SeqDef
<1>2. Len(seqs) = n
  <2>1. DOMAIN seqs = 1 .. Len(seqs) /\ Len(seqs) \in Nat
    BY <1>1, LenProperties
  <2>2. DOMAIN seqs = 1 .. n
    OBVIOUS
  <2> QED
    BY <2>1, <2>2
<1>3. /\ \A j \in 1 .. m : seqs[j] = <<McOperand(ops[j])>>
      /\ \A j \in m + 1 .. n : seqs[j] = << >>
  <2>1. \A j \in 1 .. n : seqs[j] = LowerOperand(ops[j])
    OBVIOUS
  <2>2. \A j \in 1 .. m : j \in 1 .. n
    OBVIOUS
  <2>3. \A j \in m + 1 .. n : j \in 1 .. n
    OBVIOUS
  <2> QED
    BY <2>1, <2>2, <2>3, LowerOperandIs
<1>4. Lower(ops) = FlattenSeq(seqs)
  BY DEF Lower
<1> HIDE DEF seqs
<1>5. PICK flat : Partial(seqs, n, flat) /\ FlattenSeq(seqs) = flat[n]
  <2>1. Len(seqs) \in Nat /\ Len(seqs) > 0
    BY <1>2
  <2>2. PICK flat : Partial(seqs, Len(seqs), flat) /\ FlattenSeq(seqs) = flat[Len(seqs)]
    BY <2>1, FlattenSeqParts
  <2> QED
    BY <1>2, <2>2
<1>6. flat[1] = seqs[1] /\ \A i \in 1 .. n : i # 1 => flat[i] = flat[i - 1] \o seqs[i]
  <2>1. 1 \in 1 .. n
    OBVIOUS
  <2> QED
    BY <1>5, <2>1 DEF Partial
<1> DEFINE T == {i \in Nat : i < n => PrefixOf(flat[i + 1], S, ops, m, i + 1)}
<1>7. \A j \in 1 .. m : McOperand(ops[j]) \in S
  OBVIOUS
<1> HIDE DEF S
<1>8. 0 \in T
  <2>1. PICK u \in Seq(S) : u = <<McOperand(ops[1])>> /\ Len(u) = 1 /\ u[1] = McOperand(ops[1])
    BY <1>7, Singleton
  <2>2. flat[1] = u
    BY <1>3, <1>6, <2>1
  <2>3. PrefixOf(flat[1], S, ops, m, 1)
    BY <2>1, <2>2 DEF PrefixOf
  <2> QED
    BY <2>3
<1>9. ASSUME NEW i \in Nat, i \in T PROVE i + 1 \in T
  <2> SUFFICES ASSUME i + 1 < n PROVE PrefixOf(flat[i + 2], S, ops, m, i + 2)
    OBVIOUS
  <2> DEFINE f == flat[i + 1]
  <2>1. PrefixOf(f, S, ops, m, i + 1)
    BY <1>9
  <2>2. i + 2 \in 1 .. n /\ i + 2 # 1 /\ (i + 2) - 1 = i + 1
    OBVIOUS
  <2>3. flat[i + 2] = f \o seqs[i + 2]
    BY <1>6, <2>2
  <2> HIDE DEF f
  <2>4. CASE i + 2 <= m
    <3> DEFINE e == McOperand(ops[i + 2])
    <3>1. i + 2 \in 1 .. m
      BY <2>4
    <3>2. e \in S /\ seqs[i + 2] = <<e>>
      BY <3>1, <1>3, <1>7
    <3> HIDE DEF e
    <3>3. f \in Seq(S) /\ Len(f) = i + 1 /\ \A j \in 1 .. m : j <= i + 1 => f[j] = McOperand(ops[j])
      BY <2>1, <2>4 DEF PrefixOf
    <3> DEFINE g == f \o <<e>>
    <3>4. /\ g \in Seq(S) /\ Len(g) = i + 2
          /\ \A j \in 1 .. i + 1 : g[j] = f[j]
          /\ g[i + 2] = e
      <4>1. (i + 1) + 1 = i + 2
        OBVIOUS
      <4> QED
        BY <3>2, <3>3, <4>1, OneMore
    <3> HIDE DEF g
    <3>5. ASSUME NEW j \in 1 .. m, j <= i + 2 PROVE g[j] = McOperand(ops[j])
      <4>1. CASE j = i + 2
        BY <3>4, <4>1 DEF e
      <4>2. CASE j # i + 2
        <5>1. j \in 1 .. i + 1 /\ j <= i + 1
          BY <3>5, <4>2
        <5> QED
          BY <3>3, <3>4, <5>1
      <4> QED
        BY <4>1, <4>2
    <3>6. PrefixOf(g, S, ops, m, i + 2)
      BY <3>4, <3>5, <2>4 DEF PrefixOf
    <3> QED
      BY <2>3, <3>2, <3>6 DEF g
  <2>5. CASE ~(i + 2 <= m)
    <3>1. i + 2 \in m + 1 .. n
      BY <2>2, <2>5
    <3>2. flat[i + 2] = f
      BY <1>3, <2>1, <2>3, <3>1, ConcatEmptySeq DEF PrefixOf
    <3> QED
      BY <2>1, <2>5, <3>2 DEF PrefixOf
  <2> QED
    BY <2>4, <2>5
<1>10. Nat \subseteq T
  BY <1>8, <1>9, SetInduction
<1>11. PrefixOf(flat[n], S, ops, m, n)
  <2>1. n - 1 \in Nat /\ n - 1 < n /\ (n - 1) + 1 = n
    OBVIOUS
  <2>2. n - 1 \in T
    <3> HIDE DEF T
    <3> QED
      BY <1>10, <2>1
  <2> QED
    BY <2>1, <2>2
<1> QED
  BY <1>4, <1>5, <1>11 DEF PrefixOf

\* Operands that are all explicit.
AllExplicit(ops, n) == DOMAIN ops = 1 .. n /\ \A j \in 1 .. n : Lowered(ops[j])
AllLowered(ops, n)  ==
  Len(Lower(ops)) = n /\ \A j \in 1 .. n : Lower(ops)[j] = McOperand(ops[j])

\* Nothing is skipped of operands that are all explicit.
LEMMA LowerAll ==
  ASSUME NEW ops, NEW n \in 1 .. 4, AllExplicit(ops, n)
  PROVE  AllLowered(ops, n)
<1>1. DOMAIN ops = 1 .. n /\ n \in 1 .. n /\ n \in Nat \ {0}
  BY DEF AllExplicit
<1>2. \A j \in 1 .. n : Lowered(ops[j])
  BY DEF AllExplicit
<1>3. \A j \in n + 1 .. n : Skipped(ops[j])
  OBVIOUS
<1> QED
  BY <1>1, <1>2, <1>3, LowerKeeps DEF AllLowered

\* The same for the numbers of operands there are.
LEMMA LowerOne ==
  ASSUME NEW a, Lowered(a)
  PROVE  /\ Len(Lower(<<a>>)) = 1
         /\ Lower(<<a>>)[1] = McOperand(a)
<1> PICK ops : ops = <<a>>
  OBVIOUS
<1>1. DOMAIN ops = 1 .. 1 /\ ops[1] = a
  OBVIOUS
<1>2. AllExplicit(ops, 1)
  BY <1>1 DEF AllExplicit
<1>3. 1 \in 1 .. 4
  OBVIOUS
<1>4. AllLowered(ops, 1)
  BY <1>2, <1>3, LowerAll, Zenon
<1> QED
  BY <1>1, <1>4 DEF AllLowered

LEMMA LowerTwo ==
  ASSUME NEW a, Lowered(a), NEW b, Lowered(b)
  PROVE  /\ Len(Lower(<<a, b>>)) = 2
         /\ Lower(<<a, b>>)[1] = McOperand(a)
         /\ Lower(<<a, b>>)[2] = McOperand(b)
<1> PICK ops : ops = <<a, b>>
  OBVIOUS
<1>1. DOMAIN ops = 1 .. 2 /\ ops[1] = a /\ ops[2] = b
  OBVIOUS
<1>2. AllExplicit(ops, 2)
  BY <1>1 DEF AllExplicit
<1>3. 2 \in 1 .. 4
  OBVIOUS
<1>4. AllLowered(ops, 2)
  BY <1>2, <1>3, LowerAll, Zenon
<1> QED
  BY <1>1, <1>4 DEF AllLowered

LEMMA LowerThree ==
  ASSUME NEW a, Lowered(a), NEW b, Lowered(b), NEW c, Lowered(c)
  PROVE  /\ Len(Lower(<<a, b, c>>)) = 3
         /\ Lower(<<a, b, c>>)[1] = McOperand(a)
         /\ Lower(<<a, b, c>>)[2] = McOperand(b)
         /\ Lower(<<a, b, c>>)[3] = McOperand(c)
<1> PICK ops : ops = <<a, b, c>>
  OBVIOUS
<1>1. DOMAIN ops = 1 .. 3 /\ ops[1] = a /\ ops[2] = b /\ ops[3] = c
  OBVIOUS
<1>2. AllExplicit(ops, 3)
  BY <1>1 DEF AllExplicit
<1>3. 3 \in 1 .. 4
  OBVIOUS
<1>4. AllLowered(ops, 3)
  BY <1>2, <1>3, LowerAll, Zenon
<1> QED
  BY <1>1, <1>4 DEF AllLowered

LEMMA LowerFour ==
  ASSUME NEW a, Lowered(a), NEW b, Lowered(b), NEW c, Lowered(c), NEW d, Lowered(d)
  PROVE  /\ Len(Lower(<<a, b, c, d>>)) = 4
         /\ Lower(<<a, b, c, d>>)[1] = McOperand(a)
         /\ Lower(<<a, b, c, d>>)[2] = McOperand(b)
         /\ Lower(<<a, b, c, d>>)[3] = McOperand(c)
         /\ Lower(<<a, b, c, d>>)[4] = McOperand(d)
<1> PICK ops : ops = <<a, b, c, d>>
  OBVIOUS
<1>1. DOMAIN ops = 1 .. 4 /\ ops[1] = a /\ ops[2] = b /\ ops[3] = c /\ ops[4] = d
  OBVIOUS
<1>2. AllExplicit(ops, 4)
  BY <1>1 DEF AllExplicit
<1>3. 4 \in 1 .. 4
  OBVIOUS
<1>4. AllLowered(ops, 4)
  BY <1>2, <1>3, LowerAll, Zenon
<1> QED
  BY <1>1, <1>4 DEF AllLowered

\* A call ends in the register mask and the implicit register.
LEMMA LowerCall ==
  ASSUME NEW a, Lowered(a)
  PROVE  Lower(<<a>> \o Implicit)[1] = McOperand(a)
<1> DEFINE mask == [k |-> "mask", v |-> NoSym]
           implicit == [k |-> "implicit", v |-> 11]
<1>1. Skipped(mask) /\ Skipped(implicit)
  BY DEF Skipped
<1>2. Implicit = <<mask, implicit>>
  BY DEF Implicit
<1> HIDE DEF mask, implicit
<1>3. <<a>> \o Implicit = <<a, mask, implicit>>
  BY <1>2, Triple
<1> PICK ops : ops = <<a, mask, implicit>>
  OBVIOUS
<1>4. DOMAIN ops = 1 .. 3 /\ ops[1] = a /\ ops[2] = mask /\ ops[3] = implicit
  OBVIOUS
<1>5. \A j \in 1 .. 1 : Lowered(ops[j])
  BY <1>4
<1>6. \A j \in 1 + 1 .. 3 : Skipped(ops[j])
  BY <1>1, <1>4
<1>7. Lower(ops)[1] = McOperand(ops[1])
  <2>1. 3 \in Nat \ {0} /\ 1 \in 1 .. 3 /\ 1 \in 1 .. 1
    OBVIOUS
  <2>2. DOMAIN ops = 1 .. 3
    BY <1>4
  <2> QED
    BY <1>5, <1>6, <2>1, <2>2, LowerKeeps, Zenon
<1> QED
  BY <1>3, <1>4, <1>7

\* What each kind of operand is lowered to and printed as.
LEMMA OperandKinds ==
  ASSUME NEW n
  PROVE  /\ Lowered(Reg(n)) /\ McOperand(Reg(n)) = Reg(n) /\ printOperand(Reg(n)) = Reg(n)
         /\ Lowered(Imm(n)) /\ McOperand(Imm(n)) = Imm(n)
         /\ Lowered(Block(n)) /\ McOperand(Block(n)) = Expr(n) /\ printOperand(Expr(n)) = Expr(n)
         /\ printOperand(Imm(n)) = Imm(SExt(n % ImmMod, ImmMod))
         /\ printImm64Operand(Imm(n)) = Imm(n % AddrMod)
         /\ printImm64Operand(Expr(n)) = Expr(n)
BY DEF Lowered, McOperand, printOperand, printImm64Operand, Reg, Imm, Block, Expr

\* An immediate as printOperand prints it.
Cut(n) == Imm(SExt(n % ImmMod, ImmMod))

\* The operand of a call or of a load of an address is an immediate or a symbol.
LEMMA OperandFacts ==
  ASSUME NEW i \in MCInst
  PROVE  /\ Lowered(SymbolOrImm(i))
         /\ McOperand(SymbolOrImm(i)) = IF i.sym = NoSym THEN Imm(i.imm) ELSE Expr(i.sym)
BY OperandKinds DEF SymbolOrImm, Lowered, McOperand, Imm, Expr

\* The text of each format, written out: jumps.
LEMMA JumpText ==
  ASSUME NEW i \in MCInst
  PROVE  /\ i.fmt = "JMP_RR" => printInstruction(i) = <<Reg(i.rA), Reg(i.rX), Expr(i.sym)>>
         /\ i.fmt = "JMP_RI" => printInstruction(i) = <<Reg(i.rA), Cut(i.imm), Expr(i.sym)>>
         /\ i.fmt = "BRANCH" => printInstruction(i) = <<Expr(i.sym)>>
<1> DEFINE ops == EmitInstruction(i)
           p(n) == printOperand(ops[n])
           a == Reg(i.rA)
           c == Block(i.sym)
<1>1. /\ Lowered(a) /\ McOperand(a) = a /\ printOperand(a) = a
      /\ Lowered(c) /\ McOperand(c) = Expr(i.sym) /\ printOperand(Expr(i.sym)) = Expr(i.sym)
  BY OperandKinds
<1>2. ASSUME NEW b, Lowered(b), McOperand(b) = b, i.fmt \in JumpFormats,
             MachineInstr(i) = <<a, b, c>>
      PROVE  printInstruction(i) = <<a, printOperand(b), Expr(i.sym)>>
  <2>1. printInstruction(i) = <<p(1), p(2), p(3)>>
    BY <1>2 DEF printInstruction, JumpFormats, AluFormats
  <2>2. ops = Lower(<<a, b, c>>)
    BY <1>2 DEF EmitInstruction
  <2> HIDE DEF a, c, ops
  <2>3. ops[1] = a /\ ops[2] = b /\ ops[3] = Expr(i.sym)
    BY <1>1, <1>2, <2>2, LowerThree
  <2> QED
    BY <1>1, <2>1, <2>3
<1>3. ASSUME i.fmt = "JMP_RR" PROVE printInstruction(i) = <<Reg(i.rA), Reg(i.rX), Expr(i.sym)>>
  <2>1. MachineInstr(i) = <<a, Reg(i.rX), c>>
    BY <1>3 DEF MachineInstr, AluFormats
  <2> QED
    BY <1>2, <1>3, <2>1, OperandKinds DEF JumpFormats
<1>4. ASSUME i.fmt = "JMP_RI" PROVE printInstruction(i) = <<Reg(i.rA), Cut(i.imm), Expr(i.sym)>>
  <2>1. MachineInstr(i) = <<a, Imm(i.imm), c>>
    BY <1>4 DEF MachineInstr, AluFormats
  <2> QED
    BY <1>2, <1>4, <2>1, OperandKinds DEF JumpFormats, Cut
<1>5. ASSUME i.fmt = "BRANCH" PROVE printInstruction(i) = <<Expr(i.sym)>>
  <2>1. MachineInstr(i) = <<c>>
    BY <1>5 DEF MachineInstr, AluFormats
  <2>2. ops = Lower(<<c>>)
    BY <2>1 DEF EmitInstruction
  <2>3. printInstruction(i) = <<p(1)>>
    BY <1>5 DEF printInstruction, JumpFormats, AluFormats
  <2> HIDE DEF c, ops
  <2>4. ops[1] = Expr(i.sym)
    BY <1>1, <2>2, LowerOne
  <2> QED
    BY <1>1, <2>3, <2>4
<1> QED
  BY <1>3, <1>4, <1>5

\* The first operand and the last one, whether or not the first is tied to another.
LEMMA AluText ==
  ASSUME NEW i \in MCInst
  PROVE  /\ i.fmt = "ALU_RR" => printInstruction(i) = <<Reg(i.rA), Reg(i.rX)>>
         /\ i.fmt = "ALU_RI" => printInstruction(i) = <<Reg(i.rA), Cut(i.imm)>>
<1> DEFINE ops == EmitInstruction(i)
           a == Reg(i.rA)
           last == IF i.fmt = "ALU_RR" THEN Reg(i.rX) ELSE Imm(i.imm)
<1> SUFFICES ASSUME i.fmt \in AluFormats
             PROVE  printInstruction(i) = <<a, printOperand(last)>>
  BY OperandKinds DEF AluFormats, Cut
<1>1. /\ Lowered(last) /\ McOperand(last) = last
      /\ Lowered(a) /\ McOperand(a) = a /\ printOperand(a) = a
  BY OperandKinds
<1>2. MachineInstr(i) = IF i.op = "MOV" THEN <<a, last>> ELSE <<a, a, last>>
  BY DEF MachineInstr, AluFormats
<1>3. printInstruction(i) = <<printOperand(ops[1]), printOperand(ops[Len(ops)])>>
  BY DEF printInstruction, JumpFormats, AluFormats
<1>4. ops = IF i.op = "MOV" THEN Lower(<<a, last>>) ELSE Lower(<<a, a, last>>)
  BY <1>2 DEF EmitInstruction
<1> HIDE DEF last, a, ops
<1>5. ops[1] = a /\ ops[Len(ops)] = last
  BY <1>1, <1>4, LowerTwo, LowerThree
<1> QED
  BY <1>1, <1>3, <1>5

\* The offset is in front of the base.
LEMMA MemText ==
  ASSUME NEW i \in MCInst
  PROVE  /\ i.fmt = "STORE" => printInstruction(i) = <<Imm(i.off), Reg(i.base), Reg(i.rX)>>
         /\ i.fmt = "LOAD"  => printInstruction(i) = <<Reg(i.rA), Imm(i.off), Reg(i.base)>>
         /\ i.fmt = "XADD"  => printInstruction(i) =
                                 <<Reg(i.rX), Imm(i.off), Reg(i.base), Reg(i.rX)>>
<1> DEFINE ops == EmitInstruction(i)
           a == Reg(i.rA)
           x == Reg(i.rX)
           b == Reg(i.base)
           o == Imm(i.off)
<1>1. /\ Lowered(a) /\ McOperand(a) = a /\ printOperand(a) = a
      /\ Lowered(x) /\ McOperand(x) = x /\ printOperand(x) = x
      /\ Lowered(b) /\ McOperand(b) = b /\ Lowered(o) /\ McOperand(o) = o
  BY OperandKinds
<1>2. printMemOperand(ops, 2) = <<ops[3], ops[2]>>
  BY DEF printMemOperand
<1>3. ASSUME i.fmt = "STORE" PROVE printInstruction(i) = <<o, b, x>>
  <2>1. MachineInstr(i) = <<x, b, o>>
    BY <1>3 DEF MachineInstr, AluFormats
  <2>2. ops = Lower(<<x, b, o>>)
    BY <2>1 DEF EmitInstruction
  <2>3. printInstruction(i) = printMemOperand(ops, 2) \o <<printOperand(ops[1])>>
    BY <1>3 DEF printInstruction, JumpFormats, AluFormats
  <2> HIDE DEF x, b, o, ops
  <2>4. ops[1] = x /\ ops[2] = b /\ ops[3] = o
    BY <1>1, <2>2, LowerThree
  <2>5. printInstruction(i) = <<o, b>> \o <<x>>
    BY <1>1, <1>2, <2>3, <2>4
  <2> QED
    BY <2>5, Triple
<1>4. ASSUME i.fmt = "LOAD" PROVE printInstruction(i) = <<a, o, b>>
  <2>1. MachineInstr(i) = <<a, b, o>>
    BY <1>4 DEF MachineInstr, AluFormats
  <2>2. ops = Lower(<<a, b, o>>)
    BY <2>1 DEF EmitInstruction
  <2>3. printInstruction(i) = <<printOperand(ops[1])>> \o printMemOperand(ops, 2)
    BY <1>4 DEF printInstruction, JumpFormats, AluFormats
  <2> HIDE DEF a, b, o, ops
  <2>4. ops[1] = a /\ ops[2] = b /\ ops[3] = o
    BY <1>1, <2>2, LowerThree
  <2>5. printInstruction(i) = <<a>> \o <<o, b>>
    BY <1>1, <1>2, <2>3, <2>4
  <2> QED
    BY <2>5, Triple
<1>5. ASSUME i.fmt = "XADD" PROVE printInstruction(i) = <<x, o, b, x>>
  <2>1. MachineInstr(i) = <<x, b, o, x>>
    BY <1>5 DEF MachineInstr, AluFormats
  <2>2. ops = Lower(<<x, b, o, x>>)
    BY <2>1 DEF EmitInstruction
  <2>3. printInstruction(i) =
          (<<printOperand(ops[1])>> \o printMemOperand(ops, 2)) \o <<printOperand(ops[4])>>
    BY <1>5 DEF printInstruction, JumpFormats, AluFormats
  <2> HIDE DEF x, b, o, ops
  <2>4. ops[1] = x /\ ops[2] = b /\ ops[3] = o /\ ops[4] = x
    <3> PICK d : d = x
      OBVIOUS
    <3>1. ops = Lower(<<x, b, o, d>>) /\ Lowered(d) /\ McOperand(d) = x
      BY <1>1, <2>2
    <3> QED
      BY <1>1, <3>1, LowerFour
  <2>5. printInstruction(i) = (<<x>> \o <<o, b>>) \o <<x>>
    BY <1>1, <1>2, <2>3, <2>4
  <2>6. <<x>> \o <<o, b>> = <<x, o, b>>
    BY Triple
  <2> QED
    BY <2>5, <2>6, Quadruple
<1> QED
  BY <1>3, <1>4, <1>5

\* The formats with a wide immediate or a symbol, and the one without operands.
LEMMA WideText ==
  ASSUME NEW i \in MCInst
  PROVE  /\ i.fmt = "LD_IMM64" => printInstruction(i) =
              <<Reg(i.rA), IF i.sym = NoSym THEN Imm(i.imm % AddrMod) ELSE Expr(i.sym)>>
         /\ i.fmt = "CALL" => printInstruction(i) =
              <<IF i.sym = NoSym THEN Cut(i.imm) ELSE Expr(i.sym)>>
         /\ i.fmt = "RET" => printInstruction(i) = << >>
<1> DEFINE ops == EmitInstruction(i)
           a == Reg(i.rA)
           s == SymbolOrImm(i)
<1>1. /\ Lowered(a) /\ McOperand(a) = a /\ printOperand(a) = a
      /\ Lowered(s) /\ McOperand(s) = IF i.sym = NoSym THEN Imm(i.imm) ELSE Expr(i.sym)
  BY OperandKinds, OperandFacts
<1>2. ASSUME i.fmt = "LD_IMM64"
      PROVE  printInstruction(i) =
               <<a, IF i.sym = NoSym THEN Imm(i.imm % AddrMod) ELSE Expr(i.sym)>>
  <2>1. MachineInstr(i) = <<a, s>>
    BY <1>2 DEF MachineInstr, AluFormats
  <2>2. ops = Lower(<<a, s>>)
    BY <2>1 DEF EmitInstruction
  <2>3. printInstruction(i) = <<printOperand(ops[1]), printImm64Operand(ops[2])>>
    BY <1>2 DEF printInstruction, JumpFormats, AluFormats
  <2> HIDE DEF a, s, ops
  <2>4. ops[1] = a /\ ops[2] = McOperand(s)
    BY <1>1, <2>2, LowerTwo
  <2> QED
    BY <1>1, <2>3, <2>4, OperandKinds
<1>3. ASSUME i.fmt = "CALL"
      PROVE  printInstruction(i) = <<IF i.sym = NoSym THEN Cut(i.imm) ELSE Expr(i.sym)>>
  <2>1. MachineInstr(i) = <<s>> \o Implicit
    BY <1>3 DEF MachineInstr, AluFormats
  <2>2. ops = Lower(<<s>> \o Implicit)
    BY <2>1 DEF EmitInstruction
  <2>3. printInstruction(i) = <<printOperand(ops[1])>>
    BY <1>3 DEF printInstruction, JumpFormats, AluFormats
  <2> HIDE DEF s, ops
  <2>4. ops[1] = McOperand(s)
    BY <1>1, <2>2, LowerCall
  <2> QED
    BY <1>1, <2>3, <2>4, OperandKinds DEF Cut
<1>4. ASSUME i.fmt = "RET" PROVE printInstruction(i) = << >>
  BY <1>4 DEF printInstruction, JumpFormats, AluFormats
<1> QED
  BY <1>2, <1>3, <1>4

\* The immediate field of every instruction is what the encoder put there:
\* a symbol leaves 0, and nothing is written over it later.
ImmediatesWritten ==
  \A k \in DOMAIN source : image[k].imm = getMachineOpValue(source[k])

\* Fixups write offsets only, and what is emitted is written once.
LEMMA ImmediatesStay ==
  ASSUME IInv, ImmediatesWritten, [Next]_vars
  PROVE  ImmediatesWritten'
<1>1. OnlyBranchOffsetsChange
  BY EmittedWordsStay
<1>2. ASSUME NEW k \in DOMAIN source, source'[k] = source[k]
      PROVE  image'[k].imm = getMachineOpValue(source'[k])
  <2>1. image[k] \in Word /\ k \in DOMAIN image
    BY <1>2, InstFacts
  <2>2. image'[k] = image[k] \/ image'[k] = [image[k] EXCEPT !.off = image'[k].off]
    BY <1>1, <2>1 DEF OnlyBranchOffsetsChange
  <2>3. image'[k].imm = image[k].imm
    BY <2>1, <2>2 DEF Word
  <2> QED
    BY <1>2, <2>3 DEF ImmediatesWritten
<1>3. ASSUME NEW i \in Instrs, EncodeInstruction(i) PROVE ImmediatesWritten'
  <2>1. /\ i \in MCInst /\ Words(i) \in Seq(Word) /\ Len(Words(i)) \in {1, 2}
        /\ Words(i)[1] = getBinaryCodeForInstr(i)
    BY WordsOf, InstrsAssumption
  <2>2. image' = image \o Words(i)
    BY <1>3 DEF EncodeInstruction
  <2>3. Len(image) \in Nat /\ \A n \in 1 .. Len(Words(i)) : image'[Len(image) + n] = Words(i)[n]
    BY <2>1, <2>2, GrowImage DEF IInv
  <2> PICK K \in Int : K = Len(image) + 1
    BY <2>3
  <2>4. image'[K].imm = getMachineOpValue(i)
    <3>1. image'[K] = getBinaryCodeForInstr(i)
      BY <2>1, <2>3
    <3> QED
      BY <3>1 DEF getBinaryCodeForInstr
  <2>5. DOMAIN source' = DOMAIN source \cup {K}
        /\ \A k \in DOMAIN source' : source'[k] = IF k = K THEN i ELSE source[k]
    BY <1>3 DEF EncodeInstruction
  <2> SUFFICES ASSUME NEW k \in DOMAIN source'
               PROVE  image'[k].imm = getMachineOpValue(source'[k])
    BY DEF ImmediatesWritten
  <2>6. CASE k = K
    BY <2>4, <2>5, <2>6
  <2>7. CASE k # K
    BY <1>2, <2>5, <2>7
  <2> QED
    BY <2>6, <2>7
<1>4. ASSUME UNCHANGED source PROVE ImmediatesWritten'
  BY <1>2, <1>4 DEF ImmediatesWritten
<1> QED
  BY <1>3, <1>4
  DEF Next, BeginFunction, EmitLabel, FinishLayout, ResolveFixup, WriteObject, vars

LEMMA ImmediatesInvariance == Spec => []ImmediatesWritten
<1>1. Init => ImmediatesWritten
  BY DEF Init, ImmediatesWritten
<1> QED
  BY <1>1, Invariance, ImmediatesStay, PTL DEF Spec

\* A number in the range of a field is what its signed reading truncates to.
LEMMA TruncationOfSExt ==
  ASSUME NEW m \in Nat \ {0}, NEW v \in 0 .. m - 1
  PROVE  SExt(v, m) % m = v
<1>1. CASE 2 * v < m
  <2>1. SExt(v, m) = (m * 0) + v
    BY <1>1 DEF SExt
  <2> QED
    BY <2>1, DivModUnique
<1>2. CASE ~(2 * v < m)
  <2>1. SExt(v, m) = (m * (-1)) + v /\ -1 \in Int
    BY <1>2 DEF SExt
  <2> QED
    BY <2>1, DivModUnique
<1> QED
  BY <1>1, <1>2

\* The two words of a wide immediate are its 64-bit representation.
LEMMA WideImmediateRead ==
  ASSUME NEW lo \in 0 .. ImmMod - 1, NEW hi \in 0 .. ImmMod - 1,
         NEW x, SExt(lo + ImmMod * hi, AddrMod) = x
  PROVE  lo + ImmMod * hi = x % AddrMod
<1>1. ImmMod \in Nat \ {0} /\ AddrMod \in Nat \ {0} /\ AddrMod = ImmMod * ImmMod
  BY Widths
<1>2. ImmMod * hi \in Nat /\ ImmMod * hi <= ImmMod * (ImmMod - 1)
  BY <1>1, TimesMonotonic
<1>3. lo + ImmMod * hi \in 0 .. AddrMod - 1
  BY <1>1, <1>2
<1> QED
  BY <1>1, <1>3, TruncationOfSExt

\* One instruction: what is printed is what its words mean.
LEMMA TextOfOne ==
  ASSUME IInv, ImmediatesWritten, NEW k \in DOMAIN source, FitsOffset(source[k])
  PROVE  printInstruction(source[k]) = Disassembled(k)
<1> DEFINE i == source[k]
           w == image[k]
<1>1. /\ i \in MCInst /\ w \in Word
      /\ DecodedFormat(w) = i.fmt /\ RegistersKept(i, w) /\ OffsetKept(i, w)
      /\ w.imm = getMachineOpValue(i)
  BY InstFacts DEF IInv, InstructionsDecode, OperationKept, ImmediatesWritten
<1>2. i.fmt \in Formats /\ i.sym \in SymsOf(i.fmt)
  BY <1>1, InstTypes
<1>3. i.sym = NoSym \/ i.fmt \in JumpFormats => Cut(i.imm) = Imm(SExt(w.imm, ImmMod))
  <2>1. i.fmt \in JumpFormats => i.fmt \notin {"CALL", "LD_IMM64"}
    BY DEF JumpFormats
  <2>2. i.sym = NoSym \/ i.fmt \in JumpFormats => w.imm = i.imm % ImmMod
    BY <1>1, <2>1 DEF getMachineOpValue
  <2> QED
    BY <2>2 DEF Cut
<1>4. i.fmt \in MemFormats => SExt(w.off, OffMod) = i.off
  BY <1>1 DEF OffsetKept
<1>5. CASE i.fmt = "JMP_RR"
  <2>1. Disassembled(k) = <<Reg(w.dst), Reg(w.src), Expr(i.sym)>>
    BY <1>1, <1>5 DEF Disassembled
  <2> QED
    BY <1>1, <1>5, <2>1, JumpText DEF RegistersKept
<1>6. CASE i.fmt = "JMP_RI"
  <2>1. Disassembled(k) = <<Reg(w.dst), Imm(SExt(w.imm, ImmMod)), Expr(i.sym)>>
    BY <1>1, <1>6 DEF Disassembled
  <2> QED
    BY <1>1, <1>3, <1>6, <2>1, JumpText DEF RegistersKept, JumpFormats
<1>7. CASE i.fmt = "BRANCH"
  <2>1. Disassembled(k) = <<Expr(i.sym)>>
    BY <1>1, <1>7 DEF Disassembled
  <2> QED
    BY <1>1, <1>7, <2>1, JumpText
<1>8. CASE i.fmt = "ALU_RR"
  <2>1. Disassembled(k) = <<Reg(w.dst), Reg(w.src)>>
    BY <1>1, <1>8 DEF Disassembled
  <2> QED
    BY <1>1, <1>8, <2>1, AluText DEF RegistersKept
<1>9. CASE i.fmt = "ALU_RI"
  <2>1. i.sym = NoSym
    BY <1>2, <1>9 DEF SymsOf, JumpFormats
  <2>2. Disassembled(k) = <<Reg(w.dst), Imm(SExt(w.imm, ImmMod))>>
    BY <1>1, <1>9, <2>1 DEF Disassembled
  <2> QED
    BY <1>1, <1>3, <1>9, <2>1, <2>2, AluText DEF RegistersKept
<1>10. CASE i.fmt = "STORE"
  <2>1. Disassembled(k) = <<Imm(SExt(w.off, OffMod)), Reg(w.dst), Reg(w.src)>>
    BY <1>1, <1>10 DEF Disassembled
  <2> QED
    BY <1>1, <1>4, <1>10, <2>1, MemText DEF RegistersKept, MemFormats
<1>11. CASE i.fmt = "LOAD"
  <2>1. Disassembled(k) = <<Reg(w.dst), Imm(SExt(w.off, OffMod)), Reg(w.src)>>
    BY <1>1, <1>11 DEF Disassembled
  <2> QED
    BY <1>1, <1>4, <1>11, <2>1, MemText DEF RegistersKept, MemFormats
<1>12. CASE i.fmt = "XADD"
  <2>1. Disassembled(k) =
          <<Reg(w.src), Imm(SExt(w.off, OffMod)), Reg(w.dst), Reg(w.src)>>
    BY <1>1, <1>12 DEF Disassembled
  <2> QED
    BY <1>1, <1>4, <1>12, <2>1, MemText DEF RegistersKept, MemFormats
<1>13. CASE i.fmt = "LD_IMM64"
  <2> DEFINE v == w.imm + ImmMod * image[k + 1].imm
  <2>1. Disassembled(k) = <<Reg(w.dst), IF i.sym = NoSym THEN Imm(v) ELSE Expr(i.sym)>>
    BY <1>1, <1>13 DEF Disassembled
  <2>2. v = i.imm % AddrMod
    <3>1. k + 1 \in DOMAIN image /\ SExt(v, AddrMod) = i.imm
      BY <1>13 DEF IInv, InstructionsDecode, WideImmediateKept
    <3>2. image[k + 1] \in Word
      BY <3>1, InstFacts, ElementOfSeq DEF IInv, TypeOK
    <3>3. w.imm \in 0 .. ImmMod - 1 /\ image[k + 1].imm \in 0 .. ImmMod - 1
      BY <1>1, <3>2 DEF Word
    <3> QED
      BY <3>1, <3>3, WideImmediateRead
  <2> HIDE DEF v
  <2> QED
    BY <1>1, <1>13, <2>1, <2>2, WideText DEF RegistersKept
<1>14. CASE i.fmt = "CALL"
  <2>1. Disassembled(k) =
          <<IF i.sym = NoSym THEN Imm(SExt(w.imm, ImmMod)) ELSE Expr(i.sym)>>
    BY <1>1, <1>14 DEF Disassembled
  <2> QED
    BY <1>1, <1>3, <1>14, <2>1, WideText
<1>15. CASE i.fmt = "RET"
  BY <1>1, <1>15, WideText DEF Disassembled
<1> QED
  BY <1>2, <1>5, <1>6, <1>7, <1>8, <1>9, <1>10, <1>11, <1>12, <1>13, <1>14, <1>15
  DEF Formats, JumpFormats, AluFormats, MemFormats

\* What the printer prints of an instruction is what a machine reads in the
\* object, whatever was cut to its field on either way.
THEOREM TextsMatch == Spec => []TextMeansObject
<1>1. IInv /\ ImmediatesWritten => TextMeansObject
  BY TextOfOne DEF TextMeansObject
<1> QED
  BY <1>1, Invariance, ImmediatesInvariance, PTL
=============================================================================
