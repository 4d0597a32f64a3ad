-------------------------- MODULE BPFEncodingProofs --------------------------
(***************************************************************************)
(* Facts about the encoding of one instruction, for every width of the     *)
(* offset and immediate fields: what is written is read back.              *)
(***************************************************************************)
EXTENDS BPFEncoding, TLAPS

\* Division with remainder: the quotient and the remainder are in range.
LEMMA DivMod ==
  ASSUME NEW a \in Int, NEW m \in Nat \ {0}
  PROVE  /\ a \div m \in Int /\ a % m \in 0 .. m - 1
         /\ a = (m * (a \div m)) + (a % m)
OBVIOUS

\* Division with remainder has one solution.
LEMMA DivModUnique ==
  ASSUME NEW a \in Int, NEW m \in Nat \ {0}, NEW q \in Int, NEW r \in 0 .. m - 1,
         a = (m * q) + r
  PROVE  a \div m = q /\ a % m = r
OBVIOUS

\* A negative number above -m is m short of its remainder.
LEMMA ModNegative ==
  ASSUME NEW m \in Nat \ {0}, NEW x \in -m .. -1
  PROVE  x % m = x + m
OBVIOUS

\* Multiplication by a natural number is monotonic.
LEMMA TimesMonotonic ==
  ASSUME NEW m \in Nat, NEW a \in Int, NEW b \in Int, a <= b
  PROVE  m * a <= m * b
OBVIOUS

\* The high half of a number below m * m is below m.
LEMMA HighHalfBelow ==
  ASSUME NEW m \in Nat \ {0}, NEW a \in Nat, a < m * m
  PROVE  a \div m \in 0 .. m - 1
<1> DEFINE d == a \div m
<1>1. d \in Int /\ m * d <= a /\ a < (m * d) + m
  BY DivMod
<1> HIDE DEF d
<1>2. ASSUME d >= m PROVE FALSE
  BY <1>1, <1>2, TimesMonotonic
<1>3. ASSUME d <= -1 PROVE FALSE
  <2>1. m * d <= m * (-1)
    BY <1>1, <1>3, TimesMonotonic
  <2> QED
    BY <1>1, <2>1
<1> QED
  BY <1>1, <1>2, <1>3 DEF d

\* Two nested divisions by m, put together.
LEMMA Regroup ==
  ASSUME NEW m \in Int, NEW k \in Int, NEW d \in Int, NEW r \in Int
  PROVE  ((m * m) * k) + ((m * d) + r) = (m * ((m * k) + d)) + r
OBVIOUS

\* The widths are positive, and 2^64 is the square of 2^32.
LEMMA Widths ==
  /\ OffMod \in Nat \ {0} /\ ImmMod \in Nat \ {0} /\ AddrMod \in Nat \ {0}
  /\ OffMod % 2 = 0 /\ ImmMod % 2 = 0 /\ AddrMod = ImmMod * ImmMod
<1>1. OffMod \in Nat \ {0} /\ ImmMod \in Nat \ {0} /\ OffMod % 2 = 0 /\ ImmMod % 2 = 0
  BY WidthAssumption
<1>2. AddrMod = ImmMod * ImmMod
  BY DEF AddrMod
<1>3. \A m \in Nat \ {0} : m * m \in Nat \ {0}
  OBVIOUS
<1> QED
  BY <1>1, <1>2, <1>3

\* The square of an even number is even.
LEMMA AddrModEven == AddrMod % 2 = 0
<1>1. PICK h \in Int : ImmMod = (2 * h) + 0
  BY Widths, DivMod
<1>2. AddrMod = (2 * (h * ImmMod)) + 0
  BY <1>1, Widths
<1> QED
  BY <1>2, <1>1, Widths, DivModUnique

\* Sign extension undoes truncation, of every value that fits.
LEMMA SExtRoundTrip ==
  ASSUME NEW m \in Nat \ {0}, m % 2 = 0, NEW x \in SignedRange(m)
  PROVE  SExt(x % m, m) = x
<1>1. PICK h \in Int : m = (2 * h) + 0
  BY DivMod
<1>2. m \div 2 = h
  BY <1>1, DivModUnique
<1>3. x \in -h .. h - 1
  BY <1>2 DEF SignedRange
<1>4. CASE x >= 0
  <2>1. x % m = x
    BY <1>1, <1>3, <1>4, DivModUnique
  <2> QED
    BY <2>1, <1>1, <1>3, <1>4 DEF SExt
<1>5. CASE x < 0
  <2>1. x % m = x + m
    BY <1>1, <1>3, <1>5, ModNegative
  <2> QED
    BY <2>1, <1>1, <1>3, <1>5 DEF SExt
<1> QED
  BY <1>3, <1>4, <1>5

\* A number whose double is within m is in the signed range of m.
LEMMA HalfRange ==
  ASSUME NEW m \in Nat \ {0}, m % 2 = 0, NEW d \in Int, -m <= 2 * d, 2 * d < m
  PROVE  d \in SignedRange(m)
<1>1. PICK h \in Int : m = (2 * h) + 0
  BY DivMod
<1>2. m \div 2 = h
  BY <1>1, DivModUnique
<1> QED
  BY <1>1, <1>2 DEF SignedRange

\* The halves of a 64-bit immediate, each of the width of the field, add up
\* to its 64-bit representation.
LEMMA HalvesAddUp ==
  ASSUME NEW x \in Int
  PROVE  /\ (x % AddrMod) \div ImmMod \in 0 .. ImmMod - 1
         /\ x % ImmMod \in 0 .. ImmMod - 1
         /\ (x % ImmMod) + ImmMod * ((x % AddrMod) \div ImmMod) = x % AddrMod
<1>1. /\ ImmMod \in Nat \ {0} /\ AddrMod \in Nat \ {0}
      /\ AddrMod = ImmMod * ImmMod
  BY Widths
<1>2. PICK k \in Int, a \in 0 .. AddrMod - 1 :
        x = (AddrMod * k) + a /\ x % AddrMod = a
  BY <1>1, DivMod
<1>3. PICK d \in Int, r \in 0 .. ImmMod - 1 :
        a = (ImmMod * d) + r /\ a \div ImmMod = d
  BY <1>1, <1>2, DivMod
<1>4. d \in 0 .. ImmMod - 1
  <2>1. a \in Nat /\ a < ImmMod * ImmMod
    BY <1>1, <1>2
  <2>2. a \div ImmMod \in 0 .. ImmMod - 1
    BY <1>1, <2>1, HighHalfBelow
  <2> QED
    BY <1>3, <2>2
<1>5. x % ImmMod = r
  <2>1. x = (ImmMod * ((ImmMod * k) + d)) + r
    BY <1>1, <1>2, <1>3, Regroup
  <2>2. (ImmMod * k) + d \in Int
    BY <1>1
  <2> QED
    BY <1>1, <2>1, <2>2, DivModUnique
<1> QED
  BY <1>1, <1>2, <1>3, <1>4, <1>5

\* The fields of an instruction have the types its format gives them.
LEMMA InstTypes ==
  ASSUME NEW i \in MCInst
  PROVE  /\ i.fmt \in Formats /\ i.op \in OpsOf(i.fmt)
         /\ i.rA \in RegNums /\ i.rX \in RegNums /\ i.base \in RegNums
         /\ i.off \in Int /\ i.imm \in ImmsOf(i.fmt)
         /\ i.sym \in SymsOf(i.fmt)
         /\ i.sym # NoSym => i.fmt \in JumpFormats \/ i.imm = 0
         /\ i.imm \in Int
BY DEF MCInst

\* The three opcode tables have no value twice.
LEMMA TablesInjective ==
  /\ \A o \in DOMAIN BrOp   : BrOp[o]   \in 1 .. 7  /\ OpNamed(BrOp, BrOp[o]) = o
  /\ \A o \in DOMAIN AluOp  : AluOp[o]  \in 0 .. 12 /\ OpNamed(AluOp, AluOp[o]) = o
  /\ \A o \in DOMAIN SizeOp : SizeOp[o] \in 0 .. 3  /\ OpNamed(SizeOp, SizeOp[o]) = o
<1>1. /\ \A o, p \in DOMAIN BrOp   : BrOp[o] = BrOp[p] => o = p
      /\ \A o \in DOMAIN BrOp : BrOp[o] \in 1 .. 7
  BY DEF BrOp
<1>2. /\ \A o, p \in DOMAIN AluOp  : AluOp[o] = AluOp[p] => o = p
      /\ \A o \in DOMAIN AluOp : AluOp[o] \in 0 .. 12
  BY DEF AluOp
<1>3. /\ \A o, p \in DOMAIN SizeOp : SizeOp[o] = SizeOp[p] => o = p
      /\ \A o \in DOMAIN SizeOp : SizeOp[o] \in 0 .. 3
  BY DEF SizeOp
<1>4. ASSUME NEW table, NEW o \in DOMAIN table,
             \A p, q \in DOMAIN table : table[p] = table[q] => p = q
      PROVE  OpNamed(table, table[o]) = o
  BY <1>4 DEF OpNamed
<1> QED
  BY <1>1, <1>2, <1>3, <1>4

\* The opcode byte is read back as the format and the operation it was
\* written for: no two instructions share an opcode.
LEMMA OpcodeRoundTrip ==
  ASSUME NEW i \in MCInst, NEW w, w.opc = OpcodeByte(i)
  PROVE  OperationKept(i, w) /\ w.opc \in 0 .. 255
<1>1. i.fmt \in Formats /\ i.op \in OpsOf(i.fmt)
  BY InstTypes
<1>2. CASE i.fmt \in JumpFormats
  <2> DEFINE s == IF i.fmt = "JMP_RR" THEN 1 ELSE 0
  <2>1. i.op \in DOMAIN BrOp
    BY <1>1, <1>2 DEF OpsOf, JumpFormats, AluFormats, MemFormats
  <2>2. BrOp[i.op] \in 1 .. 7 /\ OpNamed(BrOp, BrOp[i.op]) = i.op
    BY <2>1, TablesInjective
  <2>3. w.opc = 16 * BrOp[i.op] + 8 * s + 5
    BY <1>2, <2>2 DEF OpcodeByte, JumpFormats
  <2>4. /\ ClassOf(w) = 5 /\ NibbleOf(w) = BrOp[i.op] /\ SrcBitOf(w) = s
        /\ w.opc \in 0 .. 255
    BY <2>2, <2>3 DEF ClassOf, NibbleOf, SrcBitOf
  <2>5. DecodedFormat(w) = i.fmt
    BY <1>2, <2>2, <2>4 DEF DecodedFormat, JumpFormats
  <2> QED
    BY <1>2, <2>2, <2>4, <2>5
    DEF OperationKept, DecodedOp, JumpFormats, AluFormats, MemFormats
<1>3. CASE i.fmt \in AluFormats
  <2> DEFINE s == IF i.fmt = "ALU_RR" THEN 1 ELSE 0
  <2>1. i.op \in DOMAIN AluOp
    BY <1>1, <1>3 DEF OpsOf, JumpFormats, AluFormats, MemFormats
  <2>2. AluOp[i.op] \in 0 .. 12 /\ OpNamed(AluOp, AluOp[i.op]) = i.op
    BY <2>1, TablesInjective
  <2>3. w.opc = 16 * AluOp[i.op] + 8 * s + 7
    BY <1>3, <2>2 DEF OpcodeByte, AluFormats
  <2>4. /\ ClassOf(w) = 7 /\ NibbleOf(w) = AluOp[i.op] /\ SrcBitOf(w) = s
        /\ w.opc \in 0 .. 255
    BY <2>2, <2>3 DEF ClassOf, NibbleOf, SrcBitOf
  <2>5. DecodedFormat(w) = i.fmt
    BY <1>3, <2>2, <2>4 DEF DecodedFormat, AluFormats
  <2> QED
    BY <1>3, <2>2, <2>4, <2>5
    DEF OperationKept, DecodedOp, JumpFormats, AluFormats, MemFormats
<1>4. CASE i.fmt \in MemFormats
  <2> DEFINE m == IF i.fmt = "XADD" THEN 6 ELSE 3
             c == IF i.fmt = "LOAD" THEN 1 ELSE 3
  <2>1. i.op \in DOMAIN SizeOp
    BY <1>1, <1>4 DEF OpsOf, JumpFormats, AluFormats, MemFormats
  <2>2. SizeOp[i.op] \in 0 .. 3 /\ OpNamed(SizeOp, SizeOp[i.op]) = i.op
    BY <2>1, TablesInjective
  <2>3. w.opc = 32 * m + 8 * SizeOp[i.op] + c
    BY <1>4, <2>2 DEF OpcodeByte, MemFormats
  <2>4. /\ ClassOf(w) = c /\ ModeOf(w) = m /\ SizeBitsOf(w) = SizeOp[i.op]
        /\ w.opc \in 0 .. 255
    BY <2>2, <2>3 DEF ClassOf, ModeOf, SizeBitsOf
  <2>5. DecodedFormat(w) = i.fmt
    BY <1>4, <2>4 DEF DecodedFormat, MemFormats
  <2> QED
    BY <1>4, <2>2, <2>4, <2>5
    DEF OperationKept, DecodedOp, JumpFormats, AluFormats, MemFormats
<1>5. CASE i.fmt \in {"BRANCH", "CALL", "RET"}
  <2>1. i.op = i.fmt
    BY <1>1, <1>5 DEF OpsOf, JumpFormats, AluFormats, MemFormats
  <2>2. PICK n \in {0, 8, 9} :
          /\ w.opc = 16 * n + 5
          /\ i.fmt = "BRANCH" => n = 0
          /\ i.fmt = "CALL"   => n = 8
          /\ i.fmt = "RET"    => n = 9
    BY <1>5 DEF OpcodeByte
  <2>3. ClassOf(w) = 5 /\ NibbleOf(w) = n /\ w.opc \in 0 .. 255
    BY <2>2 DEF ClassOf, NibbleOf
  <2>4. DecodedFormat(w) = i.fmt
    BY <1>5, <2>2, <2>3 DEF DecodedFormat
  <2> QED
    BY <1>5, <2>1, <2>3, <2>4
    DEF OperationKept, DecodedOp, JumpFormats, AluFormats, MemFormats
<1>6. CASE i.fmt = "LD_IMM64"
  <2>1. i.op = i.fmt
    BY <1>1, <1>6 DEF OpsOf, JumpFormats, AluFormats, MemFormats
  <2>2. w.opc = 32 * 0 + 8 * 3 + 0
    BY <1>6 DEF OpcodeByte
  <2>3. ClassOf(w) = 0 /\ ModeOf(w) = 0 /\ SizeBitsOf(w) = 3 /\ w.opc \in 0 .. 255
    BY <2>2 DEF ClassOf, ModeOf, SizeBitsOf
  <2>4. DecodedFormat(w) = i.fmt
    BY <1>6, <2>3 DEF DecodedFormat
  <2> QED
    BY <1>6, <2>1, <2>3, <2>4
    DEF OperationKept, DecodedOp, JumpFormats, AluFormats, MemFormats
<1> QED
  BY <1>1, <1>2, <1>3, <1>4, <1>5, <1>6 DEF Formats

\* The base register and the masked offset share an operand value without
\* running into each other, whatever the sign of the offset.
LEMMA MemOperandRoundTrip ==
  ASSUME NEW i \in MCInst
  PROVE  AddrReg(i) = i.base /\ AddrOff(i) = i.off % OffMod
<1>1. i.base \in 0 .. 11 /\ i.off \in Int
  BY InstTypes DEF RegNums
<1>2. OffMod \in Nat \ {0}
  BY Widths
<1>3. PICK r \in 0 .. OffMod - 1 : r = i.off % OffMod
  BY <1>1, <1>2, DivMod
<1>4. PICK v \in Int, b \in Int :
        v = getMemoryOpValue(i) /\ b = i.base /\ v = (OffMod * b) + r
  BY <1>1, <1>2, <1>3 DEF getMemoryOpValue
<1>5. v \div OffMod = b /\ v % OffMod = r
  BY <1>2, <1>4, DivModUnique
<1>6. /\ getMemoryOpValue(i) \div OffMod = i.base
      /\ getMemoryOpValue(i) % OffMod = i.off % OffMod
  BY <1>3, <1>4, <1>5
<1> QED
  BY <1>1, <1>6 DEF AddrReg, AddrOff, RegMod

\* Every word the emitter writes has fields of the right width.
LEMMA WordsTyped ==
  ASSUME NEW i \in MCInst
  PROVE  /\ getBinaryCodeForInstr(i) \in Word
         /\ HighWord(i) \in Word
         /\ NopWord \in Word
<1>1. /\ i.rA \in 0 .. 11 /\ i.rX \in 0 .. 11 /\ i.base \in 0 .. 11
      /\ i.off \in Int /\ i.imm \in Int
  BY InstTypes DEF RegNums
<1>2. OffMod \in Nat \ {0} /\ ImmMod \in Nat \ {0} /\ AddrMod \in Nat \ {0}
  BY Widths
<1>3. OpcodeByte(i) \in 0 .. 255
  BY OpcodeRoundTrip, (getBinaryCodeForInstr(i)).opc = OpcodeByte(i)
  DEF getBinaryCodeForInstr
<1>4. DstField(i) \in 0 .. 15 /\ SrcField(i) \in 0 .. 15
  BY <1>1, MemOperandRoundTrip DEF DstField, SrcField
<1>5. OffField(i) \in 0 .. OffMod - 1
  <2>1. i.off % OffMod \in 0 .. OffMod - 1
    BY <1>1, <1>2, DivMod
  <2>2. OffField(i) = i.off % OffMod \/ OffField(i) = 0
    BY MemOperandRoundTrip DEF OffField
  <2> QED
    BY <1>2, <2>1, <2>2
<1>6. getMachineOpValue(i) \in 0 .. ImmMod - 1
  <2>1. i.imm % ImmMod \in 0 .. ImmMod - 1
    BY <1>1, <1>2, DivMod
  <2> QED
    BY <2>1, <1>2 DEF getMachineOpValue
<1>7. HighWord(i) \in Word
  <2>1. (i.imm % AddrMod) \div ImmMod \in 0 .. ImmMod - 1
    BY <1>1, HalvesAddUp
  <2>2. (HighWord(i)).imm \in 0 .. ImmMod - 1
    BY <1>2, <2>1 DEF HighWord
  <2> QED
    BY <1>2, <2>2 DEF HighWord, Word, RegMod
<1>8. NopWord \in Word
  <2>1. (21 * 256) % OffMod \in 0 .. OffMod - 1
    BY <1>2, DivMod
  <2> QED
    BY <2>1, <1>2 DEF NopWord, Word, RegMod
<1> QED
  BY <1>3, <1>4, <1>5, <1>6, <1>7, <1>8 DEF getBinaryCodeForInstr, Word, RegMod

\* Encoding then decoding gives the instruction back.  The offset field is
\* left open where it is no memory offset: that is where branches are patched.
LEMMA EncodingRoundTrip ==
  ASSUME NEW i \in MCInst, NEW w,
         w.opc = OpcodeByte(i), w.dst = DstField(i), w.src = SrcField(i),
         w.imm = getMachineOpValue(i),
         i.fmt \in MemFormats => w.off = OffField(i)
  PROVE  /\ OperationKept(i, w)
         /\ RegistersKept(i, w)
         /\ FitsOffset(i) => OffsetKept(i, w)
         /\ i.fmt # "LD_IMM64" => (FitsImmediate(i) => ImmediateKept(i, w))
         /\ i.fmt = "LD_IMM64" => WideImmediateKept(i, w, HighWord(i))
<1>1. /\ OffMod \in Nat \ {0} /\ ImmMod \in Nat \ {0} /\ AddrMod \in Nat \ {0}
      /\ OffMod % 2 = 0 /\ ImmMod % 2 = 0 /\ AddrMod % 2 = 0
  BY Widths, AddrModEven
<1>2. i.imm \in Int /\ (i.sym # NoSym => i.fmt \in JumpFormats \/ i.imm = 0)
  BY InstTypes
<1>3. OperationKept(i, w)
  BY OpcodeRoundTrip
<1>4. RegistersKept(i, w)
  BY MemOperandRoundTrip DEF RegistersKept, DstField, SrcField
<1>5. ASSUME FitsOffset(i) PROVE OffsetKept(i, w)
  BY <1>1, <1>5, MemOperandRoundTrip, SExtRoundTrip
  DEF FitsOffset, OffsetKept, OffField
<1>6. getMachineOpValue(i) = i.imm % ImmMod
  <2>1. 0 % ImmMod = 0
    BY <1>1
  <2> QED
    BY <1>2, <2>1 DEF getMachineOpValue, JumpFormats
<1>7. ASSUME FitsImmediate(i) PROVE ImmediateKept(i, w)
  BY <1>1, <1>6, <1>7, SExtRoundTrip DEF FitsImmediate, ImmediateKept
<1>8. ASSUME i.fmt = "LD_IMM64" PROVE WideImmediateKept(i, w, HighWord(i))
  <2>1. i.imm \in SignedRange(AddrMod)
    BY <1>8, InstTypes DEF ImmsOf
  <2>2. (HighWord(i)).imm = (i.imm % AddrMod) \div ImmMod
    <3>1. 0 % AddrMod = 0 /\ 0 \div ImmMod = 0
      BY <1>1
    <3> QED
      BY <3>1, <1>2, <1>8 DEF HighWord, JumpFormats
  <2>3. w.imm + ImmMod * (HighWord(i)).imm = i.imm % AddrMod
    BY <1>2, <1>6, <2>2, HalvesAddUp
  <2> QED
    BY <1>1, <2>1, <2>3, SExtRoundTrip DEF WideImmediateKept
<1> QED
  BY <1>3, <1>4, <1>5, <1>7, <1>8
=============================================================================
