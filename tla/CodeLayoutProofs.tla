-------------------------- MODULE CodeLayoutProofs --------------------------
(***************************************************************************)
(* The walk over the code delivers the program that was compiled, for      *)
(* every program, with operands of up to sixteen bits from 3.6 on and of   *)
(* up to 32 before, and wherever the code is cut off; the exception table  *)
(* that is read is the one that was written, and opcode_at finds what      *)
(* starts at a target.                                                     *)
(***************************************************************************)
EXTENDS CodeLayout, SequenceTheorems, WellFoundedInduction, TLAPS

-----------------------------------------------------------------------------
(* Splitting a number into bytes and putting it together again. *)
LEMMA TwoBytes ==
  ASSUME NEW n \in Words
  PROVE  /\ n \div 256 \in Bytes
         /\ n % 256 \in Bytes
         /\ 256 * (n \div 256) + (n % 256) = n
         /\ (n % 256) + 256 * (n \div 256) = n
  BY DEF Words, Bytes

LEMMA SixteenBits ==
  ASSUME NEW n \in Words
  PROVE  /\ n % 65536 = n
         /\ n \div 65536 = 0
         /\ Int32(0, n) = n
  BY SMT DEF Words, Int32

LEMMA Halves ==
  ASSUME NEW n \in Int
  PROVE  /\ n % 65536 \in Words
         /\ n \div 65536 \in Int
         /\ n = 65536 * (n \div 65536) + (n % 65536)
  BY SMT DEF Words

LEMMA FourBytes ==
  ASSUME NEW n \in Ints
  PROVE  /\ n % 65536 \in Words
         /\ (n \div 65536) % 65536 \in Words
         /\ Int32((n \div 65536) % 65536, n % 65536) = n
  <1> DEFINE low  == n % 65536
             top  == n \div 65536
             high == top % 65536
  <1>1. n \in Int /\ -2147483647 - 1 <= n /\ n <= 2147483647
    BY SMT DEF Ints
  <1>2. low \in Words /\ top \in Int /\ n = 65536 * top + low
    BY SMT, <1>1, Halves DEF low, top
  <1>3. high \in Words /\ top \div 65536 \in Int /\ top = 65536 * (top \div 65536) + high
    BY SMT, <1>2, Halves DEF high
  <1> HIDE DEF low, top, high
  <1>4. -32768 <= top /\ top <= 32767
    BY SMT, <1>1, <1>2 DEF Words
  <1>5. high = IF top < 0 THEN top + 65536 ELSE top
    BY SMT, <1>2, <1>3, <1>4 DEF Words
  <1>6. Int32(high, low) = n
    BY SMT, <1>2, <1>3, <1>4, <1>5 DEF Int32, Words
  <1> QED
    BY SMT, <1>2, <1>3, <1>6 DEF low, top, high

(* Before 3.6 CPython tells from the byte whether an operand follows, the  *)
(* readers from the opcode table: they agree.                              *)
LEMMA TablesAgree ==
  ASSUME NEW ver \in Versions, ver < 306, NEW b \in WithArg(ver) \cup WithoutArg(ver)
  PROVE  b \in Int /\ (ByteToOpcode(ver, b).hasArg <=> b >= HAVE_ARGUMENT)
  <1>1. ver = 207 \/ ver = 305
    BY SMT DEF Versions
  <1>2. ASSUME b \in WithArg(ver) PROVE b \in Int /\ b >= 90
    BY SMT, <1>1, <1>2 DEF WithArg, OpcodeMap, Python27, Python35
  <1>3. ASSUME b \in WithoutArg(ver) PROVE b \in Int /\ b < 90
    BY SMT, <1>1, <1>3 DEF WithoutArg, OpcodeMap, Python27, Python35
  <1>4. ByteToOpcode(ver, b).hasArg <=> b \in WithArg(ver)
    BY Zenon DEF ByteToOpcode
  <1> QED
    BY SMT, <1>2, <1>3, <1>4 DEF HAVE_ARGUMENT

-----------------------------------------------------------------------------
(* The five forms of an instruction. *)
Unit36(ver, ins)     == ver >= 306 /\ ~ins.wide
Extended36(ver, ins) == ver >= 306 /\ ins.wide
NoOperand(ver, ins)  == ver < 306 /\ ins.byte < HAVE_ARGUMENT
Short(ver, ins)      == ver < 306 /\ ~(ins.byte < HAVE_ARGUMENT) /\ ~ins.wide
Long(ver, ins)       == ver < 306 /\ ~(ins.byte < HAVE_ARGUMENT) /\ ins.wide

ShortBytes(ver, ins) == <<ins.byte, (ins.operand % 65536) % 256, (ins.operand % 65536) \div 256>>

LongBytes(ver, ins) ==
  <<EXTENDED_ARG(ver),
    ((ins.operand \div 65536) % 65536) % 256, ((ins.operand \div 65536) % 65536) \div 256,
    ins.byte, (ins.operand % 65536) % 256, (ins.operand % 65536) \div 256>>

LEMMA FiveForms ==
  ASSUME NEW ver \in Versions, NEW ins, Encodable(ver, ins)
  PROVE  \/ Unit36(ver, ins) \/ Extended36(ver, ins)
         \/ NoOperand(ver, ins) \/ Short(ver, ins) \/ Long(ver, ins)
  <1>1. ins.wide \in BOOLEAN
    BY DEF Encodable
  <1>2. ver \in Int
    BY SMT DEF Versions
  <1> QED
    BY SMT, <1>1, <1>2 DEF Unit36, Extended36, NoOperand, Short, Long

(* The form a file's instruction has decides its bytes. *)
LEMMA FormBytes ==
  ASSUME NEW ver \in Versions, NEW ins
  PROVE  /\ Unit36(ver, ins) => Encoding(ver, ins) = <<ins.byte, ins.operand>>
         /\ Extended36(ver, ins) =>
              Encoding(ver, ins) = <<EXTENDED_ARG(ver), ins.operand \div 256, ins.byte, ins.operand % 256>>
         /\ NoOperand(ver, ins) => Encoding(ver, ins) = <<ins.byte>>
         /\ Short(ver, ins) => Encoding(ver, ins) = ShortBytes(ver, ins)
         /\ Long(ver, ins) => Encoding(ver, ins) = LongBytes(ver, ins)
  <1>1. ver < 306 => ~(ver >= 306)
    BY SMT DEF Versions
  <1>2. Unit36(ver, ins) => Encoding(ver, ins) = <<ins.byte, ins.operand>>
    BY SMT DEF Encoding, Unit36
  <1>3. Extended36(ver, ins) =>
          Encoding(ver, ins) = <<EXTENDED_ARG(ver), ins.operand \div 256, ins.byte, ins.operand % 256>>
    BY SMT DEF Encoding, Extended36
  <1>4. NoOperand(ver, ins) => Encoding(ver, ins) = <<ins.byte>>
    BY SMT, <1>1 DEF Encoding, NoOperand
  <1>5. Short(ver, ins) => Encoding(ver, ins) = ShortBytes(ver, ins)
    BY SMT, <1>1 DEF Encoding, Short, ShortBytes
  <1>6. Long(ver, ins) => Encoding(ver, ins) = LongBytes(ver, ins)
    BY SMT, <1>1 DEF Encoding, Long, LongBytes
  <1> QED
    BY <1>2, <1>3, <1>4, <1>5, <1>6

(* What the readers see of an instruction that lies where they read. *)
Ahead(ins, n) ==
  /\ file.ver \in Versions
  /\ file.code \in Seq(Bytes)
  /\ phase \in {"targets", "code"}
  /\ at \in Nat
  /\ Encodable(Ver, ins)
  /\ at + n <= Len(file.code)
  /\ LaidAt(file, at, ins, n)

LEMMA BytesAhead ==
  ASSUME NEW ins, NEW n \in Nat, Ahead(ins, n)
  PROVE  /\ \A k \in 1 .. n : Byte(k) = Encoding(Ver, ins)[k]
         /\ Left = Len(file.code) - at
         /\ Left \in Int
         /\ Left >= n
         /\ ins.byte # EXTENDED_ARG(Ver)
  <1>1. Buffer = file.code
    BY DEF Buffer, Ahead
  <1>2. \A k \in 1 .. n : Byte(k) = Encoding(Ver, ins)[k]
    BY <1>1 DEF Ahead, LaidAt, Byte, Ver
  <1>3. Len(file.code) \in Nat
    BY LenProperties DEF Ahead
  <1> QED
    BY SMT, <1>1, <1>2, <1>3 DEF Ahead, Left, Encodable

LEMMA ByteTakesOperand ==
  ASSUME NEW ins, file.ver \in Versions, Encodable(Ver, ins), Ver < 306, ~(ins.byte < HAVE_ARGUMENT)
  PROVE  ByteToOpcode(Ver, ins.byte).hasArg
  <1>1. ins.byte \in WithArg(Ver) \cup WithoutArg(Ver) /\ Ver \in Versions
    BY DEF Encodable, Ver
  <1>2. ins.byte \in Int
    BY <1>1, TablesAgree
  <1>3. ins.byte >= HAVE_ARGUMENT
    BY SMT, <1>2 DEF HAVE_ARGUMENT
  <1> QED
    BY <1>1, <1>3, TablesAgree

(* bc_next takes the whole instruction, and nothing behind it. *)
ReadAs(ins) ==
  /\ Whole
  /\ Opcode = ByteToOpcode(Ver, ins.byte)
  /\ Operand = ins.operand
  /\ Prefix + Rest = Len(Encoding(Ver, ins))
  /\ Counted = Len(Encoding(Ver, ins))

LEMMA UnitAhead ==
  ASSUME NEW ins, Ahead(ins, Len(Encoding(Ver, ins))), Unit36(Ver, ins)
  PROVE  ReadAs(ins)
  <1>1. Encoding(Ver, ins) = <<ins.byte, ins.operand>>
    BY FormBytes DEF Ahead, Ver
  <1>2. Len(Encoding(Ver, ins)) = 2
    BY SMT, <1>1
  <1>3. /\ Byte(1) = ins.byte /\ Byte(2) = ins.operand
        /\ Left \in Int /\ Left >= 2
        /\ ins.byte # EXTENDED_ARG(Ver)
    BY SMT, <1>1, <1>2, BytesAhead
  <1>4. ~Extended /\ Prefix = 0
    BY SMT, <1>3 DEF Extended, Prefix
  <1>5. Ver >= 306 /\ ins.operand \in Bytes
    BY SMT DEF Unit36, Ahead, Encodable
  <1>6. Opcode = ByteToOpcode(Ver, ins.byte)
    BY SMT, <1>3, <1>4 DEF Opcode
  <1>7. Rest = 2 /\ Counted = 2
    BY SMT, <1>4, <1>5 DEF Rest, Counted
  <1>8. Operand = ins.operand
    BY SMT, <1>3, <1>4, <1>5 DEF Operand, Bytes
  <1> QED
    BY SMT, <1>2, <1>3, <1>4, <1>6, <1>7, <1>8 DEF ReadAs, Whole

LEMMA ExtendedAhead ==
  ASSUME NEW ins, Ahead(ins, Len(Encoding(Ver, ins))), Extended36(Ver, ins)
  PROVE  ReadAs(ins)
  <1>1. Encoding(Ver, ins) = <<EXTENDED_ARG(Ver), ins.operand \div 256, ins.byte, ins.operand % 256>>
    BY FormBytes DEF Ahead, Ver
  <1>2. Len(Encoding(Ver, ins)) = 4
    BY SMT, <1>1
  <1>3. /\ Byte(1) = EXTENDED_ARG(Ver) /\ Byte(2) = ins.operand \div 256
        /\ Byte(3) = ins.byte /\ Byte(4) = ins.operand % 256
        /\ Left \in Int /\ Left >= 4
    BY SMT, <1>1, <1>2, BytesAhead
  <1>4. Ver >= 306 /\ ins.operand \in Words
    BY SMT DEF Extended36, Ahead, Encodable
  <1>5. Extended /\ Prefix = 2
    BY SMT, <1>3, <1>4 DEF Extended, Prefix
  <1>6. Opcode = ByteToOpcode(Ver, ins.byte)
    BY SMT, <1>3, <1>5 DEF Opcode
  <1>7. Rest = 2 /\ Counted = 4
    BY SMT, <1>4, <1>5 DEF Rest, Counted
  <1>8. Operand = 256 * (ins.operand \div 256) + (ins.operand % 256)
    BY SMT, <1>3, <1>4, <1>5 DEF Operand
  <1>9. Operand = ins.operand
    BY SMT, <1>4, <1>8, TwoBytes
  <1> QED
    BY SMT, <1>2, <1>3, <1>5, <1>6, <1>7, <1>9 DEF ReadAs, Whole

LEMMA NoOperandAhead ==
  ASSUME NEW ins, Ahead(ins, Len(Encoding(Ver, ins))), NoOperand(Ver, ins)
  PROVE  ReadAs(ins)
  <1>1. Encoding(Ver, ins) = <<ins.byte>>
    BY FormBytes DEF Ahead, Ver
  <1>2. Len(Encoding(Ver, ins)) = 1
    BY SMT, <1>1
  <1>3. /\ Byte(1) = ins.byte
        /\ Left \in Int /\ Left >= 1
        /\ ins.byte # EXTENDED_ARG(Ver)
    BY SMT, <1>1, <1>2, BytesAhead
  <1>4. ~(Ver >= 306) /\ ins.operand = 0
    BY SMT DEF NoOperand, Ahead, Encodable, Ver, Versions
  <1>5. ~Extended /\ Prefix = 0
    BY SMT, <1>3 DEF Extended, Prefix
  <1>6. Opcode = ByteToOpcode(Ver, ins.byte)
    BY SMT, <1>3, <1>5 DEF Opcode
  <1>7. ~Opcode.hasArg
    <2>1. Ver < 306 /\ Ver \in Versions /\ ins.byte \in WithArg(Ver) \cup WithoutArg(Ver)
      BY DEF NoOperand, Ahead, Encodable, Ver
    <2>2. ins.byte \in Int
      BY <2>1, TablesAgree
    <2>3. ~(ins.byte >= HAVE_ARGUMENT)
      BY SMT, <2>2 DEF NoOperand, HAVE_ARGUMENT
    <2> QED
      BY <1>6, <2>1, <2>3, TablesAgree
  <1>8. Rest = 1 /\ Counted = 1
    BY SMT, <1>4, <1>5, <1>7 DEF Rest, Counted
  <1>9. Operand = Int32(0, 0)
    BY SMT, <1>4, <1>5, <1>7 DEF Operand
  <1>10. Operand = ins.operand
    BY SMT, <1>4, <1>9, SixteenBits DEF Words
  <1> QED
    BY SMT, <1>2, <1>3, <1>5, <1>6, <1>8, <1>10 DEF ReadAs, Whole

LEMMA ShortAhead ==
  ASSUME NEW ins, Ahead(ins, Len(Encoding(Ver, ins))), Short(Ver, ins)
  PROVE  ReadAs(ins)
  <1> DEFINE low == ins.operand % 65536
  <1>1. Encoding(Ver, ins) = <<ins.byte, low % 256, low \div 256>>
    BY FormBytes DEF Ahead, Ver, ShortBytes
  <1>2. Ver < 306 /\ ~(Ver >= 306) /\ Ver \in Versions
    BY SMT DEF Short, Ahead, Ver, Versions
  <1>3. ins.operand \in Words
    BY SMT, <1>2 DEF Short, Ahead, Encodable
  <1>4. low = ins.operand
    BY <1>3, SixteenBits
  <1> HIDE DEF low
  <1>5. Len(Encoding(Ver, ins)) = 3
    BY SMT, <1>1
  <1>6. /\ Byte(1) = ins.byte /\ Byte(2) = low % 256 /\ Byte(3) = low \div 256
        /\ Left \in Int /\ Left >= 3
        /\ ins.byte # EXTENDED_ARG(Ver)
    BY SMT, <1>1, <1>5, BytesAhead
  <1>7. ~Extended /\ Prefix = 0
    BY SMT, <1>6 DEF Extended, Prefix
  <1>8. Opcode = ByteToOpcode(Ver, ins.byte)
    BY SMT, <1>6, <1>7 DEF Opcode
  <1>9. Opcode.hasArg
    BY <1>8, ByteTakesOperand DEF Ahead, Short
  <1>10. Rest = 3 /\ Counted = 3
    BY SMT, <1>2, <1>7, <1>9 DEF Rest, Counted
  <1>11. Operand = Int32(0, (low % 256) + 256 * (low \div 256))
    BY SMT, <1>2, <1>6, <1>7, <1>9 DEF Operand, Get16
  <1>12. Operand = ins.operand
    BY SMT, <1>3, <1>4, <1>11, TwoBytes, SixteenBits
  <1> QED
    BY SMT, <1>5, <1>6, <1>7, <1>8, <1>10, <1>12 DEF ReadAs, Whole

LEMMA LongAhead ==
  ASSUME NEW ins, Ahead(ins, Len(Encoding(Ver, ins))), Long(Ver, ins)
  PROVE  ReadAs(ins)
  <1> DEFINE low  == ins.operand % 65536
             high == (ins.operand \div 65536) % 65536
  <1>1. Encoding(Ver, ins) = <<EXTENDED_ARG(Ver), high % 256, high \div 256, ins.byte, low % 256, low \div 256>>
    BY FormBytes DEF Ahead, Ver, LongBytes
  <1>2. Ver < 306 /\ ~(Ver >= 306) /\ Ver \in Versions
    BY SMT DEF Long, Ahead, Ver, Versions
  <1>3. ins.operand \in Ints
    BY SMT, <1>2 DEF Long, Ahead, Encodable
  <1>4. low \in Words /\ high \in Words /\ Int32(high, low) = ins.operand
    BY <1>3, FourBytes
  <1> HIDE DEF low, high
  <1>5. Len(Encoding(Ver, ins)) = 6
    BY SMT, <1>1
  <1>6. /\ Byte(1) = EXTENDED_ARG(Ver) /\ Byte(2) = high % 256 /\ Byte(3) = high \div 256
        /\ Byte(4) = ins.byte /\ Byte(5) = low % 256 /\ Byte(6) = low \div 256
        /\ Left \in Int /\ Left >= 6
    BY SMT, <1>1, <1>5, BytesAhead
  <1>7. Extended /\ Prefix = 3
    BY SMT, <1>2, <1>6 DEF Extended, Prefix
  <1>8. Opcode = ByteToOpcode(Ver, ins.byte)
    BY SMT, <1>6, <1>7 DEF Opcode
  <1>9. Opcode.hasArg
    BY <1>8, ByteTakesOperand DEF Ahead, Long
  <1>10. Rest = 3 /\ Counted = 6
    BY SMT, <1>2, <1>7, <1>9 DEF Rest, Counted
  <1>11. Operand = Int32((high % 256) + 256 * (high \div 256), (low % 256) + 256 * (low \div 256))
    BY SMT, <1>2, <1>6, <1>7, <1>9 DEF Operand, Get16
  <1>12. Operand = ins.operand
    BY SMT, <1>4, <1>11, TwoBytes
  <1> QED
    BY SMT, <1>5, <1>6, <1>7, <1>8, <1>10, <1>12 DEF ReadAs, Whole

LEMMA ReadWhole ==
  ASSUME NEW ins, Ahead(ins, Len(Encoding(Ver, ins)))
  PROVE  ReadAs(ins)
  <1>1. Ver \in Versions /\ Encodable(Ver, ins)
    BY DEF Ahead, Ver
  <1> QED
    BY <1>1, FiveForms, UnitAhead, ExtendedAhead, NoOperandAhead, ShortAhead, LongAhead

(* Of an instruction that is cut off bc_next asks for more than is there. *)
LEMMA ReadCut ==
  ASSUME NEW ins, NEW n \in Nat \ {0}, Ahead(ins, n), Len(file.code) = at + n, n < Len(Encoding(Ver, ins))
  PROVE  ~Whole
  <1>1. Ver \in Versions /\ Encodable(Ver, ins) /\ at \in Nat
    BY DEF Ahead, Ver
  <1>2. /\ \A k \in 1 .. n : Byte(k) = Encoding(Ver, ins)[k]
        /\ Left = n
        /\ ins.byte # EXTENDED_ARG(Ver)
    BY SMT, <1>1, BytesAhead
  <1>3. CASE Unit36(Ver, ins)
    <2>1. Encoding(Ver, ins) = <<ins.byte, ins.operand>>
      BY <1>1, <1>3, FormBytes
    <2>2. Byte(1) = ins.byte
      BY SMT, <1>2, <2>1
    <2>3. Prefix = 0 /\ Rest = 2
      BY SMT, <1>2, <1>3, <2>2 DEF Extended, Prefix, Rest, Unit36
    <2> QED
      BY SMT, <1>2, <2>1, <2>3 DEF Whole
  <1>4. CASE Extended36(Ver, ins)
    <2>1. Encoding(Ver, ins) = <<EXTENDED_ARG(Ver), ins.operand \div 256, ins.byte, ins.operand % 256>>
      BY <1>1, <1>4, FormBytes
    <2>2. Byte(1) = EXTENDED_ARG(Ver)
      BY SMT, <1>2, <2>1
    <2>3. Prefix = 2 /\ Rest = 2
      BY SMT, <1>4, <2>2 DEF Extended, Prefix, Rest, Extended36
    <2> QED
      BY SMT, <1>2, <2>1, <2>3 DEF Whole
  <1>5. CASE NoOperand(Ver, ins)
    <2>1. Encoding(Ver, ins) = <<ins.byte>>
      BY <1>1, <1>5, FormBytes
    <2> QED
      BY SMT, <2>1
  <1>6. CASE Short(Ver, ins)
    <2>1. Encoding(Ver, ins) = ShortBytes(Ver, ins)
      BY <1>1, <1>6, FormBytes
    <2>2. Byte(1) = ins.byte /\ n < 3
      BY SMT, <1>2, <2>1 DEF ShortBytes
    <2>3. ~Extended /\ Prefix = 0 /\ ~(Ver >= 306)
      BY SMT, <1>1, <1>2, <1>6, <2>2 DEF Extended, Prefix, Short, Versions
    <2>4. Opcode.hasArg
      <3>1. Opcode = ByteToOpcode(Ver, ins.byte)
        BY SMT, <2>2, <2>3 DEF Opcode
      <3> QED
        BY <1>6, <3>1, ByteTakesOperand DEF Ahead, Short
    <2>5. Rest = 3
      BY SMT, <2>3, <2>4 DEF Rest
    <2> QED
      BY SMT, <1>2, <2>2, <2>3, <2>5 DEF Whole
  <1>7. CASE Long(Ver, ins)
    <2>1. Encoding(Ver, ins) = LongBytes(Ver, ins)
      BY <1>1, <1>7, FormBytes
    <2>2. Byte(1) = EXTENDED_ARG(Ver) /\ n < 6 /\ (n > 3 => Byte(4) = ins.byte)
      BY SMT, <1>2, <2>1 DEF LongBytes
    <2>3. Extended /\ Prefix = 3 /\ ~(Ver >= 306)
      BY SMT, <1>1, <1>7, <2>2 DEF Extended, Prefix, Long, Versions
    <2>4. CASE n <= 3
      BY SMT, <1>2, <2>3, <2>4 DEF Whole
    <2>5. CASE n > 3
      <3>1. Opcode = ByteToOpcode(Ver, ins.byte)
        BY SMT, <2>2, <2>3, <2>5 DEF Opcode
      <3>2. Opcode.hasArg
        BY <1>7, <3>1, ByteTakesOperand DEF Ahead, Long
      <3>3. Rest = 3
        BY SMT, <2>3, <3>2 DEF Rest
      <3> QED
        BY SMT, <1>2, <2>2, <2>3, <3>3 DEF Whole
    <2> QED
      BY SMT, <2>4, <2>5
  <1> QED
    BY <1>1, <1>3, <1>4, <1>5, <1>6, <1>7, FiveForms

-----------------------------------------------------------------------------
(* A walk that stands in front of an instruction of the file. *)
LEMMA LayoutTypes ==
  ASSUME NEW f \in Files
  PROVE  /\ f.ver \in Versions
         /\ f.code \in Seq(Bytes)
         /\ Len(f.code) \in Nat
         /\ f.instrs \in Seq([byte : Bytes, operand : Int, wide : BOOLEAN])
         /\ Len(f.instrs) \in Nat
         /\ f.at[1] = 0
         /\ \A i \in 1 .. Len(f.instrs) + 1 : f.at[i] \in Nat
         /\ \A i \in 1 .. Len(f.instrs) : f.instrs[i] \in [byte : Bytes, operand : Int, wide : BOOLEAN]
  <1>1. CodeLaidOut(f)
    BY LayoutAssumption DEF Layout
  <1>2. /\ f.ver \in Versions
        /\ f.code \in Seq(Bytes)
        /\ f.instrs \in Seq([byte : Bytes, operand : Int, wide : BOOLEAN])
        /\ f.at \in [1 .. Len(f.instrs) + 1 -> Nat]
        /\ f.at[1] = 0
    BY <1>1 DEF CodeLaidOut
  <1>3. \A i \in 1 .. Len(f.instrs) : f.instrs[i] \in [byte : Bytes, operand : Int, wide : BOOLEAN]
    BY <1>2, ElementOfSeq
  <1>4. Len(f.code) \in Nat /\ Len(f.instrs) \in Nat
    BY <1>2, LenProperties
  <1>5. \A i \in 1 .. Len(f.instrs) + 1 : f.at[i] \in Nat
    BY <1>2
  <1> QED
    BY <1>2, <1>3, <1>4, <1>5

LEMMA EncodingLength ==
  ASSUME NEW ver \in Versions, NEW ins, Encodable(ver, ins)
  PROVE  Len(Encoding(ver, ins)) \in Nat /\ Len(Encoding(ver, ins)) > 0
  <1>1. \A a, b, c, d, e, f :
          /\ Len(<<a>>) = 1 /\ Len(<<a, b>>) = 2 /\ Len(<<a, b, c>>) = 3
          /\ Len(<<a, b, c, d>>) = 4 /\ Len(<<a, b, c, d, e, f>>) = 6
    BY SMT
  <1>2. \/ Len(Encoding(ver, ins)) = 1 \/ Len(Encoding(ver, ins)) = 2 \/ Len(Encoding(ver, ins)) = 3
        \/ Len(Encoding(ver, ins)) = 4 \/ Len(Encoding(ver, ins)) = 6
    BY <1>1, FiveForms, FormBytes DEF ShortBytes, LongBytes
  <1> QED
    BY SMT, <1>2

LEMMA StandsAt ==
  ASSUME file \in Files, phase \in {"targets", "code"},
         NEW n \in 0 .. Len(file.instrs), at = file.at[n + 1]
  PROVE  /\ Whole => /\ n < Len(file.instrs)
                     /\ Opcode = ByteToOpcode(Ver, file.instrs[n + 1].byte)
                     /\ Operand = file.instrs[n + 1].operand
                     /\ at + Prefix + Rest = file.at[n + 2]
                     /\ at + Counted = file.at[n + 2]
         /\ Left = 0 => n = Len(file.instrs) /\ file.rest = 0
         /\ Left > 0 /\ ~Whole => file.rest > 0
  <1> DEFINE ins   == file.instrs[n + 1]
             width == Len(Encoding(Ver, ins))
  <1>1. CodeLaidOut(file)
    BY LayoutAssumption DEF Layout
  <1>2. /\ n \in Nat /\ at \in Nat /\ Len(file.code) \in Nat /\ Len(file.instrs) \in Nat
        /\ file.ver \in Versions /\ file.code \in Seq(Bytes)
    BY SMT, LayoutTypes
  <1>3. Left = Len(file.code) - at
    BY DEF Left, Buffer
  <1>4. CASE n < Len(file.instrs)
    <2>1. n + 1 \in 1 .. Len(file.instrs) /\ (n + 1) + 1 = n + 2
      BY SMT, <1>2, <1>4
    <2>2. /\ Encodable(file.ver, file.instrs[n + 1])
          /\ file.at[(n + 1) + 1] = file.at[n + 1] + Len(Encoding(file.ver, file.instrs[n + 1]))
          /\ file.at[(n + 1) + 1] <= Len(file.code)
          /\ LaidAt(file, file.at[n + 1], file.instrs[n + 1], Len(Encoding(file.ver, file.instrs[n + 1])))
      BY <1>1, <2>1 DEF CodeLaidOut
    <2>3. /\ Encodable(Ver, ins)
          /\ file.at[n + 2] = at + width
          /\ file.at[n + 2] <= Len(file.code)
          /\ LaidAt(file, at, ins, width)
      BY <2>1, <2>2 DEF Ver
    <2>4. width \in Nat /\ width > 0
      BY <1>2, <2>3, EncodingLength DEF Ver
    <2> HIDE DEF ins, width
    <2>5. Ahead(ins, width)
      BY SMT, <1>2, <2>3, <2>4 DEF Ahead
    <2>6. ReadAs(ins)
      BY <2>5, ReadWhole DEF width
    <2>7. /\ Opcode = ByteToOpcode(Ver, ins.byte) /\ Operand = ins.operand
          /\ Prefix + Rest = width /\ Counted = width
      BY <2>6 DEF ReadAs, width
    <2>8. Prefix \in Int /\ Rest \in Int
      BY SMT DEF Prefix, Rest
    <2>9. at + Prefix + Rest = file.at[n + 2] /\ at + Counted = file.at[n + 2]
      <3>1. at + Prefix + Rest = at + (Prefix + Rest)
        BY SMT, <1>2, <2>8
      <3> QED
        BY <2>3, <2>7, <3>1
    <2>10. Left # 0
      BY SMT, <1>2, <1>3, <2>3, <2>4
    <2>11. Whole
      BY <2>6 DEF ReadAs
    <2> QED
      BY <1>4, <2>7, <2>9, <2>10, <2>11 DEF ins
  <1>5. CASE ~(n < Len(file.instrs))
    <2>1. n = Len(file.instrs)
      BY SMT, <1>2, <1>5
    <2>2. ~Whole
      <3>1. file.rest \in Nat /\ Len(file.code) = at + file.rest
        BY <1>1, <2>1 DEF CodeLaidOut
      <3>2. CASE file.rest = 0
        BY SMT, <1>2, <1>3, <3>1, <3>2 DEF Whole
      <3>3. CASE file.rest # 0
        <4>1. /\ Encodable(Ver, file.next)
              /\ file.rest < Len(Encoding(Ver, file.next))
              /\ LaidAt(file, at, file.next, file.rest)
          <5>1. file.rest > 0
            BY SMT, <3>1, <3>3
          <5> QED
            BY <1>1, <2>1, <5>1 DEF CodeLaidOut, Ver
        <4>2. Ahead(file.next, file.rest)
          BY SMT, <1>2, <3>1, <4>1 DEF Ahead
        <4> QED
          BY <3>1, <3>3, <4>1, <4>2, ReadCut
      <3> QED
        BY <3>2, <3>3
    <2>3. Left = file.rest
      <3>1. file.rest \in Nat /\ Len(file.code) = at + file.rest
        BY <1>1, <2>1 DEF CodeLaidOut
      <3> QED
        BY SMT, <1>2, <1>3, <3>1
    <2> QED
      BY <2>1, <2>2, <2>3
  <1> QED
    BY <1>4, <1>5

-----------------------------------------------------------------------------
(* Natural numbers: a set of them has a least one, so that what holds of 0 *)
(* and of the next number holds of all.                                    *)
LEMMA NatMin ==
  ASSUME NEW T, T \subseteq Nat, T # {}
  PROVE  \E x \in T : \A y \in T : x <= y
  <1> DEFINE R == {ss \in Nat \X Nat : ss[1] < ss[2]}
  <1>1. IsWellFoundedOn(R, Nat)
    BY NatLessThanWellFounded DEF OpToRel
  <1>2. \A x, y \in Nat : <<y, x>> \in R <=> y < x
    OBVIOUS
  <1> HIDE DEF R
  <1>3. PICK x \in T : \A y \in T : ~ (<<y, x>> \in R)
    BY <1>1, WFMin
  <1>4. \A y \in T : ~ (y < x) /\ y \in Nat /\ x \in Nat
    BY <1>2, <1>3
  <1>5. \A y \in T : x <= y
    BY SMT, <1>4
  <1> QED
    BY <1>5

LEMMA SetInduction ==
  ASSUME NEW S, 0 \in S, \A n \in Nat : n \in S => n + 1 \in S
  PROVE  Nat \subseteq S
  <1> DEFINE T == Nat \ S
  <1>1. ASSUME T # {} PROVE FALSE
    <2>1. PICK x \in T : \A y \in T : x <= y
      BY <1>1, NatMin
    <2>2. x - 1 \in Nat /\ x - 1 \notin T
      BY <2>1
    <2>3. (x - 1) + 1 = x
      BY <2>1
    <2> QED
      BY <2>2, <2>3
  <1> QED
    BY <1>1

(* Places that go up from each to the next go up. *)
LEMMA Increasing ==
  ASSUME NEW n \in Nat, NEW g,
         \A i \in 1 .. n + 1 : g[i] \in Nat,
         \A i \in 1 .. n : g[i] < g[i + 1]
  PROVE  \A i, j \in 1 .. n + 1 : i < j => g[i] < g[j]
  <1> DEFINE S == {d \in Nat : \A i \in 1 .. n + 1 : i + d + 1 \in 1 .. n + 1 => g[i] < g[i + d + 1]}
  <1>1. 0 \in S
    OBVIOUS
  <1>2. ASSUME NEW d \in Nat, d \in S PROVE d + 1 \in S
    <2> SUFFICES ASSUME NEW i \in 1 .. n + 1, i + (d + 1) + 1 \in 1 .. n + 1
                 PROVE  g[i] < g[i + (d + 1) + 1]
      OBVIOUS
    <2>1. i + d + 1 \in 1 .. n /\ i + d + 1 \in 1 .. n + 1 /\ (i + d + 1) + 1 = i + (d + 1) + 1
      OBVIOUS
    <2>2. g[i] < g[i + d + 1]
      BY <1>2, <2>1
    <2>3. g[i + d + 1] < g[i + (d + 1) + 1]
      BY <2>1
    <2> HIDE DEF S
    <2>4. g[i] \in Nat /\ g[i + d + 1] \in Nat /\ g[i + (d + 1) + 1] \in Nat
      BY <2>1
    <2> QED
      BY SMT, <2>2, <2>3, <2>4
  <1>3. Nat \subseteq S
    <2> HIDE DEF S
    <2> QED
      BY <1>1, <1>2, SetInduction
  <1> SUFFICES ASSUME NEW i \in 1 .. n + 1, NEW j \in 1 .. n + 1, i < j PROVE g[i] < g[j]
    OBVIOUS
  <1>4. j - i - 1 \in Nat /\ i + (j - i - 1) + 1 = j
    OBVIOUS
  <1> QED
    BY <1>3, <1>4

-----------------------------------------------------------------------------
(* The groups of a number, and the part of it that the first j give. *)
Partial(n, j) == IF j = 0 THEN 0 ELSE n \div Weight[GroupCount(n) + 1 - j]

LEMMA Shifts ==
  ASSUME NEW n \in TableNumbers
  PROVE  /\ GroupCount(n) \in 1 .. 5
         /\ \A m \in 1 .. 5 : n \div Weight[m] \in Nat
         /\ \A m \in 1 .. 4 : (n \div Weight[m]) \div 64 = n \div Weight[m + 1]
         /\ n \div Weight[GroupCount(n)] < 64
         /\ n \div Weight[1] = n
  <1>1. n \in Nat /\ n < 1073741824
    BY DEF TableNumbers
  <1>2. GroupCount(n) \in 1 .. 5
    BY DEF GroupCount
  <1>3. /\ Weight[1] = 1 /\ Weight[2] = 64 /\ Weight[3] = 4096 /\ Weight[4] = 262144 /\ Weight[5] = 16777216
    BY DEF Weight
  <1>4. /\ n \div 64 \in Nat /\ n \div 4096 \in Nat /\ n \div 262144 \in Nat /\ n \div 16777216 \in Nat
        /\ n \div 1 = n
    BY SMT, <1>1
  <1>5. /\ (n \div 64) \div 64 = n \div 4096
        /\ (n \div 4096) \div 64 = n \div 262144
        /\ (n \div 262144) \div 64 = n \div 16777216
    BY SMT, <1>1
  <1>6. \A m \in 1 .. 5 : m = 1 \/ m = 2 \/ m = 3 \/ m = 4 \/ m = 5
    OBVIOUS
  <1>7. \A m \in 1 .. 4 : (m = 1 /\ m + 1 = 2) \/ (m = 2 /\ m + 1 = 3) \/ (m = 3 /\ m + 1 = 4) \/ (m = 4 /\ m + 1 = 5)
    OBVIOUS
  <1>8. \A m \in 1 .. 5 : n \div Weight[m] \in Nat
    BY <1>1, <1>3, <1>4, <1>6
  <1>9. \A m \in 1 .. 4 : (n \div Weight[m]) \div 64 = n \div Weight[m + 1]
    BY <1>3, <1>4, <1>5, <1>7
  <1>10. n \div Weight[GroupCount(n)] < 64
    <2>1. \/ GroupCount(n) = 1 /\ n < 64
          \/ GroupCount(n) = 2 /\ n < 4096
          \/ GroupCount(n) = 3 /\ n < 262144
          \/ GroupCount(n) = 4 /\ n < 16777216
          \/ GroupCount(n) = 5
      BY SMT, <1>1 DEF GroupCount
    <2>2. /\ n < 64 => n \div 1 < 64
          /\ n < 4096 => n \div 64 < 64
          /\ n < 262144 => n \div 4096 < 64
          /\ n < 16777216 => n \div 262144 < 64
          /\ n \div 16777216 < 64
      BY SMT, <1>1
    <2> QED
      BY <1>3, <2>1, <2>2
  <1> QED
    BY <1>2, <1>3, <1>4, <1>8, <1>9, <1>10

(* Six bits, and the bits above them. *)
LEMMA SixBits ==
  ASSUME NEW x \in Nat, NEW h \in {0, 128}, NEW c \in {0, 64}
  PROVE  /\ ((x % 64) + c + h) % 64 = x % 64
         /\ (((x % 64) + c + h) \div 64) % 2 = 1 <=> c = 64
         /\ 64 * (x \div 64) + (x % 64) = x
  <1>1. x % 64 \in 0 .. 63 /\ 64 * (x \div 64) + (x % 64) = x
    OBVIOUS
  <1>2. \A y \in 0 .. 63 : /\ (y + c + h) % 64 = y
                           /\ ((y + c + h) \div 64) % 2 = 1 <=> c = 64
    OBVIOUS
  <1> QED
    BY <1>1, <1>2

LEMMA GroupRead ==
  ASSUME NEW n \in TableNumbers, NEW j \in Nat, j < GroupCount(n),
         NEW h \in {0, 128}, NEW byte, byte = Group(n, j + 1) + h
  PROVE  /\ 64 * Partial(n, j) + (byte % 64) = Partial(n, j + 1)
         /\ (byte \div 64) % 2 = 1 <=> j + 1 < GroupCount(n)
         /\ j + 1 = GroupCount(n) => Partial(n, j + 1) = n
  <1> DEFINE m == GroupCount(n) + 1 - (j + 1)
             x == n \div Weight[m]
             c == IF j + 1 < GroupCount(n) THEN 64 ELSE 0
  <1>1. m \in 1 .. 5 /\ GroupCount(n) \in 1 .. 5
    BY Shifts
  <1>2. x \in Nat
    BY <1>1, Shifts
  <1>3. Partial(n, j + 1) = x
    BY DEF Partial
  <1>4. Partial(n, j) = x \div 64
    <2>1. CASE j = 0
      <3>1. m = GroupCount(n)
        BY <1>1, <2>1
      <3>2. x < 64
        BY <3>1, Shifts
      <3>3. x \div 64 = 0
        <4> HIDE DEF x
        <4> QED
          BY <1>2, <3>2
      <3> QED
        BY <2>1, <3>3 DEF Partial
    <2>2. CASE j # 0
      <3>1. m \in 1 .. 4 /\ m + 1 = GroupCount(n) + 1 - j
        BY <1>1, <2>2
      <3> HIDE DEF m
      <3> QED
        BY <2>2, <3>1, Shifts DEF Partial
    <2> QED
      BY <2>1, <2>2
  <1>5. byte = (x % 64) + c + h
    BY DEF Group
  <1>6. c \in {0, 64} /\ (c = 64 <=> j + 1 < GroupCount(n))
    OBVIOUS
  <1>7. j + 1 = GroupCount(n) => x = n
    <2>1. j + 1 = GroupCount(n) => m = 1
      BY <1>1
    <2> QED
      BY <2>1, Shifts
  <1> HIDE DEF x, c, m
  <1> QED
    BY <1>2, <1>3, <1>4, <1>5, <1>6, <1>7, SixBits
-----------------------------------------------------------------------------
(* The table of a file. *)
Entries == [start : Nat, end : Nat, target : Nat, depth : Nat, lasti : BOOLEAN]

LEMMA RowTypes ==
  ASSUME NEW row, IsRow(row)
  PROVE  /\ row \in Entries
         /\ \A q \in 1 .. 4 : Numbers(row)[q] \in TableNumbers
  <1>1. /\ row = [start |-> row.start, end |-> row.end, target |-> row.target,
                  depth |-> row.depth, lasti |-> row.lasti]
        /\ row.start \in Nat /\ row.start % 2 = 0 /\ row.start \div 2 < 1073741824
        /\ row.end \in Nat /\ row.end % 2 = 0 /\ row.end \div 2 < 1073741824
        /\ row.target \in Nat /\ row.target \div 2 < 1073741824
        /\ row.start <= row.end
        /\ row.depth \in Nat /\ row.depth < 536870912
        /\ row.lasti \in BOOLEAN
    BY DEF IsRow, Offsets
  <1>2. row \in Entries
    BY <1>1 DEF Entries
  <1>3. row.start \div 2 \in TableNumbers /\ row.target \div 2 \in TableNumbers
    BY SMT, <1>1 DEF TableNumbers
  <1>4. (row.end - row.start) \div 2 \in TableNumbers
    BY SMT, <1>1 DEF TableNumbers
  <1>5. 2 * row.depth + (IF row.lasti THEN 1 ELSE 0) \in TableNumbers
    BY SMT, <1>1 DEF TableNumbers
  <1>6. \A q \in 1 .. 4 : q = 1 \/ q = 2 \/ q = 3 \/ q = 4
    OBVIOUS
  <1> QED
    BY <1>2, <1>3, <1>4, <1>5, <1>6 DEF Numbers

(* exceptTableEntries makes of the numbers of an entry the entry. *)
LEMMA EntryOfRow ==
  ASSUME NEW row, IsRow(row), NEW f, \A q \in 1 .. 4 : f[q] = Numbers(row)[q]
  PROVE  Entry(f) = row
  <1>1. /\ row = [start |-> row.start, end |-> row.end, target |-> row.target,
                  depth |-> row.depth, lasti |-> row.lasti]
        /\ row.start \in Nat /\ row.start % 2 = 0
        /\ row.end \in Nat /\ row.end % 2 = 0
        /\ row.target \in Nat /\ row.target % 2 = 0
        /\ row.start <= row.end
        /\ row.depth \in Nat
        /\ row.lasti \in BOOLEAN
    BY DEF IsRow, Offsets
  <1>2. /\ f[1] = row.start \div 2
        /\ f[2] = (row.end - row.start) \div 2
        /\ f[3] = row.target \div 2
        /\ f[4] = 2 * row.depth + (IF row.lasti THEN 1 ELSE 0)
    BY DEF Numbers
  <1>3. 2 * f[1] = row.start /\ 2 * f[3] = row.target
    BY SMT, <1>1, <1>2
  <1>4. 2 * f[1] + 2 * f[2] = row.end
    BY SMT, <1>1, <1>2
  <1>5. f[4] \div 2 = row.depth
    BY SMT, <1>1, <1>2
  <1>6. (f[4] % 2 = 1) = row.lasti
    BY SMT, <1>1, <1>2
  <1> QED
    BY <1>1, <1>3, <1>4, <1>5, <1>6 DEF Entry

LEMMA TableTypes ==
  ASSUME NEW f \in Files
  PROVE  /\ f.rows \in Seq(Entries) /\ Len(f.rows) \in Nat
         /\ \A r \in 1 .. Len(f.rows) + 1 : IsRow(RowOf(f, r))
         /\ \A r \in 1 .. Len(f.rows) + 1, q \in 1 .. 4 : Numbers(RowOf(f, r))[q] \in TableNumbers
         /\ f.table \in Seq(Bytes) /\ Len(f.table) \in Nat
         /\ \A i \in 1 .. 4 * Len(f.rows) + 5 : f.numberAt[i] \in Nat
         /\ f.numberAt[1] = 0
  <1>1. TableLaidOut(f)
    BY LayoutAssumption DEF Layout
  <1>2. /\ f.rows \in Seq({f.rows[r] : r \in DOMAIN f.rows})
        /\ \A r \in 1 .. Len(f.rows) + 1 : IsRow(RowOf(f, r))
        /\ f.table \in Seq(Bytes)
        /\ f.numberAt \in [1 .. 4 * Len(f.rows) + 5 -> Nat]
        /\ f.numberAt[1] = 0
    BY <1>1 DEF TableLaidOut
  <1>3. Len(f.rows) \in Nat /\ DOMAIN f.rows = 1 .. Len(f.rows) /\ Len(f.table) \in Nat
    BY <1>2, LenProperties
  <1>4. f.rows \in Seq(Entries)
    <2>1. ASSUME NEW r \in 1 .. Len(f.rows) PROVE f.rows[r] \in Entries
      <3>1. r \in 1 .. Len(f.rows) + 1 /\ RowOf(f, r) = f.rows[r]
        BY <1>3 DEF RowOf
      <3> QED
        BY <1>2, <3>1, RowTypes
    <2>2. f.rows \in [1 .. Len(f.rows) -> {f.rows[r] : r \in DOMAIN f.rows}]
      BY <1>2, LenProperties
    <2>3. f.rows \in [1 .. Len(f.rows) -> Entries]
      BY <2>1, <2>2
    <2> QED
      BY <1>3, <2>3, SeqDef
  <1>5. \A r \in 1 .. Len(f.rows) + 1, q \in 1 .. 4 : Numbers(RowOf(f, r))[q] \in TableNumbers
    BY <1>2, RowTypes
  <1> QED
    BY <1>2, <1>3, <1>4, <1>5

LEMMA PlacesGoUp ==
  ASSUME NEW f \in Files
  PROVE  \A i, j \in 1 .. 4 * Len(f.rows) + 5 : i < j => f.numberAt[i] < f.numberAt[j]
  <1> DEFINE n == 4 * Len(f.rows) + 4
  <1>1. Len(f.rows) \in Nat /\ \A i \in 1 .. n + 1 : f.numberAt[i] \in Nat
    BY TableTypes
  <1>2. ASSUME NEW i \in 1 .. n PROVE f.numberAt[i] < f.numberAt[i + 1]
    <2>1. PICK r \in 1 .. Len(f.rows) + 1, q \in 1 .. 4 : i = 4 * r + q - 4
      <3>1. /\ (i + 3) \div 4 \in 1 .. Len(f.rows) + 1
            /\ ((i - 1) % 4) + 1 \in 1 .. 4
            /\ i = 4 * ((i + 3) \div 4) + (((i - 1) % 4) + 1) - 4
        BY SMT, <1>1
      <3> QED
        BY <3>1
    <2>2. i + 1 = 4 * r + q - 3
      BY SMT, <1>1, <2>1
    <2>3. NextTo(f, r, q) = StartOf(f, r, q) + GroupCount(Numbers(RowOf(f, r))[q])
      BY LayoutAssumption DEF Layout, TableLaidOut
    <2>4. GroupCount(Numbers(RowOf(f, r))[q]) \in 1 .. 5
      BY TableTypes, Shifts
    <2>5. StartOf(f, r, q) = f.numberAt[i] /\ NextTo(f, r, q) = f.numberAt[i + 1]
      BY <2>1, <2>2 DEF StartOf, NextTo
    <2>6. f.numberAt[i] \in Nat
      BY <1>1
    <2> QED
      BY SMT, <2>3, <2>4, <2>5, <2>6
  <1> HIDE DEF n
  <1>3. n \in Nat /\ n + 1 = 4 * Len(f.rows) + 5
    BY SMT, <1>1 DEF n
  <1>4. \A i, j \in 1 .. n + 1 : i < j => f.numberAt[i] < f.numberAt[j]
    BY <1>1, <1>2, <1>3, Increasing
  <1> QED
    BY <1>3, <1>4

(* The offsets of a file's instructions. *)
LEMMA OffsetsGoUp ==
  ASSUME NEW f \in Files
  PROVE  \A i, j \in 1 .. Len(f.instrs) + 1 : i < j => f.at[i] < f.at[j]
  <1>1. Len(f.instrs) \in Nat /\ \A i \in 1 .. Len(f.instrs) + 1 : f.at[i] \in Nat
    BY LayoutTypes
  <1>2. ASSUME NEW i \in 1 .. Len(f.instrs) PROVE f.at[i] < f.at[i + 1]
    <2>1. /\ f.ver \in Versions /\ Encodable(f.ver, f.instrs[i])
          /\ f.at[i + 1] = f.at[i] + Len(Encoding(f.ver, f.instrs[i]))
      BY LayoutAssumption DEF Layout, CodeLaidOut
    <2>2. Len(Encoding(f.ver, f.instrs[i])) \in Nat /\ Len(Encoding(f.ver, f.instrs[i])) > 0
      BY <2>1, EncodingLength
    <2>3. f.at[i] \in Nat
      <3>1. i \in 1 .. Len(f.instrs) + 1
        BY SMT, <1>1
      <3> QED
        BY <1>1, <3>1
    <2> QED
      BY SMT, <2>1, <2>2, <2>3
  <1> QED
    BY <1>1, <1>2, Increasing

-----------------------------------------------------------------------------
(* The inductive invariant.  A walk stands in front of an instruction, or  *)
(* behind the last, and the offset that is counted is the place in the     *)
(* buffer.  opcode_at starts at the front only when it is called, so the   *)
(* last of its walks leaves both at zero for the walk of the caller.       *)
ReadIsPrefix ==
  /\ read \in Seq(Deliveries)
  /\ Len(read) <= Len(file.instrs)
  /\ \A i \in 1 .. Len(read) : read[i] = Delivered(file, i)

(* exceptTableEntries has read the rows before this one, the numbers of    *)
(* this one before the one it reads, and j groups of that.                 *)
Row     == RowOf(file, Len(entries) + 1)
Reading == Numbers(Row)[Len(fields) + 1]

Decoding ==
  /\ targets = <<>>
  /\ entries \in Seq(Entries) /\ Len(entries) <= Len(file.rows)
  /\ \A r \in 1 .. Len(entries) : entries[r] = file.rows[r]
  /\ fields \in Seq(TableNumbers) /\ Len(fields) <= 3
  /\ \A q \in 1 .. Len(fields) : fields[q] = Numbers(Row)[q]
  /\ at <= Len(file.table)
  /\ \E j \in Nat :
       /\ j < GroupCount(Reading)
       /\ at = StartOf(file, Len(entries) + 1, Len(fields) + 1) + j
       /\ more <=> j > 0
       /\ val = Partial(Reading, j)

(* opcode_at has passed the instructions that start before its target. *)
Codes == {ByteToOpcode(ver, b) : ver \in Versions, b \in Bytes} \cup {Invalid}

Seeking ==
  /\ read = <<>>
  /\ Len(targets) <= Len(entries)
  /\ \E n \in 0 .. Len(file.instrs) :
       /\ at = file.at[n + 1]
       /\ Len(targets) < Len(entries) => \A k \in 1 .. n : file.at[k] < Sought
  /\ pos = at
  /\ at # 0 => Len(targets) # Len(entries)

Walking == at = file.at[Len(read) + 1] /\ pos = at

IInv ==
  /\ file \in Files
  /\ phase \in {"table", "targets", "code", "done", "exit"}
  /\ phase = "table" => pos = 0 /\ read = <<>> /\ Decoding
  /\ phase \in {"targets", "code", "done"} => entries = file.rows /\ ~file.cut
  /\ phase = "targets" => Seeking
  /\ phase = "code" => Walking
  /\ phase = "done" => Len(read) = Len(file.instrs)
  /\ targets \in Seq(Codes)
  /\ ReadIsPrefix
  /\ TargetsFound
  /\ ExitsOnlyWhenCut

-----------------------------------------------------------------------------
(* The exception table *)

LEMMA StartsDecoding ==
  ASSUME Init
  PROVE  /\ phase = "table" => Decoding
         /\ phase = "code" => entries = file.rows /\ ~file.cut
  <1>1. /\ file \in Files /\ phase = IF file.ver >= 311 THEN "table" ELSE "code"
        /\ at = 0 /\ more = FALSE /\ val = 0
        /\ fields = <<>> /\ entries = <<>> /\ targets = <<>>
    BY DEF Init, Ver
  <1>2. /\ entries \in Seq(Entries) /\ fields \in Seq(TableNumbers)
        /\ Len(entries) = 0 /\ Len(fields) = 0
    BY SMT, <1>1
  <1>3. /\ Len(file.rows) \in Nat /\ Len(file.table) \in Nat /\ file.numberAt[1] = 0
        /\ 1 \in 1 .. Len(file.rows) + 1 /\ 1 \in 1 .. 4
    BY SMT, <1>1, TableTypes
  <1>4. StartOf(file, 1, 1) = 0
    BY <1>3 DEF StartOf
  <1>5. Decoding
    <2>1. Reading = Numbers(RowOf(file, 1))[1] /\ Len(entries) + 1 = 1 /\ Len(fields) + 1 = 1
      BY <1>2 DEF Reading, Row
    <2>2. Reading \in TableNumbers
      BY <1>1, <1>3, <2>1, TableTypes
    <2>3. GroupCount(Reading) \in 1 .. 5
      BY <2>2, Shifts
    <2>4. /\ 0 \in Nat /\ 0 < GroupCount(Reading) /\ val = Partial(Reading, 0)
          /\ at = StartOf(file, Len(entries) + 1, Len(fields) + 1) + 0
          /\ more <=> 0 > 0
      BY SMT, <1>1, <1>4, <2>1, <2>3 DEF Partial
    <2>5. /\ Len(entries) <= Len(file.rows) /\ Len(fields) <= 3 /\ at <= Len(file.table)
          /\ 1 .. Len(entries) = {} /\ 1 .. Len(fields) = {}
      BY SMT, <1>1, <1>2, <1>3
    <2> QED
      BY <1>1, <1>2, <2>4, <2>5 DEF Decoding
  <1>6. ASSUME phase = "code" PROVE entries = file.rows /\ ~file.cut
    <2>1. file.ver < 311
      <3>1. file.ver \in Versions
        BY <1>1, LayoutTypes
      <3> QED
        BY SMT, <1>1, <1>6, <3>1 DEF Versions
    <2>2. /\ file.rows = <<>> /\ file.table = <<>>
          /\ file.cut <=> StartOf(file, Len(file.rows) + 1, 1) # Len(file.table)
      BY <1>1, <2>1, LayoutAssumption DEF Layout, TableLaidOut
    <2>3. Len(file.rows) + 1 = 1 /\ Len(file.table) = 0
      BY SMT, <2>2
    <2> QED
      BY <1>1, <1>4, <2>2, <2>3
  <1> QED
    BY <1>5, <1>6

LEMMA DecodingTypes ==
  ASSUME IInv, phase = "table"
  PROVE  /\ file \in Files
         /\ Len(entries) \in Nat /\ Len(fields) \in 0 .. 3
         /\ Len(entries) + 1 \in 1 .. Len(file.rows) + 1 /\ Len(fields) + 1 \in 1 .. 4
         /\ Len(file.rows) \in Nat /\ Len(file.table) \in Nat
         /\ Reading \in TableNumbers /\ IsRow(Row)
         /\ GroupCount(Reading) \in 1 .. 5
         /\ StartOf(file, Len(entries) + 1, Len(fields) + 1) \in Nat
         /\ at \in Nat
         /\ Left = Len(file.table) - at
  <1>1. file \in Files /\ Decoding
    BY DEF IInv
  <1>2. Len(entries) \in Nat /\ Len(fields) \in Nat
    BY <1>1, LenProperties DEF Decoding
  <1>3. Len(file.rows) \in Nat /\ Len(file.table) \in Nat
    BY <1>1, TableTypes
  <1>4. /\ Len(fields) \in 0 .. 3
        /\ Len(entries) + 1 \in 1 .. Len(file.rows) + 1 /\ Len(fields) + 1 \in 1 .. 4
    <2>1. Len(fields) <= 3 /\ Len(entries) <= Len(file.rows)
      BY <1>1 DEF Decoding
    <2>2. \A a, b, c \in Nat : a <= 3 /\ b <= c => a \in 0 .. 3 /\ b + 1 \in 1 .. c + 1 /\ a + 1 \in 1 .. 4
      BY SMT
    <2> QED
      BY <1>2, <1>3, <2>1, <2>2
  <1>5. Reading \in TableNumbers /\ IsRow(Row)
    BY <1>1, <1>4, TableTypes DEF Reading, Row
  <1>6. GroupCount(Reading) \in 1 .. 5
    BY <1>5, Shifts
  <1>7. StartOf(file, Len(entries) + 1, Len(fields) + 1) \in Nat
    <2>1. 4 * (Len(entries) + 1) + (Len(fields) + 1) - 4 \in 1 .. 4 * Len(file.rows) + 5
      BY SMT, <1>2, <1>3, <1>4
    <2> QED
      BY <1>1, <2>1, TableTypes DEF StartOf
  <1>8. at \in Nat
    BY SMT, <1>1, <1>7 DEF Decoding
  <1>9. Left = Len(file.table) - at
    BY DEF Left, Buffer
  <1> QED
    BY <1>1, <1>2, <1>3, <1>4, <1>5, <1>6, <1>7, <1>8, <1>9

(* One byte of the table. *)
LEMMA TakesGroup ==
  ASSUME IInv, ReadTable, NEW j \in Nat, j < GroupCount(Reading),
         at = StartOf(file, Len(entries) + 1, Len(fields) + 1) + j,
         val = Partial(Reading, j)
  PROVE  /\ Number = Partial(Reading, j + 1)
         /\ Continues <=> j + 1 < GroupCount(Reading)
         /\ j + 1 = GroupCount(Reading) => Number = Reading
         /\ at + 1 <= Len(file.table)
  <1> DEFINE r == Len(entries) + 1
             q == Len(fields) + 1
             h == IF q = 1 /\ j + 1 = 1 THEN 128 ELSE 0
  <1>1. phase = "table" /\ Left > 0
    BY DEF ReadTable
  <1>2. /\ r \in 1 .. Len(file.rows) + 1 /\ q \in 1 .. 4
        /\ Reading = Numbers(RowOf(file, r))[q] /\ Reading \in TableNumbers
        /\ at \in Nat /\ Len(file.table) \in Nat /\ Left = Len(file.table) - at /\ file \in Files
        /\ GroupCount(Reading) \in 1 .. 5
    BY <1>1, DecodingTypes DEF Reading, Row
  <1>3. at + 1 <= Len(file.table)
    BY SMT, <1>1, <1>2
  <1>4. j + 1 \in 1 .. GroupCount(Reading) /\ h \in {0, 128}
    BY SMT, <1>2
  <1>5. at + 1 = StartOf(file, r, q) + (j + 1)
    <2>1. StartOf(file, r, q) \in Nat
      BY <1>1, DecodingTypes
    <2> QED
      BY SMT, <2>1
  <1>6. file.table[at + 1] = Group(Reading, j + 1) + h
    <2>1. \A k \in 1 .. GroupCount(Reading) :
            StartOf(file, r, q) + k <= Len(file.table) =>
              file.table[StartOf(file, r, q) + k] = Group(Reading, k) + (IF q = 1 /\ k = 1 THEN 128 ELSE 0)
      <3> HIDE DEF r, q
      <3>1. \A rr \in 1 .. Len(file.rows) + 1, qq \in 1 .. 4 :
              \A k \in 1 .. GroupCount(Numbers(RowOf(file, rr))[qq]) :
                StartOf(file, rr, qq) + k <= Len(file.table) =>
                  file.table[StartOf(file, rr, qq) + k]
                    = Group(Numbers(RowOf(file, rr))[qq], k) + (IF qq = 1 /\ k = 1 THEN 128 ELSE 0)
        BY <1>2, LayoutAssumption DEF Layout, TableLaidOut
      <3> QED
        BY <1>2, <3>1
    <2> HIDE DEF r, q
    <2> QED
      BY <1>3, <1>4, <1>5, <2>1 DEF h
  <1>7. Byte(1) = Group(Reading, j + 1) + h
    BY <1>1, <1>6 DEF Byte, Buffer
  <1> HIDE DEF r, q, h
  <1> QED
    BY <1>2, <1>3, <1>4, <1>7, GroupRead DEF Number, Continues

LEMMA Decodes ==
  ASSUME IInv, ReadTable
  PROVE  Decoding'
  <1>1. /\ phase = "table" /\ at' = at + 1
        /\ UNCHANGED <<file, phase, pos, targets, read>>
        /\ IF Continues THEN TakeGroup ELSE TakeField
    BY DEF ReadTable
  <1>2. Decoding
    BY <1>1 DEF IInv
  <1>3. /\ file \in Files
        /\ Len(entries) \in Nat /\ Len(fields) \in 0 .. 3
        /\ Len(entries) + 1 \in 1 .. Len(file.rows) + 1 /\ Len(fields) + 1 \in 1 .. 4
        /\ Len(file.rows) \in Nat /\ Len(file.table) \in Nat
        /\ Reading \in TableNumbers /\ IsRow(Row)
        /\ GroupCount(Reading) \in 1 .. 5
        /\ StartOf(file, Len(entries) + 1, Len(fields) + 1) \in Nat
    BY <1>1, DecodingTypes
  <1>4. PICK j \in Nat :
          /\ j < GroupCount(Reading)
          /\ at = StartOf(file, Len(entries) + 1, Len(fields) + 1) + j
          /\ more <=> j > 0
          /\ val = Partial(Reading, j)
    BY <1>2 DEF Decoding
  <1>5. /\ Number = Partial(Reading, j + 1)
        /\ Continues <=> j + 1 < GroupCount(Reading)
        /\ j + 1 = GroupCount(Reading) => Number = Reading
        /\ at' <= Len(file.table)
    BY <1>1, <1>4, TakesGroup
  <1>6. CASE Continues
    <2>1. more' = TRUE /\ val' = Number /\ UNCHANGED <<fields, entries>>
      BY <1>1, <1>6 DEF TakeGroup
    <2>2. Row' = Row /\ Reading' = Reading
      BY <1>1, <2>1 DEF Row, Reading, RowOf
    <2>3. /\ j + 1 \in Nat /\ j + 1 < GroupCount(Reading) /\ j + 1 > 0
          /\ at' = StartOf(file, Len(entries) + 1, Len(fields) + 1) + (j + 1)
      BY SMT, <1>1, <1>3, <1>4, <1>5, <1>6
    <2>4. StartOf(file, Len(entries) + 1, Len(fields) + 1)'
            = StartOf(file, Len(entries) + 1, Len(fields) + 1)
      BY <1>1, <2>1 DEF StartOf
    <2>5. \E k \in Nat :
            /\ k < GroupCount(Reading')
            /\ at' = StartOf(file, Len(entries) + 1, Len(fields) + 1)' + k
            /\ more' <=> k > 0
            /\ val' = Partial(Reading', k)
      BY <1>5, <2>1, <2>2, <2>3, <2>4
    <2> QED
      BY <1>1, <1>2, <1>5, <2>1, <2>2, <2>5 DEF Decoding
  <1>7. CASE ~Continues
    <2>1. /\ more' = FALSE /\ val' = 0
          /\ IF Len(fields) < 3
             THEN fields' = Append(fields, Number) /\ UNCHANGED entries
             ELSE fields' = <<>> /\ entries' = Append(entries, Entry(Append(fields, Number)))
      BY <1>1, <1>7 DEF TakeField
    <2>2. j + 1 = GroupCount(Reading) /\ Number = Reading
      <3>1. j + 1 = GroupCount(Reading)
        BY SMT, <1>3, <1>4, <1>5, <1>7
      <3> QED
        BY <1>5, <3>1
    <2>3. at' = NextTo(file, Len(entries) + 1, Len(fields) + 1)
      <3>1. NextTo(file, Len(entries) + 1, Len(fields) + 1)
              = StartOf(file, Len(entries) + 1, Len(fields) + 1) + GroupCount(Reading)
        BY <1>3, LayoutAssumption DEF Layout, TableLaidOut, Reading, Row
      <3> QED
        BY SMT, <1>1, <1>3, <1>4, <2>2, <3>1
    <2>4. /\ Append(fields, Number) \in Seq(TableNumbers)
          /\ Len(Append(fields, Number)) = Len(fields) + 1
          /\ \A q \in 1 .. Len(fields) : Append(fields, Number)[q] = fields[q]
          /\ Append(fields, Number)[Len(fields) + 1] = Number
      BY <1>2, <1>3, <2>2, AppendProperties DEF Decoding
    <2>5. \A q \in 1 .. Len(fields) + 1 : Append(fields, Number)[q] = Numbers(Row)[q]
      <3> SUFFICES ASSUME NEW q \in 1 .. Len(fields) + 1 PROVE Append(fields, Number)[q] = Numbers(Row)[q]
        OBVIOUS
      <3>1. q \in 1 .. Len(fields) \/ q = Len(fields) + 1
        BY SMT, <1>3
      <3> QED
        BY <1>2, <2>2, <2>4, <3>1 DEF Decoding, Reading
    <2>6. CASE Len(fields) < 3
      <3>1. fields' = Append(fields, Number) /\ entries' = entries /\ Len(fields') = Len(fields) + 1
        BY <2>1, <2>4, <2>6
      <3>2. Row' = Row
        BY <1>1, <3>1 DEF Row, RowOf
      <3>3. /\ Len(fields') <= 3 /\ Len(fields') + 1 \in 1 .. 4
            /\ 4 * (Len(entries) + 1) + (Len(fields) + 1) - 3 = 4 * (Len(entries) + 1) + (Len(fields') + 1) - 4
        BY SMT, <1>3, <2>6, <3>1
      <3>4. at' = StartOf(file, Len(entries) + 1, Len(fields) + 1)'
        BY <1>1, <2>3, <3>1, <3>3 DEF StartOf, NextTo
      <3>5. Reading' \in TableNumbers
        <4>1. Reading' = Numbers(RowOf(file, Len(entries) + 1))[Len(fields') + 1]
          BY <3>2 DEF Reading, Row
        <4> QED
          BY <1>3, <3>3, <4>1, TableTypes
      <3>6. GroupCount(Reading') \in 1 .. 5
        BY <3>5, Shifts
      <3>7. StartOf(file, Len(entries) + 1, Len(fields) + 1)' \in Nat
        BY <1>1, <1>3, <3>4, DecodingTypes
      <3>8. \E k \in Nat :
              /\ k < GroupCount(Reading')
              /\ at' = StartOf(file, Len(entries) + 1, Len(fields) + 1)' + k
              /\ more' <=> k > 0
              /\ val' = Partial(Reading', k)
        <4>1. /\ 0 \in Nat /\ 0 < GroupCount(Reading') /\ ~(0 > 0) /\ Partial(Reading', 0) = 0
              /\ at' = StartOf(file, Len(entries) + 1, Len(fields) + 1)' + 0
          BY SMT, <3>4, <3>6, <3>7 DEF Partial
        <4> QED
          BY <2>1, <4>1
      <3> QED
        BY <1>1, <1>2, <1>5, <2>4, <2>5, <3>1, <3>2, <3>3, <3>8 DEF Decoding
    <2>7. CASE ~(Len(fields) < 3)
      <3> DEFINE e == Entry(Append(fields, Number))
      <3>1. /\ fields' = <<>> /\ entries' = Append(entries, e) /\ Len(fields) = 3
            /\ Len(fields') = 0 /\ fields' \in Seq(TableNumbers) /\ 1 .. Len(fields') = {}
        <4>1. fields' = <<>> /\ entries' = Append(entries, e)
          BY <2>1, <2>7
        <4>2. Len(fields) = 3
          <5>1. \A a \in 0 .. 3 : a < 3 \/ a = 3
            BY SMT
          <5> QED
            BY <1>3, <2>7, <5>1
        <4>3. Len(<<>>) = 0 /\ <<>> \in Seq(TableNumbers) /\ 1 .. 0 = {}
          BY SMT
        <4> QED
          BY <4>1, <4>2, <4>3
      <3>2. e = Row
        <4>1. Len(fields) + 1 = 4
          BY SMT, <3>1
        <4>2. \A q \in 1 .. 4 : Append(fields, Number)[q] = Numbers(Row)[q]
          BY <2>5, <4>1
        <4> QED
          BY <1>3, <4>2, EntryOfRow
      <3>3. Row \in Entries
        BY <1>3, RowTypes
      <3> HIDE DEF e
      <3>4. /\ entries' \in Seq(Entries) /\ Len(entries') = Len(entries) + 1
            /\ \A r \in 1 .. Len(entries) : entries'[r] = entries[r]
            /\ entries'[Len(entries) + 1] = Row
        BY <1>2, <3>1, <3>2, <3>3, AppendProperties DEF Decoding
      <3>5. Len(entries) + 1 <= Len(file.rows)
        <4>1. Len(file.table) < NextTo(file, Len(file.rows) + 1, 4)
          BY <1>3, LayoutAssumption DEF Layout, TableLaidOut
        <4>2. Len(entries) + 1 # Len(file.rows) + 1
          <5> SUFFICES ASSUME Len(entries) + 1 = Len(file.rows) + 1 PROVE FALSE
            OBVIOUS
          <5>1. Len(fields) + 1 = 4
            BY <3>1
          <5>2. at' < at'
            <6>1. at' = NextTo(file, Len(file.rows) + 1, 4)
              BY <2>3, <5>1
            <6>2. at' \in Int /\ Len(file.table) \in Int
              BY <1>1, <1>3, DecodingTypes
            <6> QED
              BY SMT, <1>5, <4>1, <6>1, <6>2
          <5> QED
            BY <1>1, <1>3, <5>2, DecodingTypes
        <4> QED
          BY SMT, <1>3, <4>2
      <3>6. \A r \in 1 .. Len(entries') : entries'[r] = file.rows[r]
        <4> SUFFICES ASSUME NEW r \in 1 .. Len(entries) + 1 PROVE entries'[r] = file.rows[r]
          BY <3>4
        <4>1. r \in 1 .. Len(entries) \/ r = Len(entries) + 1
          BY SMT, <1>3
        <4>2. Row = file.rows[Len(entries) + 1]
          BY <3>5 DEF Row, RowOf
        <4> QED
          BY <1>2, <3>4, <4>1, <4>2 DEF Decoding
      <3>7. /\ Len(entries') + 1 \in 1 .. Len(file.rows) + 1 /\ Len(fields') + 1 \in 1 .. 4
            /\ Len(entries') <= Len(file.rows)
            /\ 4 * (Len(entries) + 1) + (Len(fields) + 1) - 3 = 4 * (Len(entries') + 1) + (Len(fields') + 1) - 4
        BY SMT, <1>3, <3>1, <3>4, <3>5
      <3>8. at' = StartOf(file, Len(entries) + 1, Len(fields) + 1)'
        BY <1>1, <2>3, <3>7 DEF StartOf, NextTo
      <3>9. Reading' \in TableNumbers
        <4>1. Reading' = Numbers(RowOf(file, Len(entries') + 1))[Len(fields') + 1]
          BY <1>1 DEF Reading, Row, RowOf
        <4> QED
          BY <1>3, <3>7, <4>1, TableTypes
      <3>10. GroupCount(Reading') \in 1 .. 5
        BY <3>9, Shifts
      <3>11. at' \in Nat
        BY <1>1, DecodingTypes
      <3>12. \E k \in Nat :
              /\ k < GroupCount(Reading')
              /\ at' = StartOf(file, Len(entries) + 1, Len(fields) + 1)' + k
              /\ more' <=> k > 0
              /\ val' = Partial(Reading', k)
        <4>1. /\ 0 \in Nat /\ 0 < GroupCount(Reading') /\ ~(0 > 0) /\ Partial(Reading', 0) = 0
              /\ at' = StartOf(file, Len(entries) + 1, Len(fields) + 1)' + 0
          BY SMT, <3>8, <3>10, <3>11 DEF Partial
        <4> QED
          BY <2>1, <4>1
      <3>13. \A q \in 1 .. Len(fields') : fields'[q] = Numbers(Row')[q]
        BY <3>1
      <3> QED
        BY <1>1, <1>2, <1>5, <3>1, <3>4, <3>6, <3>7, <3>12, <3>13 DEF Decoding
    <2> QED
      BY <2>6, <2>7
  <1> QED
    BY <1>6, <1>7

(* At the end of the table the rows are complete, unless it was cut off. *)
LEMMA TableEnds ==
  ASSUME IInv, phase = "table", Left = 0
  PROVE  /\ ~InsideEntry => entries = file.rows /\ ~file.cut
         /\ InsideEntry => file.cut
  <1> DEFINE r == Len(entries) + 1
             q == Len(fields) + 1
             n == Len(file.rows)
             G(i) == file.numberAt[i]
  <1>1. Decoding
    BY DEF IInv
  <1>2. /\ file \in Files /\ Len(entries) \in Nat /\ Len(fields) \in 0 .. 3
        /\ r \in 1 .. n + 1 /\ q \in 1 .. 4 /\ n \in Nat /\ Len(file.table) \in Nat
        /\ GroupCount(Reading) \in 1 .. 5 /\ at \in Nat /\ Left = Len(file.table) - at
    BY DecodingTypes
  <1>3. PICK j \in Nat :
          j < GroupCount(Reading) /\ at = StartOf(file, r, q) + j /\ (more <=> j > 0)
    BY <1>1 DEF Decoding
  <1>4. /\ StartOf(file, r, q) = G(4 * r + q - 4) /\ NextTo(file, r, q) = G(4 * r + q - 3)
        /\ StartOf(file, n + 1, 1) = G(4 * n + 1)
    <2>1. 4 * (n + 1) + 1 - 4 = 4 * n + 1
      BY SMT, <1>2
    <2> QED
      BY <2>1 DEF StartOf, NextTo
  <1>5. at = Len(file.table)
    BY SMT, <1>2
  <1>6. /\ NextTo(file, r, q) = StartOf(file, r, q) + GroupCount(Reading)
        /\ StartOf(file, n + 1, 1) <= Len(file.table)
        /\ file.cut <=> StartOf(file, n + 1, 1) # Len(file.table)
        /\ file.cut \in BOOLEAN
    BY <1>2, LayoutAssumption DEF Layout, TableLaidOut, Reading, Row
  <1>7. \A i, k \in 1 .. 4 * n + 5 : (i < k => G(i) < G(k)) /\ G(i) \in Nat
    BY <1>2, PlacesGoUp, TableTypes
  <1> HIDE DEF G, r, q, n
  <1>8. /\ 4 * r + q - 4 \in 1 .. 4 * n + 4 /\ 4 * r + q - 3 \in 1 .. 4 * n + 5
        /\ 4 * r + q - 4 \in 1 .. 4 * n + 5 /\ 4 * n + 1 \in 1 .. 4 * n + 5
    BY SMT, <1>2 DEF r
  <1>9. ASSUME q = 1, j = 0 PROVE r = n + 1
    <2> SUFFICES ASSUME r # n + 1 PROVE FALSE
      OBVIOUS
    <2>1. 4 * r + q - 4 < 4 * n + 1
      BY SMT, <1>2, <1>9
    <2>2. G(4 * r + q - 4) < G(4 * n + 1)
      BY <1>7, <1>8, <2>1
    <2> QED
      BY SMT, <1>3, <1>4, <1>5, <1>6, <1>7, <1>8, <1>9, <2>2
  <1>10. ASSUME ~InsideEntry PROVE entries = file.rows /\ ~file.cut
    <2>1. ~more /\ fields = <<>>
      BY <1>10 DEF InsideEntry
    <2>2. Len(fields) = 0
      BY SMT, <2>1
    <2>3. q = 1 /\ j = 0
      BY SMT, <1>3, <2>1, <2>2 DEF q
    <2>4. r = n + 1
      BY <1>9, <2>3
    <2>5. Len(entries) = Len(file.rows)
      BY SMT, <1>2, <2>4 DEF r, n
    <2>6. entries = file.rows
      <3>1. file.rows \in Seq(Entries)
        BY <1>2, TableTypes
      <3> QED
        BY <1>1, <2>5, <3>1, SeqEqual DEF Decoding
    <2>7. 4 * r + q - 4 = 4 * n + 1
      BY SMT, <1>2, <2>3, <2>4
    <2>8. StartOf(file, n + 1, 1) = Len(file.table)
      BY SMT, <1>3, <1>4, <1>5, <1>7, <1>8, <2>3, <2>7
    <2> QED
      BY <1>6, <2>6, <2>8
  <1>11. ASSUME InsideEntry PROVE file.cut
    <2>1. q > 1 \/ j > 0
      <3>1. more \/ Len(fields) # 0
        BY <1>1, <1>11, EmptySeq DEF InsideEntry, Decoding
      <3> QED
        BY SMT, <1>2, <1>3, <3>1 DEF q
    <2>2. CASE r = n + 1
      <3>1. CASE q > 1
        <4>1. 4 * n + 1 < 4 * r + q - 4
          BY SMT, <1>2, <2>2, <3>1
        <4>2. G(4 * n + 1) < G(4 * r + q - 4)
          BY <1>7, <1>8, <4>1
        <4> QED
          BY SMT, <1>3, <1>4, <1>5, <1>6, <1>7, <1>8, <4>2
      <3>2. CASE ~(q > 1)
        <4>1. j > 0 /\ 4 * r + q - 4 = 4 * n + 1
          BY SMT, <1>2, <2>1, <2>2, <3>2
        <4> QED
          BY SMT, <1>3, <1>4, <1>5, <1>6, <1>7, <1>8, <4>1
      <3> QED
        BY <3>1, <3>2
    <2>3. CASE r # n + 1
      <3>1. 4 * r + q - 3 < 4 * n + 1 \/ 4 * r + q - 3 = 4 * n + 1
        BY SMT, <1>2, <2>3
      <3>2. G(4 * r + q - 3) <= G(4 * n + 1)
        <4>1. CASE 4 * r + q - 3 < 4 * n + 1
          <5>1. G(4 * r + q - 3) < G(4 * n + 1) /\ G(4 * r + q - 3) \in Nat /\ G(4 * n + 1) \in Nat
            BY <1>7, <1>8, <4>1
          <5> QED
            BY SMT, <5>1
        <4>2. CASE 4 * r + q - 3 = 4 * n + 1
          BY SMT, <1>7, <1>8, <4>2
        <4> QED
          BY <3>1, <4>1, <4>2
      <3>3. /\ G(4 * r + q - 4) \in Nat /\ G(4 * r + q - 3) \in Nat /\ G(4 * n + 1) \in Nat
        BY <1>7, <1>8
      <3>4. at < G(4 * n + 1)
        <4>1. \A a, b, c, d, i \in Int : a = b + i /\ i < d /\ c = b + d => a < c
          BY SMT
        <4>2. at < G(4 * r + q - 3)
          <5> DEFINE start == G(4 * r + q - 4)
                     next  == G(4 * r + q - 3)
                     count == GroupCount(Reading)
          <5>1. at = start + j /\ next = start + count /\ j < count
            BY <1>3, <1>4, <1>6
          <5>2. /\ start \in Int /\ next \in Int /\ count \in Int /\ at \in Int /\ j \in Int
            BY <1>2, <3>3
          <5> HIDE DEF start, next, count
          <5>3. at < next
            BY <4>1, <5>1, <5>2
          <5> QED
            BY <5>3 DEF next
        <4>3. \A a, b, c \in Int : a < b /\ b <= c => a < c
          BY SMT
        <4> QED
          BY <1>2, <3>2, <3>3, <4>2, <4>3
      <3> QED
        BY SMT, <1>2, <1>4, <1>5, <1>6, <3>3, <3>4
    <2> QED
      BY <2>2, <2>3
  <1> QED
    BY <1>10, <1>11

-----------------------------------------------------------------------------
(* The walk *)

LEMMA DeliveredType ==
  ASSUME NEW f \in Files, NEW i \in 1 .. Len(f.instrs)
  PROVE  Delivered(f, i) \in Deliveries
  <1> DEFINE ins    == f.instrs[i]
             opcode == ByteToOpcode(f.ver, ins.byte)
  <1>1. i + 1 \in 1 .. Len(f.instrs) + 1 /\ i \in 1 .. Len(f.instrs) + 1
    BY SMT, LayoutTypes
  <1>2. /\ ins.byte \in Int /\ ins.operand \in Int
        /\ f.at[i] \in Nat /\ f.at[i + 1] \in Nat
    <2>1. ins \in [byte : Bytes, operand : Int, wide : BOOLEAN]
      BY LayoutTypes
    <2>2. f.at[i] \in Nat /\ f.at[i + 1] \in Nat
      BY <1>1, LayoutTypes
    <2> QED
      BY SMT, <2>1, <2>2 DEF Bytes
  <1> HIDE DEF ins
  <1>3. opcode \in [byte : Int, hasArg : BOOLEAN, jump : {"no", "forward", "backward", "absolute"}]
    <2>1. CASE ins.byte \notin WithArg(f.ver) \cup WithoutArg(f.ver)
      BY SMT, <2>1 DEF ByteToOpcode, Invalid
    <2>2. CASE ins.byte \in WithArg(f.ver) \cup WithoutArg(f.ver)
      BY SMT, <1>2, <2>2 DEF ByteToOpcode
    <2> QED
      BY <2>1, <2>2
  <1> HIDE DEF opcode
  <1>4. Unit(f.ver) \in Int
    BY SMT DEF Unit
  <1>5. JumpsTo(f.ver, opcode, ins.operand, f.at[i + 1]) \in Int
    BY SMT, <1>2, <1>4 DEF JumpsTo
  <1>6. Delivered(f, i) = [start   |-> f.at[i],
                           opcode  |-> opcode,
                           operand |-> ins.operand,
                           to      |-> JumpsTo(f.ver, opcode, ins.operand, f.at[i + 1])]
    BY DEF Delivered, opcode, ins
  <1> QED
    BY SMT, <1>2, <1>3, <1>5, <1>6 DEF Deliveries

LEMMA InstructionsType ==
  ASSUME NEW f \in Files
  PROVE  /\ Instructions(f) \in Seq(Deliveries)
         /\ Len(Instructions(f)) = Len(f.instrs)
         /\ \A i \in 1 .. Len(f.instrs) : Instructions(f)[i] = Delivered(f, i)
  <1>1. Len(f.instrs) \in Nat
    BY LayoutTypes
  <1>2. \A i \in 1 .. Len(f.instrs) : Delivered(f, i) \in Deliveries
    BY DeliveredType
  <1> HIDE DEF Deliveries, Delivered
  <1> QED
    BY SMT, <1>1, <1>2 DEF Instructions

LEMMA Starts == Init => IInv
  <1> SUFFICES ASSUME Init PROVE IInv
    OBVIOUS
  <1>1. file \in Files /\ pos = 0 /\ at = 0 /\ read = <<>> /\ phase \in {"table", "code"}
    BY DEF Init
  <1>2. /\ Len(read) = 0 /\ read \in Seq(Deliveries) /\ 1 .. Len(read) = {}
    BY SMT, <1>1
  <1>3. Len(file.instrs) \in Nat /\ file.at[1] = 0
    BY <1>1, LayoutTypes
  <1>4. ReadIsPrefix
    BY SMT, <1>2, <1>3 DEF ReadIsPrefix
  <1>5. Walking
    BY SMT, <1>1, <1>2, <1>3 DEF Walking
  <1>6. targets = <<>> /\ <<>> \in Seq(Codes) /\ DOMAIN <<>> = {}
    BY SMT DEF Init
  <1>7. TargetsFound /\ ExitsOnlyWhenCut
    BY <1>1, <1>6 DEF TargetsFound, ExitsOnlyWhenCut
  <1> QED
    BY <1>1, <1>4, <1>5, <1>6, <1>7, StartsDecoding DEF IInv

(* Reading one instruction delivers the next one of the program. *)
LEMMA Reads ==
  ASSUME IInv, ReadInstruction
  PROVE  /\ Len(read) < Len(file.instrs)
         /\ read' = Append(read, Delivered(file, Len(read) + 1))
         /\ at' = file.at[Len(read) + 2] /\ pos' = at'
         /\ UNCHANGED <<file, phase>>
  <1>1. /\ phase = "code" /\ Whole /\ file \in Files
        /\ at' = at + Prefix + Rest /\ pos' = pos + Counted
        /\ read' = Append(read, [start |-> pos, opcode |-> Opcode, operand |-> Operand,
                                 to |-> JumpsTo(Ver, Opcode, Operand, pos')])
        /\ UNCHANGED <<file, phase>>
    BY DEF IInv, ReadInstruction, Advance
  <1>2. at = file.at[Len(read) + 1] /\ pos = at
    BY <1>1 DEF IInv, Walking
  <1>3. Len(read) \in 0 .. Len(file.instrs) /\ Len(read) \in Nat
    BY SMT, <1>1, LayoutTypes, LenProperties DEF IInv, ReadIsPrefix
  <1>4. /\ Len(read) < Len(file.instrs)
        /\ Opcode = ByteToOpcode(Ver, file.instrs[Len(read) + 1].byte)
        /\ Operand = file.instrs[Len(read) + 1].operand
        /\ at + Prefix + Rest = file.at[Len(read) + 2]
        /\ at + Counted = file.at[Len(read) + 2]
    BY <1>1, <1>2, <1>3, StandsAt
  <1>5. at' = file.at[Len(read) + 2] /\ pos' = at'
    BY <1>1, <1>2, <1>4
  <1>6. (Len(read) + 1) + 1 = Len(read) + 2
    BY SMT, <1>3
  <1>7. [start |-> pos, opcode |-> Opcode, operand |-> Operand, to |-> JumpsTo(Ver, Opcode, Operand, pos')]
          = Delivered(file, Len(read) + 1)
    BY <1>2, <1>4, <1>5, <1>6 DEF Delivered, Ver
  <1> QED
    BY <1>1, <1>4, <1>5, <1>7

(* Where a walk for a target stops, and what it finds there. *)
LEMMA Appends ==
  ASSUME IInv, phase = "targets", Len(targets) < Len(entries), UNCHANGED <<file, phase, table, read>>,
         NEW code \in Codes, targets' = Append(targets, code), Restart,
         \/ \E k \in DOMAIN file.instrs :
              file.at[k] = Sought /\ code = ByteToOpcode(Ver, file.instrs[k].byte)
         \/ (\A k \in DOMAIN file.instrs : file.at[k] # Sought) /\ code = Invalid
  PROVE  Seeking' /\ targets' \in Seq(Codes) /\ TargetsFound'
  <1>1. /\ file \in Files /\ Len(file.instrs) \in Nat /\ file.at[1] = 0
        /\ Seeking /\ TargetsFound /\ targets \in Seq(Codes) /\ Len(targets) \in Nat
        /\ entries = file.rows /\ Len(entries) \in Nat /\ entries' = entries
    BY LayoutTypes, LenProperties, TableTypes DEF IInv, table
  <1>2. /\ targets' \in Seq(Codes) /\ Len(targets') = Len(targets) + 1
        /\ \A i \in 1 .. Len(targets) : targets'[i] = targets[i]
        /\ targets'[Len(targets) + 1] = code
    BY <1>1, AppendProperties
  <1>3. DOMAIN targets' = 1 .. Len(targets) + 1 /\ DOMAIN targets = 1 .. Len(targets)
    BY <1>1, <1>2, LenProperties
  <1>4. Seeking'
    <2>1. /\ 0 \in 0 .. Len(file.instrs) /\ 0 + 1 = 1 /\ 1 .. 0 = {}
          /\ Len(targets') <= Len(entries)
      BY SMT, <1>1, <1>2
    <2>2. at' = 0 /\ pos' = 0
      BY DEF Restart
    <2>3. \E n \in 0 .. Len(file.instrs) :
            at' = file.at[n + 1] /\ \A k \in 1 .. n : file.at[k] < Sought'
      BY <1>1, <2>1, <2>2
    <2> QED
      BY <1>1, <2>1, <2>2, <2>3 DEF Seeking
  <1>5. TargetsFound'
    <2> SUFFICES ASSUME NEW i \in DOMAIN targets'
                 PROVE  \/ \E k \in DOMAIN file.instrs :
                             /\ file.at[k] = entries[i].target
                             /\ targets'[i] = ByteToOpcode(Ver, file.instrs[k].byte)
                        \/ /\ \A k \in DOMAIN file.instrs : file.at[k] # entries[i].target
                           /\ targets'[i] = Invalid
      BY <1>1 DEF TargetsFound, Ver
    <2>1. i \in 1 .. Len(targets) \/ i = Len(targets) + 1
      BY SMT, <1>1, <1>3
    <2>2. CASE i \in 1 .. Len(targets)
      <3>1. i \in DOMAIN targets /\ targets'[i] = targets[i]
        BY <1>2, <1>3, <2>2
      <3> QED
        BY <1>1, <3>1 DEF TargetsFound
    <2>3. CASE i = Len(targets) + 1
      BY <1>2, <2>3 DEF Sought
    <2> QED
      BY <2>1, <2>2, <2>3
  <1> QED
    BY <1>2, <1>4, <1>5

LEMMA Seeks ==
  ASSUME IInv, SeekTarget
  PROVE  Seeking' /\ targets' \in Seq(Codes) /\ TargetsFound'
  <1>1. /\ phase = "targets" /\ Len(targets) < Len(entries)
        /\ UNCHANGED <<file, phase, table, read>>
    BY DEF SeekTarget
  <1>2. /\ file \in Files /\ Len(file.instrs) \in Nat /\ file.ver \in Versions
        /\ Seeking /\ targets \in Seq(Codes) /\ Len(targets) \in Nat
        /\ entries = file.rows /\ entries \in Seq(Entries) /\ Len(entries) \in Nat
        /\ DOMAIN file.instrs = 1 .. Len(file.instrs)
        /\ TargetsFound
    <2>1. file \in Files /\ Seeking /\ targets \in Seq(Codes) /\ entries = file.rows /\ TargetsFound
      BY <1>1 DEF IInv
    <2> QED
      BY <2>1, LayoutTypes, TableTypes, LenProperties
  <1>3. PICK n \in 0 .. Len(file.instrs) : at = file.at[n + 1] /\ \A k \in 1 .. n : file.at[k] < Sought
    BY <1>1, <1>2 DEF Seeking
  <1>4. Sought \in Nat
    <2>1. Len(targets) + 1 \in 1 .. Len(entries)
      BY SMT, <1>1, <1>2
    <2>2. entries[Len(targets) + 1] \in Entries
      BY <1>2, <2>1, ElementOfSeq
    <2> QED
      BY <2>2 DEF Sought, Entries
  <1>5. \A k \in 1 .. Len(file.instrs) + 1 : file.at[k] \in Nat
    BY <1>2, LayoutTypes
  <1>6. /\ n \in Nat /\ n + 1 \in 1 .. Len(file.instrs) + 1 /\ pos = at /\ at \in Nat
        /\ 1 .. n \subseteq 1 .. Len(file.instrs) + 1
    <2>1. n \in Nat /\ n + 1 \in 1 .. Len(file.instrs) + 1 /\ 1 .. n \subseteq 1 .. Len(file.instrs) + 1
      BY SMT, <1>2
    <2> QED
      BY <1>2, <1>3, <1>5, <2>1 DEF Seeking
  <1>7. CASE Whole /\ pos < Sought /\ Advance /\ UNCHANGED targets
    <2>1. n < Len(file.instrs) /\ at' = file.at[n + 2] /\ pos' = at'
      BY <1>1, <1>2, <1>3, <1>6, <1>7, StandsAt DEF Advance
    <2>2. /\ n + 1 \in 0 .. Len(file.instrs) /\ (n + 1) + 1 = n + 2
          /\ \A k \in 1 .. n + 1 : k \in 1 .. n \/ k = n + 1
      BY SMT, <1>6, <2>1
    <2>3. Sought' = Sought /\ entries' = entries
      BY <1>1, <1>7 DEF Sought, table
    <2>4. Len(targets) # Len(entries) /\ Len(targets) <= Len(entries)
      BY SMT, <1>1, <1>2
    <2>5. \A k \in 1 .. n + 1 : file.at[k] < Sought
      BY <1>3, <1>6, <1>7, <2>2
    <2>6. Seeking'
      BY <1>1, <1>2, <1>7, <2>1, <2>2, <2>3, <2>4, <2>5 DEF Seeking
    <2>7. TargetsFound' /\ targets' \in Seq(Codes)
      BY <1>1, <1>2, <1>7, <2>3 DEF TargetsFound, Ver
    <2> QED
      BY <2>6, <2>7
  <1>8. CASE Whole /\ pos = Sought /\ targets' = Append(targets, Opcode) /\ Restart
    <2>1. n < Len(file.instrs) /\ Opcode = ByteToOpcode(Ver, file.instrs[n + 1].byte)
      BY <1>1, <1>2, <1>3, <1>8, StandsAt
    <2>2. n + 1 \in 1 .. Len(file.instrs)
      BY SMT, <1>6, <2>1
    <2>3. Opcode \in Codes
      <3>1. file.instrs[n + 1].byte \in Bytes
        BY <1>2, <2>2, LayoutTypes
      <3> QED
        BY <1>2, <2>1, <3>1 DEF Codes, Ver
    <2>4. file.at[n + 1] = Sought
      BY <1>3, <1>6, <1>8
    <2> QED
      BY <1>1, <1>2, <1>8, <2>1, <2>2, <2>3, <2>4, Appends
  <1>9. CASE (Left = 0 \/ (Whole /\ pos > Sought)) /\ targets' = Append(targets, Invalid) /\ Restart
    <2>1. ASSUME NEW k \in 1 .. Len(file.instrs) PROVE file.at[k] # Sought
      <3>1. k \in 1 .. Len(file.instrs) + 1 /\ file.at[k] \in Nat
        <4>1. k \in 1 .. Len(file.instrs) + 1
          BY SMT, <1>2
        <4> QED
          BY <1>5, <4>1
      <3>2. CASE k \in 1 .. n
        BY SMT, <1>3, <1>4, <3>1, <3>2
      <3>3. CASE k \notin 1 .. n
        <4>1. n + 1 <= k /\ n # Len(file.instrs)
          BY SMT, <1>2, <1>6, <3>3
        <4>2. Whole /\ pos > Sought
          BY <1>1, <1>2, <1>3, <1>9, <4>1, StandsAt
        <4>3. file.at[n + 1] <= file.at[k]
          <5>1. CASE n + 1 = k
            BY SMT, <3>1, <5>1
          <5>2. CASE n + 1 # k
            <6>1. n + 1 < k
              BY SMT, <1>6, <4>1, <5>2
            <6>2. file.at[n + 1] < file.at[k]
              BY <1>2, <1>6, <3>1, <6>1, OffsetsGoUp
            <6> QED
              BY SMT, <1>5, <1>6, <3>1, <6>2
          <5> QED
            BY <5>1, <5>2
        <4> QED
          BY SMT, <1>3, <1>4, <1>6, <3>1, <4>2, <4>3
      <3> QED
        BY <3>2, <3>3
    <2>2. Invalid \in Codes
      BY DEF Codes
    <2> QED
      BY <1>1, <1>2, <1>9, <2>1, <2>2, Appends
  <1> QED
    BY <1>7, <1>8, <1>9 DEF SeekTarget

LEMMA Keeps == IInv /\ [Next]_vars => IInv'
  <1> SUFFICES ASSUME IInv, [Next]_vars PROVE IInv'
    OBVIOUS
  <1>1. /\ file \in Files /\ Len(file.instrs) \in Nat /\ file.at[1] = 0
        /\ read \in Seq(Deliveries) /\ Len(read) \in Nat
        /\ targets \in Seq(Codes) /\ ReadIsPrefix /\ TargetsFound /\ ExitsOnlyWhenCut
    <2>1. file \in Files /\ targets \in Seq(Codes) /\ ReadIsPrefix /\ TargetsFound /\ ExitsOnlyWhenCut
      BY DEF IInv
    <2>2. read \in Seq(Deliveries)
      BY <2>1 DEF ReadIsPrefix
    <2> QED
      BY <2>1, <2>2, LayoutTypes, LenProperties
  <1>a. ASSUME UNCHANGED <<file, entries, targets>> PROVE TargetsFound'
    BY <1>1, <1>a DEF TargetsFound, Ver
  <1>b. ASSUME UNCHANGED <<file, read>> PROVE ReadIsPrefix'
    BY <1>1, <1>b DEF ReadIsPrefix
  <1>2. CASE ReadTable
    <2>1. phase = "table" /\ UNCHANGED <<file, phase, pos, targets, read>>
      BY <1>2 DEF ReadTable
    <2>2. Decoding'
      BY <1>2, Decodes
    <2>3. targets = <<>> /\ pos = 0 /\ read = <<>>
      BY <2>1 DEF IInv, Decoding
    <2>4. DOMAIN <<>> = {}
      BY SMT
    <2>5. TargetsFound' /\ ExitsOnlyWhenCut'
      BY <1>1, <2>1, <2>3, <2>4 DEF TargetsFound, ExitsOnlyWhenCut
    <2> QED
      BY <1>1, <1>b, <2>1, <2>2, <2>3, <2>5 DEF IInv
  <1>3. CASE EndOfTable
    <2>1. /\ phase = "table" /\ phase' = "targets" /\ at' = 0 /\ Left = 0 /\ ~InsideEntry
          /\ UNCHANGED <<file, pos, targets, read, entries>>
      BY <1>3 DEF EndOfTable, table
    <2>2. pos = 0 /\ read = <<>> /\ targets = <<>>
      BY <2>1 DEF IInv, Decoding
    <2>3. /\ 0 \in 0 .. Len(file.instrs) /\ 0 + 1 = 1 /\ 1 .. 0 = {} /\ Len(targets) = 0
      BY SMT, <1>1, <2>2
    <2>4. entries = file.rows /\ ~file.cut
      BY <2>1, TableEnds
    <2>5. Len(targets) <= Len(entries)
      BY SMT, <1>1, <2>3, <2>4, TableTypes
    <2>6. \E n \in 0 .. Len(file.instrs) : at' = file.at[n + 1] /\ \A k \in 1 .. n : file.at[k] < Sought'
      BY <1>1, <2>1, <2>3
    <2>7. Seeking'
      BY <1>1, <2>1, <2>2, <2>5, <2>6 DEF Seeking
    <2>8. ExitsOnlyWhenCut'
      BY <2>1 DEF ExitsOnlyWhenCut
    <2> QED
      BY <1>1, <1>a, <1>b, <2>1, <2>4, <2>7, <2>8 DEF IInv
  <1>4. CASE CutTable \/ CutCode
    <2>1. phase' = "exit" /\ UNCHANGED <<file, read, entries, targets>>
      BY <1>4 DEF CutTable, CutCode, Exit, table
    <2>2. file.rest > 0 \/ file.cut
      <3>1. CASE CutTable
        BY <3>1, TableEnds DEF CutTable
      <3>2. CASE CutCode
        <4>1. phase \in {"targets", "code"} /\ Left > 0 /\ ~Whole
          BY <3>2 DEF CutCode
        <4>2. PICK n \in 0 .. Len(file.instrs) : at = file.at[n + 1]
          <5>1. CASE phase = "targets"
            BY <5>1 DEF IInv, Seeking
          <5>2. CASE phase = "code"
            <6>1. Len(read) \in 0 .. Len(file.instrs)
              <7>1. Len(read) <= Len(file.instrs)
                BY <1>1 DEF ReadIsPrefix
              <7> QED
                BY SMT, <1>1, <7>1
            <6> QED
              BY <5>2, <6>1 DEF IInv, Walking
          <5> QED
            BY <4>1, <5>1, <5>2
        <4> QED
          BY <1>1, <4>1, <4>2, StandsAt
      <3> QED
        BY <1>4, <3>1, <3>2
    <2>3. ExitsOnlyWhenCut'
      BY <2>1, <2>2 DEF ExitsOnlyWhenCut
    <2> QED
      BY <1>1, <1>a, <1>b, <2>1, <2>3 DEF IInv
  <1>5. CASE SeekTarget
    <2>1. phase = "targets" /\ UNCHANGED <<file, phase, entries, read>>
      BY <1>5 DEF SeekTarget, table
    <2>2. entries = file.rows /\ ~file.cut
      BY <2>1 DEF IInv
    <2>3. ExitsOnlyWhenCut'
      BY <1>1, <2>1 DEF ExitsOnlyWhenCut
    <2> QED
      BY <1>1, <1>5, <1>b, <2>1, <2>2, <2>3, Seeks DEF IInv
  <1>6. CASE EndOfTargets
    <2>1. /\ phase = "targets" /\ phase' = "code" /\ Len(targets) = Len(entries)
          /\ UNCHANGED <<file, at, pos, read, entries, targets>> /\ Seeking
          /\ entries = file.rows /\ ~file.cut
      BY <1>6 DEF EndOfTargets, IInv, table
    <2>2. at = 0 /\ pos = 0 /\ read = <<>>
      BY <2>1 DEF Seeking
    <2>3. Len(read) + 1 = 1
      BY SMT, <2>2
    <2>4. Walking'
      BY <1>1, <2>1, <2>2, <2>3 DEF Walking
    <2>5. ExitsOnlyWhenCut'
      BY <2>1 DEF ExitsOnlyWhenCut
    <2> QED
      BY <1>1, <1>a, <1>b, <2>1, <2>4, <2>5 DEF IInv
  <1>7. CASE ReadInstruction
    <2> DEFINE d == Delivered(file, Len(read) + 1)
    <2>1. /\ Len(read) < Len(file.instrs)
          /\ read' = Append(read, d)
          /\ at' = file.at[Len(read) + 2] /\ pos' = at'
          /\ UNCHANGED <<file, phase>>
      BY <1>7, Reads
    <2>2. Len(read) + 1 \in 1 .. Len(file.instrs)
      BY SMT, <1>1, <2>1
    <2>3. d \in Deliveries
      BY <1>1, <2>2, DeliveredType
    <2>4. /\ read' \in Seq(Deliveries) /\ Len(read') = Len(read) + 1
          /\ \A i \in 1 .. Len(read') : read'[i] = IF i <= Len(read) THEN read[i] ELSE d
      <3> HIDE DEF d
      <3> QED
        BY <1>1, <2>1, <2>3, AppendProperties, SMT
    <2>5. Len(read') <= Len(file.instrs) /\ Len(read') + 1 = Len(read) + 2
      BY SMT, <1>1, <2>2, <2>4
    <2>6. \A i \in 1 .. Len(read') : read'[i] = Delivered(file, i)
      <3> SUFFICES ASSUME NEW i \in 1 .. Len(read') PROVE read'[i] = Delivered(file, i)
        OBVIOUS
      <3>1. i \in 1 .. Len(read) \/ i = Len(read) + 1
        BY SMT, <1>1, <2>4
      <3>2. CASE i \in 1 .. Len(read)
        <4>1. i <= Len(read)
          BY SMT, <1>1, <3>2
        <4> QED
          BY <2>4, <3>2, <4>1 DEF IInv, ReadIsPrefix
      <3>3. CASE i = Len(read) + 1
        <4>1. ~(i <= Len(read))
          BY SMT, <1>1, <3>3
        <4> QED
          BY <2>4, <3>3, <4>1
      <3> QED
        BY <3>1, <3>2, <3>3
    <2>7. Walking'
      BY <2>1, <2>5 DEF Walking
    <2>8. \A i \in 1 .. Len(read') : read'[i] = Delivered(file', i)
      BY <2>1, <2>6
    <2>9. phase = "code" /\ UNCHANGED <<entries, targets>> /\ entries = file.rows /\ ~file.cut
      BY <1>7 DEF ReadInstruction, table, IInv
    <2>10. ReadIsPrefix'
      BY <2>1, <2>4, <2>5, <2>8 DEF ReadIsPrefix
    <2>11. ExitsOnlyWhenCut'
      BY <2>1, <2>9 DEF ExitsOnlyWhenCut
    <2> QED
      BY <1>1, <1>a, <2>1, <2>7, <2>9, <2>10, <2>11 DEF IInv
  <1>8. CASE EndOfCode
    <2>1. /\ phase = "code" /\ Left = 0 /\ phase' = "done"
          /\ UNCHANGED <<file, read, entries, targets>>
          /\ Walking /\ ReadIsPrefix /\ entries = file.rows /\ ~file.cut
      BY <1>8 DEF EndOfCode, IInv, table
    <2>2. Len(read) \in 0 .. Len(file.instrs)
      BY SMT, <1>1, <2>1 DEF ReadIsPrefix
    <2>3. Len(read) = Len(file.instrs) /\ file.rest = 0
      BY <1>1, <2>1, <2>2, StandsAt DEF Walking
    <2>4. ExitsOnlyWhenCut'
      BY <2>1, <2>3 DEF ExitsOnlyWhenCut
    <2> QED
      BY <1>1, <1>a, <1>b, <2>1, <2>3, <2>4 DEF IInv
  <1>9. CASE UNCHANGED vars
    <2>1. UNCHANGED <<file, phase, at, pos, more, val, fields, entries, targets, read>>
      BY <1>9 DEF vars
    <2>2. Seeking' = Seeking /\ Walking' = Walking
      BY <2>1 DEF Seeking, Walking, Sought
    <2>3. Decoding => Decoding'
      BY <2>1 DEF Decoding, Reading, Row, StartOf, RowOf
    <2>4. ExitsOnlyWhenCut'
      BY <1>1, <2>1 DEF ExitsOnlyWhenCut
    <2> QED
      BY <1>1, <1>a, <1>b, <2>1, <2>2, <2>3, <2>4 DEF IInv
  <1> QED
    BY <1>2, <1>3, <1>4, <1>5, <1>6, <1>7, <1>8, <1>9 DEF Next

-----------------------------------------------------------------------------
State == IF phase \in {"done", "exit"} THEN phase ELSE "reading"

LEMMA StartsAbstract == Init => Stream!Init
  <1> SUFFICES ASSUME Init PROVE Stream!Init
    OBVIOUS
  <1>1. file \in Files /\ phase \in {"table", "code"} /\ read = <<>>
    BY DEF Init
  <1>2. Instructions(file) \in Seq(Deliveries)
    BY <1>1, InstructionsType
  <1> QED
    BY <1>1, <1>2 DEF Stream!Init

LEMMA StepsAbstract == IInv /\ [Next]_vars => [Stream!Next]_Stream!vars
  <1> SUFFICES ASSUME IInv, [Next]_vars PROVE Stream!Next \/ UNCHANGED Stream!vars
    OBVIOUS
  <1>1. file \in Files /\ phase \in {"table", "targets", "code", "done", "exit"}
    BY DEF IInv
  <1>2. ASSUME UNCHANGED <<file, read>>, State' = State PROVE UNCHANGED Stream!vars
    BY <1>2 DEF Stream!vars, State
  <1>3. ASSUME UNCHANGED <<file, read>>, phase \in {"table", "targets", "code"}, phase' = "exit"
        PROVE  Stream!BreakOff
    BY <1>3 DEF Stream!BreakOff
  <1>4. CASE ReadTable
    BY <1>2, <1>4 DEF ReadTable, State
  <1>5. CASE EndOfTable
    BY <1>2, <1>5 DEF EndOfTable, State
  <1>6. CASE CutTable \/ CutCode
    <2>1. UNCHANGED <<file, read>> /\ phase \in {"table", "targets", "code"} /\ phase' = "exit"
      BY <1>6 DEF CutTable, CutCode, Exit
    <2> QED
      BY <1>3, <2>1 DEF Stream!Next
  <1>7. CASE SeekTarget
    BY <1>2, <1>7 DEF SeekTarget, State
  <1>8. CASE EndOfTargets
    BY <1>2, <1>8 DEF EndOfTargets, State
  <1>9. CASE ReadInstruction
    <2>1. phase = "code" /\ Len(read) \in Nat
      BY <1>9, LenProperties DEF ReadInstruction, IInv, ReadIsPrefix
    <2>2. /\ Len(read) < Len(file.instrs)
          /\ read' = Append(read, Delivered(file, Len(read) + 1))
          /\ UNCHANGED <<file, phase>>
      BY <1>9, Reads
    <2>3. Len(read) + 1 \in 1 .. Len(file.instrs)
      BY SMT, <1>1, <2>1, <2>2, LayoutTypes
    <2>4. /\ Len(Instructions(file)) = Len(file.instrs)
          /\ Instructions(file)[Len(read) + 1] = Delivered(file, Len(read) + 1)
      BY <1>1, <2>3, InstructionsType
    <2>5. Stream!Deliver
      BY <2>1, <2>2, <2>4 DEF Stream!Deliver
    <2> QED
      BY <2>5 DEF Stream!Next
  <1>10. CASE EndOfCode
    <2>1. phase = "code" /\ phase' = "done" /\ UNCHANGED <<file, read>>
      BY <1>10 DEF EndOfCode
    <2>2. IInv'
      BY Keeps
    <2>3. Len(read) = Len(file.instrs) /\ ReadIsPrefix
      BY <2>1, <2>2 DEF IInv
    <2>4. read = Instructions(file)
      <3>1. /\ Instructions(file) \in Seq(Deliveries)
            /\ Len(Instructions(file)) = Len(read)
            /\ \A i \in 1 .. Len(read) : Instructions(file)[i] = read[i]
        BY <1>1, <2>3, InstructionsType DEF ReadIsPrefix
      <3>2. read \in Seq(Deliveries)
        BY <2>3 DEF ReadIsPrefix
      <3> QED
        BY <3>1, <3>2, SeqEqual
    <2>5. Stream!Finish
      BY <2>1, <2>4 DEF Stream!Finish
    <2> QED
      BY <2>5 DEF Stream!Next
  <1>11. CASE UNCHANGED vars
    BY <1>2, <1>11 DEF vars, State
  <1> QED
    BY <1>4, <1>5, <1>6, <1>7, <1>8, <1>9, <1>10, <1>11 DEF Next

(* What is read is always the beginning of the program, each instruction   *)
(* with its operand and at its offset; and the offset bc_next counts never *)
(* leaves the place in the buffer.                                         *)
THEOREM ReadsPrefix == Spec => []IInv
  <1> QED
    BY Starts, Keeps, PTL DEF Spec

(* bc_next, in the loops of BuildFromCode and bc_disasm, implements the    *)
(* stream of the program's instructions: for every program, whatever the   *)
(* widths of its operands, and wherever it is cut off.                     *)
THEOREM StreamImplemented == Spec => ReadsTheProgram
  <1>1. Spec => []IInv
    BY ReadsPrefix
  <1> QED
    BY <1>1, StartsAbstract, StepsAbstract, PTL DEF Spec, ReadsTheProgram, Stream!Spec

(* exceptTableEntries reads the table that was written, for every number   *)
(* of entries and of groups in a number.                                   *)
THEOREM TableIsDecoded == Spec => []TableDecoded
  <1>1. IInv => TableDecoded
    BY DEF IInv, TableDecoded
  <1> QED
    BY <1>1, ReadsPrefix, PTL

(* opcode_at finds the instruction that starts at the target, and none     *)
(* where none starts, for every program and target.                        *)
THEOREM TargetsAreFound == Spec => []TargetsFound
  <1>1. IInv => TargetsFound
    BY DEF IInv
  <1> QED
    BY <1>1, ReadsPrefix, PTL

(* No walk asks for a byte that is not there unless the code object was    *)
(* cut off, and none takes a cut code object for a whole one.              *)
THEOREM ExitsAreCuts == Spec => []ExitsOnlyWhenCut
  <1>1. IInv => ExitsOnlyWhenCut
    BY DEF IInv
  <1> QED
    BY <1>1, ReadsPrefix, PTL

=============================================================================
