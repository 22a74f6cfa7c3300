----------------------------- MODULE CodeLayout -----------------------------
(***************************************************************************)
(* How a Python compiler lays out the code objects that CodeReader reads,  *)
(* and what reading them must give.  External: the encoding of             *)
(* instructions and of exception tables is that of CPython's assembler.    *)
(*                                                                         *)
(* A file of Files also says what it was made from: instrs with the        *)
(* offset at[i] of each, and the offset after the last; rows, the entries  *)
(* of its exception table, with the place numberAt of each of their        *)
(* numbers.  It may be cut off inside an instruction: the first rest bytes *)
(* of next follow the last whole instruction; or inside the table (cut):   *)
(* some bytes of the entry further follow the last row.                    *)
(***************************************************************************)
EXTENDS CodeReader

\* HAVE_ARGUMENT of CPython before 3.12
HAVE_ARGUMENT == 90

\* the values of sixteen bits, and of an int
Words == {n \in Nat : n < 65536}
Ints == {n \in Int : -2147483647 - 1 <= n /\ n <= 2147483647}

(* wide: an EXTENDED_ARG comes first, which CPython also emits when the    *)
(* operand turns out not to need it.  The operand of an opcode that takes  *)
(* none is not encoded before 3.6.                                         *)
Encoding(ver, ins) ==
  IF ver >= 306
  THEN IF ins.wide THEN <<EXTENDED_ARG(ver), ins.operand \div 256, ins.byte, ins.operand % 256>>
       ELSE <<ins.byte, ins.operand>>
  ELSE LET low  == ins.operand % 65536
           high == (ins.operand \div 65536) % 65536
       IN  IF ins.byte < HAVE_ARGUMENT THEN <<ins.byte>>
           ELSE IF ins.wide THEN <<EXTENDED_ARG(ver), high % 256, high \div 256, ins.byte, low % 256, low \div 256>>
           ELSE <<ins.byte, low % 256, low \div 256>>

\* 3.6 on: an operand of more than sixteen bits takes more than one EXTENDED_ARG
Encodable(ver, ins) ==
  /\ ins.byte \in (WithArg(ver) \cup WithoutArg(ver)) \ {EXTENDED_ARG(ver)}
  /\ ins.wide \in BOOLEAN
  /\ IF ver >= 306 THEN ins.operand \in (IF ins.wide THEN Words ELSE Bytes)
     ELSE IF ins.byte < HAVE_ARGUMENT THEN ins.operand = 0 /\ ~ins.wide
     ELSE ins.operand \in (IF ins.wide THEN Ints ELSE Words)

LaidAt(f, offset, ins, n) == \A k \in 1 .. n : f.code[offset + k] = Encoding(f.ver, ins)[k]

CodeLaidOut(f) ==
  /\ f.ver \in Versions
  /\ f.code \in Seq(Bytes)
  /\ f.instrs \in Seq([byte : Bytes, operand : Int, wide : BOOLEAN])
  /\ f.at \in [1 .. Len(f.instrs) + 1 -> Nat]
  /\ f.at[1] = 0
  /\ \A i \in 1 .. Len(f.instrs) :
       /\ Encodable(f.ver, f.instrs[i])
       /\ f.at[i + 1] = f.at[i] + Len(Encoding(f.ver, f.instrs[i]))
       /\ f.at[i + 1] <= Len(f.code)
       /\ LaidAt(f, f.at[i], f.instrs[i], Len(Encoding(f.ver, f.instrs[i])))
  /\ f.rest \in Nat
  /\ Len(f.code) = f.at[Len(f.instrs) + 1] + f.rest
  /\ f.rest > 0 =>
       /\ Encodable(f.ver, f.next)
       /\ f.rest < Len(Encoding(f.ver, f.next))
       /\ LaidAt(f, f.at[Len(f.instrs) + 1], f.next, f.rest)

(* A number of the table is written in groups of six bits, the highest     *)
(* first; all of them but the last have bit 6, and the first of an entry   *)
(* has bit 7.  CPython has room for five groups.                           *)
Weight == <<1, 64, 4096, 262144, 16777216>>

GroupCount(n) ==
  IF n < 64 THEN 1 ELSE IF n < 4096 THEN 2 ELSE IF n < 262144 THEN 3 ELSE IF n < 16777216 THEN 4 ELSE 5

Group(n, k) ==
  ((n \div Weight[GroupCount(n) + 1 - k]) % 64) + (IF k < GroupCount(n) THEN 64 ELSE 0)

TableNumbers == {n \in Nat : n < 1073741824}

\* offsets in bytes, of units of two bytes
Offsets == {n \in Nat : n % 2 = 0 /\ n \div 2 < 1073741824}

IsRow(row) ==
  /\ row = [start |-> row.start, end |-> row.end, target |-> row.target,
            depth |-> row.depth, lasti |-> row.lasti]
  /\ row.start \in Offsets /\ row.end \in Offsets /\ row.target \in Offsets
  /\ row.start <= row.end
  /\ row.depth \in Nat /\ row.depth < 536870912
  /\ row.lasti \in BOOLEAN

Numbers(row) ==
  <<row.start \div 2, (row.end - row.start) \div 2, row.target \div 2,
    2 * row.depth + (IF row.lasti THEN 1 ELSE 0)>>

RowOf(f, r) == IF r <= Len(f.rows) THEN f.rows[r] ELSE f.further

\* the q-th number of the r-th row: where it starts, and where the next one does
StartOf(f, r, q) == f.numberAt[4 * r + q - 4]
NextTo(f, r, q)  == f.numberAt[4 * r + q - 3]

TableLaidOut(f) ==
  /\ f.rows \in Seq({f.rows[r] : r \in DOMAIN f.rows})
  /\ \A r \in 1 .. Len(f.rows) + 1 : IsRow(RowOf(f, r))
  /\ f.ver < 311 => f.rows = <<>> /\ f.table = <<>>
  /\ f.table \in Seq(Bytes)
  /\ f.numberAt \in [1 .. 4 * Len(f.rows) + 5 -> Nat]
  /\ f.numberAt[1] = 0
  /\ \A r \in 1 .. Len(f.rows) + 1, q \in 1 .. 4 :
       LET n == Numbers(RowOf(f, r))[q]
       IN  /\ NextTo(f, r, q) = StartOf(f, r, q) + GroupCount(n)
           /\ \A k \in 1 .. GroupCount(n) :
                StartOf(f, r, q) + k <= Len(f.table) =>
                  f.table[StartOf(f, r, q) + k] = Group(n, k) + (IF q = 1 /\ k = 1 THEN 128 ELSE 0)
  /\ StartOf(f, Len(f.rows) + 1, 1) <= Len(f.table)
  /\ Len(f.table) < NextTo(f, Len(f.rows) + 1, 4)
  /\ f.cut \in BOOLEAN
  /\ f.cut <=> StartOf(f, Len(f.rows) + 1, 1) # Len(f.table)

Layout(f) == CodeLaidOut(f) /\ TableLaidOut(f)

ASSUME LayoutAssumption == \A f \in Files : Layout(f)

-----------------------------------------------------------------------------
Delivered(f, i) ==
  LET opcode == ByteToOpcode(f.ver, f.instrs[i].byte)
  IN [start   |-> f.at[i],
      opcode  |-> opcode,
      operand |-> f.instrs[i].operand,
      to      |-> JumpsTo(f.ver, opcode, f.instrs[i].operand, f.at[i + 1])]

Instructions(f) == [i \in 1 .. Len(f.instrs) |-> Delivered(f, i)]

Deliveries ==
  [start : Nat, opcode : [byte : Int, hasArg : BOOLEAN, jump : {"no", "forward", "backward", "absolute"}],
   operand : Int, to : Int]

Stream == INSTANCE InstructionStream WITH
  Streams   <- Seq(Deliveries),
  stream    <- Instructions(file),
  delivered <- read,
  state     <- IF phase \in {"done", "exit"} THEN phase ELSE "reading"

(* The walk of BuildFromCode and bc_disasm gets the instructions that were *)
(* compiled, each once, in order, with the operand and at the offset they  *)
(* have, whatever the widths of the operands before them; and it finds the *)
(* end only behind the last of them.                                       *)
ReadsTheProgram == Stream!Spec

(* All the loops of the readers come to an end, at the end of their buffer *)
(* or of the process: the buffer's atEof compares for equality only.       *)
ReadToTheEnd == <>(phase \in {"done", "exit"})

(* The process is stopped for want of bytes when the code object was cut   *)
(* off inside an instruction or inside an entry of the table, and only     *)
(* then: no walk ever asks for a byte behind a complete one.               *)
ExitsOnlyWhenCut ==
  /\ phase = "exit" => file.rest > 0 \/ file.cut
  /\ phase = "done" => file.rest = 0 /\ ~file.cut

(* The exception table that zero-cost reconstruction works with is the     *)
(* compiled one, whatever the number of groups its numbers take.           *)
TableDecoded == phase \in {"targets", "code", "done"} => entries = file.rows

(* opcode_at, which decides what a handler is, finds the instruction that  *)
(* starts at the target, and finds none where none starts: not the operand *)
(* byte of one, nor the opcode behind an EXTENDED_ARG.                     *)
TargetsFound ==
  \A i \in DOMAIN targets :
    \/ \E k \in DOMAIN file.instrs :
         /\ file.at[k] = entries[i].target
         /\ targets[i] = ByteToOpcode(Ver, file.instrs[k].byte)
    \/ /\ \A k \in DOMAIN file.instrs : file.at[k] # entries[i].target
       /\ targets[i] = Invalid

=============================================================================
