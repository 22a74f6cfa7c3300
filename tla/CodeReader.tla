----------------------------- MODULE CodeReader -----------------------------
(***************************************************************************)
(* How the bytes of a code object are read: the exception table            *)
(* (PycCode::exceptTableEntries), the opcode at the target of each of its  *)
(* entries (opcode_at, called by analyzeExceptRegions), and then the code  *)
(* itself, one instruction at a time (bc_next in the loops of BuildFromCode*)
(* and bc_disasm).  A PycBuffer ends the process when a byte is asked for  *)
(* that it does not have.                                                  *)
(*                                                                         *)
(* An opcode is the byte that stands for it in its version, with what the  *)
(* readers and the printed jump targets depend on: whether it takes an     *)
(* operand (its number in the Opcode enumeration is PYC_HAVE_ARG or more)  *)
(* and how it jumps.                                                       *)
(***************************************************************************)
EXTENDS Integers, Sequences

CONSTANT Files    \* records with ver, and the bytes of code and of table

\* one version for every layout and width of the opcode tables
Versions == {207, 305, 308, 310, 311, 314}

Bytes == {n \in Nat : n < 256}

ASSUME FilesAssumption ==
  \A f \in Files : f.ver \in Versions /\ f.code \in Seq(Bytes) /\ f.table \in Seq(Bytes)

VARIABLES file,
          phase,    \* "table", "targets", "code", "done" or "exit"
          at,       \* PycBuffer::m_pos of the buffer being read
          pos,      \* the offset that bc_next counts for its caller
          more,     \* _parse_varint: in the middle of a number
          val,      \* its value so far
          fields,   \* the numbers of the entry being read
          entries,  \* exceptTableEntries
          targets,  \* opcode_at of their targets
          read      \* the instructions of the last walk

vars  == <<file, phase, at, pos, more, val, fields, entries, targets, read>>
table == <<more, val, fields, entries>>

Ver == file.ver

Init ==
  /\ file \in Files
  /\ phase = IF Ver >= 311 THEN "table" ELSE "code"
  /\ at = 0
  /\ pos = 0
  /\ more = FALSE
  /\ val = 0
  /\ fields = <<>>
  /\ entries = <<>>
  /\ targets = <<>>
  /\ read = <<>>

-----------------------------------------------------------------------------
(* The tables of bytes/python_X_Y.cpp: the bytes of the opcodes that take  *)
(* an operand and of those that do not.  None maps two bytes to one opcode.*)

Python27 ==
  [with    |-> (90 .. 116) \cup (119 .. 122) \cup (124 .. 126) \cup (130 .. 137)
                 \cup (140 .. 143) \cup (145 .. 147),
   without |-> (0 .. 5) \cup (9 .. 13) \cup {15} \cup (19 .. 33) \cup (40 .. 43) \cup ((50 .. 89) \ {69}),
   extended |-> 145]

Python35 ==
  [with    |-> ((90 .. 116) \ {99}) \cup (119 .. 122) \cup (124 .. 126) \cup (130 .. 138) \cup (140 .. 154),
   without |-> (1 .. 5) \cup (9 .. 12) \cup (15 .. 17) \cup {19, 20} \cup (22 .. 29) \cup (50 .. 52)
                 \cup (55 .. 57) \cup (59 .. 73) \cup (75 .. 84) \cup (86 .. 89),
   extended |-> 144]

Python38 ==
  [with    |-> ((90 .. 116) \ {99}) \cup {122} \cup (124 .. 126) \cup ((130 .. 138) \ {134})
                 \cup (141 .. 158) \cup (160 .. 163),
   without |-> (1 .. 6) \cup (9 .. 12) \cup (15 .. 17) \cup {19, 20} \cup (22 .. 29) \cup (50 .. 57)
                 \cup (59 .. 73) \cup (75 .. 79) \cup (81 .. 89),
   extended |-> 144]

Python310 ==
  [with    |-> (90 .. 119) \cup {121, 122} \cup (124 .. 126) \cup ((129 .. 138) \ {134})
                 \cup (141 .. 148) \cup {152} \cup (154 .. 157) \cup (160 .. 165),
   without |-> (1 .. 6) \cup (9 .. 12) \cup (15 .. 17) \cup {19, 20} \cup (22 .. 34) \cup (49 .. 52)
                 \cup (54 .. 57) \cup (59 .. 79) \cup (82 .. 87) \cup {89},
   extended |-> 144]

Python311 ==
  [with    |-> ((90 .. 120) \ {113}) \cup (122 .. 126) \cup ((128 .. 142) \ {141}) \cup (144 .. 149)
                 \cup {151, 152} \cup (155 .. 157) \cup {160} \cup (162 .. 166) \cup (171 .. 176),
   without |-> (0 .. 2) \cup (9 .. 12) \cup {15, 25} \cup (30 .. 33) \cup (35 .. 37) \cup (49 .. 54)
                 \cup {60, 61} \cup (68 .. 71) \cup {74, 75} \cup (82 .. 89),
   extended |-> 144]

Python314 ==
  [with    |-> {4} \cup ((44 .. 120) \ {68, 78, 105, 107}) \cup {128} \cup (234 .. 255),
   without |-> (0 .. 3) \cup (5 .. 43) \cup {68, 78, 105, 107} \cup (129 .. 211),
   extended |-> 69]

OpcodeMap(ver) ==
  CASE ver = 207 -> Python27  [] ver = 305 -> Python35  [] ver = 308 -> Python38
    [] ver = 310 -> Python310 [] ver = 311 -> Python311 [] ver = 314 -> Python314

WithArg(ver) == OpcodeMap(ver).with
WithoutArg(ver) == OpcodeMap(ver).without
EXTENDED_ARG(ver) == OpcodeMap(ver).extended

(* The cases of bc_disasm that print where a jump goes. *)
Forward(ver) ==
  CASE ver = 207 -> {93, 110, 120, 121, 122, 143}
    [] ver = 305 -> {93, 110, 120, 121, 122, 143, 154}
    [] ver \in {308, 310} -> {93, 110, 122, 143, 154}
    [] ver = 311 -> {93, 110, 114, 115, 123, 128, 129}
    [] ver = 314 -> {70, 77, 101, 102, 106, 237, 239, 241, 242, 243, 244}

Backward(ver) ==
  CASE ver = 311 -> {134, 140, 173, 174, 175, 176}
    [] ver = 314 -> {75, 76, 253}
    [] OTHER -> {}

Absolute(ver) ==
  CASE ver \in {207, 305, 308} -> 111 .. 115
    [] ver = 310 -> (111 .. 115) \cup {121}
    [] ver = 311 -> {111, 112}
    [] ver = 314 -> {100, 103}

Invalid == [byte |-> -1, hasArg |-> FALSE, jump |-> "no"]

ByteToOpcode(ver, b) ==
  IF b \notin WithArg(ver) \cup WithoutArg(ver) THEN Invalid
  ELSE [byte   |-> b,
        hasArg |-> b \in WithArg(ver),
        jump   |-> CASE b \in Forward(ver)  -> "forward"
                     [] b \in Backward(ver) -> "backward"
                     [] b \in Absolute(ver) -> "absolute"
                     [] OTHER -> "no"]

-----------------------------------------------------------------------------
(* PycBuffer *)
Buffer  == IF phase = "table" THEN file.table ELSE file.code
Left    == Len(Buffer) - at
Byte(k) == Buffer[at + k]                      \* the k-th byte from here
Get16(k) == Byte(k) + 256 * Byte(k + 1)

\* mutant: the position stays in front of an end that is never reached
NeverExit == UNCHANGED vars

\* exit(1) of PycBuffer::getByte
Exit ==
  /\ phase' = "exit"
  /\ UNCHANGED <<file, at, pos, table, targets, read>>

-----------------------------------------------------------------------------
(* _parse_varint and exceptTableEntries: the bytes of the table, in groups *)
(* of six bits, the highest first.  Numbers are exact: those of a compiled *)
(* table fit in an int, and what is said of any other does not depend on   *)
(* what the shift leaves of a number that does not.                        *)

Number    == 64 * val + (Byte(1) % 64)
Continues == (Byte(1) \div 64) % 2 = 1

Entry(f) == [start  |-> 2 * f[1],
             end    |-> 2 * f[1] + 2 * f[2],
             target |-> 2 * f[3],
             depth  |-> f[4] \div 2,
             lasti  |-> f[4] % 2 = 1]

\* mutant: the number goes on where the last one ended
TakeFieldOnto ==
  /\ more' = FALSE
  /\ val' = Number
  /\ IF Len(fields) < 3
     THEN fields' = Append(fields, Number) /\ UNCHANGED entries
     ELSE fields' = <<>> /\ entries' = Append(entries, Entry(Append(fields, Number)))

TakeField ==
  /\ more' = FALSE
  /\ val' = 0
  /\ IF Len(fields) < 3
     THEN fields' = Append(fields, Number) /\ UNCHANGED entries
     ELSE fields' = <<>> /\ entries' = Append(entries, Entry(Append(fields, Number)))

TakeGroup ==
  /\ more' = TRUE
  /\ val' = Number
  /\ UNCHANGED <<fields, entries>>

ReadTable ==
  /\ phase = "table"
  /\ Left > 0
  /\ IF Continues THEN TakeGroup ELSE TakeField
  /\ at' = at + 1
  /\ UNCHANGED <<file, phase, pos, targets, read>>

\* mutant: a number may end with any group
BetweenFields == fields # <<>>

InsideEntry == more \/ fields # <<>>

EndOfTable ==
  /\ phase = "table"
  /\ Left = 0
  /\ ~InsideEntry
  /\ phase' = "targets"
  /\ at' = 0
  /\ UNCHANGED <<file, pos, table, targets, read>>

CutTable ==
  /\ phase = "table"
  /\ Left = 0
  /\ InsideEntry
  /\ Exit

-----------------------------------------------------------------------------
(* bc_next.  From 3.6 on an instruction is an opcode and a byte, and one   *)
(* EXTENDED_ARG before it gives the operand's upper byte; before, operands *)
(* have sixteen bits, and EXTENDED_ARG gives sixteen more.                 *)

Extended == Byte(1) = EXTENDED_ARG(Ver)
Prefix   == IF ~Extended THEN 0 ELSE IF Ver >= 306 THEN 2 ELSE 3
Opcode   == ByteToOpcode(Ver, Byte(Prefix + 1))
Rest     == IF Ver >= 306 THEN 2 ELSE IF Opcode.hasArg THEN 3 ELSE 1
Whole    == Left > 0 /\ Left > Prefix /\ Left >= Prefix + Rest

\* (high << 16) | low as a 32-bit int
Int32(high, low) == (IF high < 32768 THEN high ELSE high - 65536) * 65536 + low

Operand ==
  IF Ver >= 306
  THEN (IF Extended THEN 256 * Byte(2) ELSE 0) + Byte(Prefix + 2)
  ELSE Int32(IF Extended THEN Get16(2) ELSE 0, IF Opcode.hasArg THEN Get16(Prefix + 2) ELSE 0)

\* mutant: the operand of EXTENDED_ARG is not counted
CountedShort ==
  IF Ver >= 306 THEN (IF Extended THEN 2 + 2 ELSE 2)
  ELSE 1 + (IF Extended THEN 1 ELSE 0) + (IF Opcode.hasArg THEN 2 ELSE 0)

\* what bc_next adds to pos, counted apart from the bytes it takes
Counted ==
  IF Ver >= 306 THEN (IF Extended THEN 2 + 2 ELSE 2)
  ELSE 1 + (IF Extended THEN 3 ELSE 0) + (IF Opcode.hasArg THEN 2 ELSE 0)

Advance ==
  /\ at' = at + Prefix + Rest
  /\ pos' = pos + Counted

\* the loop of one caller is left, the next one has a buffer of its own
Restart == at' = 0 /\ pos' = 0

(* opcode_at: walks from the start until it meets or passes the target. *)
Sought == entries[Len(targets) + 1].target

\* mutant: takes the first instruction that does not start before the target
SeekNext ==
  /\ phase = "targets"
  /\ Len(targets) < Len(entries)
  /\ \/ /\ Whole /\ pos < Sought
        /\ Advance /\ UNCHANGED targets
     \/ /\ Whole /\ pos >= Sought
        /\ targets' = Append(targets, Opcode) /\ Restart
     \/ /\ Left = 0
        /\ targets' = Append(targets, Invalid) /\ Restart
  /\ UNCHANGED <<file, phase, table, read>>

\* mutant: the walk for a target that no instruction has is made again
SeekAgain ==
  /\ phase = "targets"
  /\ Len(targets) < Len(entries)
  /\ \/ /\ Whole /\ pos < Sought
        /\ Advance /\ UNCHANGED targets
     \/ /\ Whole /\ pos = Sought
        /\ targets' = Append(targets, Opcode) /\ Restart
     \/ /\ Left = 0 \/ (Whole /\ pos > Sought)
        /\ UNCHANGED targets /\ Restart
  /\ UNCHANGED <<file, phase, table, read>>

SeekTarget ==
  /\ phase = "targets"
  /\ Len(targets) < Len(entries)
  /\ \/ /\ Whole /\ pos < Sought
        /\ Advance /\ UNCHANGED targets
     \/ /\ Whole /\ pos = Sought
        /\ targets' = Append(targets, Opcode) /\ Restart
     \/ /\ Left = 0 \/ (Whole /\ pos > Sought)
        /\ targets' = Append(targets, Invalid) /\ Restart
  /\ UNCHANGED <<file, phase, table, read>>

EndOfTargets ==
  /\ phase = "targets"
  /\ Len(targets) = Len(entries)
  /\ phase' = "code"
  /\ UNCHANGED <<file, at, pos, table, targets, read>>

(* Where bc_disasm says a jump goes.  Inline caches are not counted: see   *)
(* the TODO there and at END_FOR.                                          *)
Unit(ver) == IF ver >= 310 THEN 2 ELSE 1

JumpsTo(ver, opcode, operand, next) ==
  CASE opcode.jump = "forward"  -> next + Unit(ver) * operand
    [] opcode.jump = "backward" -> next - Unit(ver) * operand
    [] opcode.jump = "absolute" -> (IF ver >= 312 THEN next ELSE 0) + Unit(ver) * operand
    [] OTHER -> -1

ReadInstruction ==
  /\ phase = "code"
  /\ Whole
  /\ Advance
  /\ read' = Append(read, [start |-> pos, opcode |-> Opcode, operand |-> Operand,
                           to |-> JumpsTo(Ver, Opcode, Operand, pos')])
  /\ UNCHANGED <<file, phase, table, targets>>

CutCode ==
  /\ phase = "code" \/ (phase = "targets" /\ Len(targets) < Len(entries))
  /\ Left > 0
  /\ ~Whole
  /\ Exit

EndOfCode ==
  /\ phase = "code"
  /\ Left = 0
  /\ phase' = "done"
  /\ UNCHANGED <<file, at, pos, table, targets, read>>

Next == ReadTable \/ EndOfTable \/ CutTable \/ SeekTarget \/ EndOfTargets
          \/ ReadInstruction \/ CutCode \/ EndOfCode

Spec == Init /\ [][Next]_vars

\* one thread, which never waits
FairSpec == Spec /\ WF_vars(Next)

-----------------------------------------------------------------------------
(* Properties, of any bytes *)

\* Whatever the bytes, no walk gets past the end of its buffer, which atEof
\* would then never see, and the offset that bc_next counts for its caller,
\* and that jumps, targets and the ends of blocks are compared with, is the
\* place in the buffer: after unknown opcodes and repeated prefixes too.
InStep ==
  /\ phase = "table" => at \in 0 .. Len(file.table)
  /\ phase \in {"targets", "code", "done"} => at \in 0 .. Len(file.code) /\ pos = at

\* Whatever the bytes, the walks agree on where instructions start: what
\* opcode_at finds at the target of an entry is the opcode of the instruction
\* that BuildFromCode gets at that offset, and where it finds none
\* BuildFromCode gets none.  A handler is opened by offset at an instruction
\* that exists and is the one it was taken for.
SameInstructions ==
  phase = "done" =>
    \A i \in DOMAIN targets :
      \/ \E k \in DOMAIN read : read[k].start = entries[i].target /\ targets[i] = read[k].opcode
      \/ /\ \A k \in DOMAIN read : read[k].start # entries[i].target
         /\ targets[i] = Invalid

\* the steps that are left at most: a walk takes one for each byte and one
\* for its end, and an entry of the table, which has four bytes, a walk
Remaining ==
  LET walk == Len(file.code) + 1
  IN CASE phase = "table"   -> (Len(file.table) - at) * (walk + 1) + Len(entries) * walk + walk + 2
       [] phase = "targets" -> (Len(entries) - Len(targets)) * walk + walk - at + 1
       [] phase = "code"    -> walk - at
       [] OTHER             -> 0

\* Whatever the bytes, each step brings the end nearer: none of the loops,
\* which end only where the position is exactly the size, can hang.
Advances == [][Remaining' < Remaining]_vars

=============================================================================
