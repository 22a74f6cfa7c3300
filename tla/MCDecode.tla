------------------------------ MODULE MCDecode ------------------------------
(***************************************************************************)
(* Code objects to read: for every byte of every table an instruction with *)
(* it, between two others; operands at the limits of one and two bytes and *)
(* of an int; exception tables whose numbers take up to three groups; and  *)
(* all of them cut off at every byte.                                      *)
(***************************************************************************)
EXTENDS CodeLayout
LOCAL INSTANCE SequencesExt
LOCAL INSTANCE FiniteSetsExt

Opcodes(ver) == (WithArg(ver) \cup WithoutArg(ver)) \ {EXTENDED_ARG(ver)}

Operands(ver, b) ==
  IF ver >= 306 THEN {1, 255, 65282}
  ELSE IF b < HAVE_ARGUMENT THEN {0}
  ELSE IF b \in Forward(ver) \cup Absolute(ver) THEN {1, 65282, 65536}
  ELSE {1, 65282, 2147483647, -65536}

Instrs(ver, b) ==
  {ins \in [byte : {b}, operand : Operands(ver, b), wide : BOOLEAN] : Encodable(ver, ins)}

Plain(b) == [byte |-> b, operand |-> 0, wide |-> FALSE]

\* an instruction that all versions have: POP_TOP, or BINARY_SLICE in 3.14
Other == Plain(1)

(* Every opcode, and every pair of operands. *)
Sequences(ver) ==
  UNION {{<<ins, Other>> : ins \in Instrs(ver, b)} : b \in Opcodes(ver)}

Pairs(ver) == {<<Other, x, y>> : x, y \in Instrs(ver, 100)}

RowBytes(row) ==
  LET GroupsOf(q) == LET n == Numbers(row)[q]
                   IN  [k \in 1 .. GroupCount(n) |-> Group(n, k) + (IF q = 1 /\ k = 1 THEN 128 ELSE 0)]
  IN  GroupsOf(1) \o GroupsOf(2) \o GroupsOf(3) \o GroupsOf(4)

\* tables; numbers of one to five groups
Tables ==
  {<<>>}
    \cup {<<[start |-> s, end |-> e, target |-> t, depth |-> 1, lasti |-> FALSE]>> :
            s \in {0, 130}, e \in {254, 8194, 540002}, t \in {4, 8192, 33554434}}
    \cup {<<[start |-> 0, end |-> 2, target |-> t, depth |-> 0, lasti |-> TRUE],
            [start |-> 2, end |-> 4, target |-> u, depth |-> 40, lasti |-> FALSE]>> : t \in {2, 4}, u \in {0, 6}}

Starts(ver, instrs) ==
  LET Offset[i \in 1 .. Len(instrs) + 1] ==
        IF i = 1 THEN 0 ELSE Offset[i - 1] + Len(Encoding(ver, instrs[i - 1]))
  IN Offset

\* an entry for the table to be cut off in
NoRow == [start |-> 0, end |-> 0, target |-> 0, depth |-> 0, lasti |-> FALSE]

Places(rows) ==
  LET Place[i \in 1 .. 4 * Len(rows) + 1] ==
        IF i = 1 THEN 0
        ELSE Place[i - 1] + GroupCount(Numbers(rows[(i + 2) \div 4])[((i - 2) % 4) + 1])
  IN Place

File(ver, instrs, rows) ==
  [ver      |-> ver,
   instrs   |-> instrs,
   at       |-> Starts(ver, instrs),
   code     |-> FlattenSeq([i \in DOMAIN instrs |-> Encoding(ver, instrs[i])]),
   rows     |-> rows,
   table    |-> FlattenSeq([i \in DOMAIN rows |-> RowBytes(rows[i])]),
   numberAt |-> Places(Append(rows, NoRow)),
   further  |-> NoRow,
   next     |-> Other,
   rest     |-> 0,
   cut      |-> FALSE]

\* a file that keeps n bytes of its code
CutCodeAt(f, n) ==
  LET whole == Max({i \in 1 .. Len(f.instrs) + 1 : f.at[i] <= n})
  IN [f EXCEPT !.instrs = SubSeq(@, 1, whole - 1),
               !.at     = SubSeq(@, 1, whole),
               !.code   = SubSeq(@, 1, n),
               !.next   = IF whole <= Len(f.instrs) THEN f.instrs[whole] ELSE @,
               !.rest   = n - f.at[whole]]

\* or n bytes of its table
CutTableAt(f, n) ==
  LET ends  == [i \in 0 .. Len(f.rows) |-> Len(FlattenSeq([k \in 1 .. i |-> RowBytes(f.rows[k])]))]
      whole == Max({i \in DOMAIN ends : ends[i] <= n})
      further == IF whole < Len(f.rows) THEN f.rows[whole + 1] ELSE NoRow
  IN [f EXCEPT !.rows = SubSeq(@, 1, whole), !.table = SubSeq(@, 1, n), !.cut = n > ends[whole],
               !.further = further, !.numberAt = Places(Append(SubSeq(f.rows, 1, whole), further))]

WithTables == {File(ver, <<Other, ins, Plain(32)>>, rows) : ver \in {311, 314}, ins \in Instrs(311, 100), rows \in Tables}

WithoutTables == UNION {{File(ver, instrs, <<>>) : instrs \in Sequences(ver)} : ver \in Versions}
Mixed         == UNION {{File(ver, instrs, <<>>) : instrs \in Pairs(ver)} : ver \in Versions}

Smaller(a, b) == IF a < b THEN a ELSE b

Compiled ==
  WithoutTables
    \cup {CutCodeAt(f, Smaller(n, Len(f.code))) : f \in Mixed, n \in 0 .. 13}
    \cup {CutCodeAt(f, Smaller(n, Len(f.code))) : f \in {g \in WithTables : Len(g.rows) < 2}, n \in 0 .. 7}
    \cup {CutTableAt(f, Smaller(n, Len(f.table))) : f \in {g \in WithTables : g.instrs[2].operand = 65282}, n \in 0 .. 11}

=============================================================================
