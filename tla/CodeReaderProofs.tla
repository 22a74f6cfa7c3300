-------------------------- MODULE CodeReaderProofs --------------------------
(***************************************************************************)
(* The walks over a code object, whatever its bytes.  Where an instruction *)
(* starts depends on the bytes alone: the operators below say of a place   *)
(* in the code what bc_next would read there, and Starts is the least set  *)
(* of places that has the first one and, with one where a whole            *)
(* instruction lies, the one behind it.  Every walk goes through all of    *)
(* Starts that lies before it, so that two of them agree.                  *)
(***************************************************************************)
EXTENDS CodeReader, SequenceTheorems, TLAPS

Size == Len(file.code)

ExtendedAt(p) == file.code[p + 1] = EXTENDED_ARG(Ver)
PrefixAt(p)   == IF ~ExtendedAt(p) THEN 0 ELSE IF Ver >= 306 THEN 2 ELSE 3
OpcodeAt(p)   == ByteToOpcode(Ver, file.code[p + (PrefixAt(p) + 1)])
RestAt(p)     == IF Ver >= 306 THEN 2 ELSE IF OpcodeAt(p).hasArg THEN 3 ELSE 1
WholeAt(p)    == p < Size /\ p + PrefixAt(p) + RestAt(p) <= Size
Behind(p)     == p + PrefixAt(p) + RestAt(p)

Closed(S) == 0 \in S /\ \A p \in S : WholeAt(p) => Behind(p) \in S
Starts == {p \in Nat : \A S \in SUBSET Nat : Closed(S) => p \in S}

\* a walk has passed the starts before p, and is at one
Passed(p) == \A q \in Starts : q < p => WholeAt(q) /\ Behind(q) <= p
Walked(p) == p \in Starts /\ p <= Size /\ Passed(p)

-----------------------------------------------------------------------------
(* Sequences, whatever they hold *)
IsSeq(s) == Len(s) \in Nat /\ s = [i \in 1 .. Len(s) |-> s[i]]

LEMMA EmptyIsSeq == IsSeq(<<>>) /\ Len(<<>>) = 0
  BY EmptySeq DEF IsSeq

LEMMA AppendIs ==
  ASSUME NEW s, IsSeq(s), NEW e
  PROVE  /\ IsSeq(Append(s, e)) /\ Len(Append(s, e)) = Len(s) + 1
         /\ \A i \in 1 .. Len(s) : Append(s, e)[i] = s[i]
         /\ Append(s, e)[Len(s) + 1] = e
  <1> DEFINE T == {s[i] : i \in 1 .. Len(s)} \cup {e}
  <1>1. s \in Seq(T)
    <2>1. [i \in 1 .. Len(s) |-> s[i]] \in [1 .. Len(s) -> T]
      OBVIOUS
    <2> QED BY <2>1, SeqDef DEF IsSeq
  <1>2. e \in T
    OBVIOUS
  <1> HIDE DEF T
  <1>3. Append(s, e) \in Seq(T) /\ Len(Append(s, e)) = Len(s) + 1
    BY <1>1, <1>2, AppendProperties
  <1>4. IsSeq(Append(s, e))
    BY <1>3, LenProperties DEF IsSeq
  <1> QED BY <1>1, <1>2, <1>3, <1>4, AppendProperties

-----------------------------------------------------------------------------
(* One step of bc_next *)

FileOK == file \in Files

LEMMA FileTypes ==
  ASSUME FileOK
  PROVE  Size \in Nat /\ Len(file.table) \in Nat /\ Ver \in Versions /\ Ver \in Int
  BY FilesAssumption, LenProperties DEF FileOK, Size, Ver, Versions

LEMMA Widths ==
  ASSUME NEW p
  PROVE  PrefixAt(p) \in {0, 2, 3} /\ RestAt(p) \in {1, 2, 3}
  BY DEF PrefixAt, RestAt

LEMMA BehindIsFurther ==
  ASSUME NEW p \in Nat
  PROVE  Behind(p) \in Nat /\ p < Behind(p)
  BY Widths DEF Behind

\* what the action sees where it stands
LEMMA HereIs ==
  ASSUME FileOK, phase \in {"targets", "code"}, at \in Nat
  PROVE  /\ Left = Size - at /\ Prefix = PrefixAt(at) /\ Rest = RestAt(at)
         /\ Opcode = OpcodeAt(at)
         /\ Whole <=> WholeAt(at)
         /\ Counted = Prefix + Rest
  <1>1. Buffer = file.code /\ Left = Size - at /\ Size \in Nat
    BY FileTypes DEF Buffer, Left, Size
  <1>2. Extended <=> ExtendedAt(at)
    BY <1>1 DEF Extended, ExtendedAt, Byte
  <1>3. Prefix = PrefixAt(at) /\ PrefixAt(at) \in {0, 2, 3}
    BY <1>2, Widths DEF Prefix, PrefixAt
  <1>4. Opcode = OpcodeAt(at)
    BY <1>1, <1>3 DEF Opcode, OpcodeAt, Byte
  <1>5. Rest = RestAt(at) /\ RestAt(at) \in {1, 2, 3}
    BY <1>4, Widths DEF Rest, RestAt
  <1>6. Whole <=> WholeAt(at)
    BY <1>1, <1>3, <1>5 DEF Whole, WholeAt
  <1>7. Counted = Prefix + Rest
    BY DEF Counted, Prefix, Rest
  <1> QED BY <1>1, <1>3, <1>4, <1>5, <1>6, <1>7

-----------------------------------------------------------------------------
(* Starts *)

LEMMA StartsClosed == Closed(Starts) /\ Starts \subseteq Nat
  <1>1. 0 \in Starts
    BY DEF Starts, Closed
  <1>2. ASSUME NEW p \in Starts, WholeAt(p) PROVE Behind(p) \in Starts
    <2>1. p \in Nat /\ Behind(p) \in Nat
      BY <1>2, BehindIsFurther DEF Starts
    <2>2. ASSUME NEW S \in SUBSET Nat, Closed(S) PROVE Behind(p) \in S
      BY <1>2, <2>2 DEF Starts, Closed
    <2> QED BY <2>1, <2>2 DEF Starts
  <1> QED BY <1>1, <1>2 DEF Closed, Starts

LEMMA StartsLeast ==
  ASSUME NEW S \in SUBSET Nat, Closed(S)
  PROVE  Starts \subseteq S
  BY DEF Starts

LEMMA NoneBefore == \A q \in Starts : ~(q < 0)
  <1>1. Starts \subseteq Nat
    BY StartsClosed
  <1> QED BY <1>1

LEMMA WalkStarts ==
  ASSUME Size \in Nat
  PROVE  Walked(0)
  BY StartsClosed DEF Walked, Passed, Closed

(* None starts inside the instruction that a walk takes. *)
LEMMA NoneInside ==
  ASSUME NEW p, Walked(p), WholeAt(p)
  PROVE  \A q \in Starts : q < Behind(p) => q <= p
  <1> DEFINE S == {q \in Starts : q <= p \/ Behind(p) <= q}
  <1>1. p \in Nat /\ p \in Starts /\ Starts \subseteq Nat
    BY StartsClosed DEF Walked
  <1>2. 0 \in S
    BY <1>1, StartsClosed DEF Closed
  <1>3. ASSUME NEW q \in S, WholeAt(q) PROVE Behind(q) \in S
    <2>1. q \in Starts /\ q \in Nat /\ Behind(q) \in Starts /\ Behind(q) \in Nat /\ Behind(p) \in Nat
      BY <1>1, <1>3, StartsClosed, BehindIsFurther DEF Closed
    <2>2. CASE q < p
      BY <2>1, <2>2 DEF Walked, Passed
    <2>3. CASE q = p
      BY <2>1, <2>3
    <2>4. CASE p < q
      <3>1. Behind(p) <= q /\ q < Behind(q)
        BY <1>1, <1>3, <2>1, <2>4, BehindIsFurther
      <3> QED BY <2>1, <3>1
    <2> QED BY <1>1, <2>1, <2>2, <2>3, <2>4
  <1>4. S \in SUBSET Nat /\ Closed(S)
    BY <1>1, <1>2, <1>3 DEF Closed
  <1>5. Starts \subseteq S
    BY <1>4, StartsLeast
  <1>6. Behind(p) \in Nat
    BY <1>1, BehindIsFurther
  <1> QED BY <1>1, <1>5, <1>6

LEMMA WalkOn ==
  ASSUME NEW p, Walked(p), WholeAt(p), Size \in Nat
  PROVE  Walked(Behind(p))
  <1>1. p \in Nat /\ p \in Starts /\ Starts \subseteq Nat /\ Behind(p) \in Starts
    BY StartsClosed DEF Walked, Closed
  <1>2. Behind(p) \in Nat /\ p < Behind(p) /\ Behind(p) <= Size
    BY <1>1, BehindIsFurther DEF WholeAt, Behind
  <1>3. ASSUME NEW q \in Starts, q < Behind(p) PROVE WholeAt(q) /\ Behind(q) <= Behind(p)
    <2>1. q <= p /\ q \in Nat
      BY <1>1, <1>3, NoneInside
    <2>2. CASE q < p
      <3>1. WholeAt(q) /\ Behind(q) <= p /\ Behind(q) \in Nat
        BY <2>1, <2>2, BehindIsFurther DEF Walked, Passed
      <3> QED BY <1>1, <1>2, <3>1
    <2>3. CASE q = p
      BY <1>2, <2>3
    <2> QED BY <1>1, <2>1, <2>2, <2>3
  <1> QED BY <1>1, <1>2, <1>3 DEF Walked, Passed

-----------------------------------------------------------------------------
(* The inductive invariant: where the walks are, what they have found and  *)
(* what they have passed.                                                  *)

\* opcode_at has answered for an entry
Answered(i) ==
  \/ /\ entries[i].target \in Starts /\ WholeAt(entries[i].target)
     /\ targets[i] = OpcodeAt(entries[i].target)
  \/ /\ ~(entries[i].target \in Starts /\ WholeAt(entries[i].target))
     /\ targets[i] = Invalid

\* it has not passed its target
Seeking ==
  IF Len(targets) < Len(entries) THEN \A q \in Starts : q < at => q # Sought ELSE at = 0

\* what was read are the starts before the place
ReadSoFar ==
  /\ IsSeq(read)
  /\ \A k \in 1 .. Len(read) :
       /\ read[k].start \in Starts /\ WholeAt(read[k].start)
       /\ read[k].opcode = OpcodeAt(read[k].start)
  /\ \A q \in Starts : q < at => \E k \in 1 .. Len(read) : read[k].start = q

IInv ==
  /\ FileOK
  /\ phase \in {"table", "targets", "code", "done", "exit"}
  /\ IsSeq(entries) /\ IsSeq(targets) /\ Len(targets) <= Len(entries)
  /\ phase = "table" => at \in 0 .. Len(file.table) /\ pos = 0 /\ targets = <<>> /\ read = <<>>
  /\ phase \in {"targets", "code", "done"} =>
       Walked(at) /\ pos = at /\ \A i \in 1 .. Len(targets) : Answered(i)
  /\ phase = "targets" => read = <<>> /\ Seeking
  /\ phase \in {"code", "done"} => ReadSoFar
  /\ phase = "done" => at = Size

LEMMA SamePlaces ==
  ASSUME UNCHANGED file
  PROVE  /\ FileOK' = FileOK /\ Size' = Size /\ Starts' = Starts
         /\ \A p : /\ OpcodeAt(p)' = OpcodeAt(p) /\ (WholeAt(p)' <=> WholeAt(p))
                   /\ (Walked(p)' <=> Walked(p))
  <1>1. Size' = Size /\ FileOK' = FileOK
    BY DEF Size, FileOK
  <1>2. \A p : /\ PrefixAt(p)' = PrefixAt(p) /\ OpcodeAt(p)' = OpcodeAt(p)
               /\ RestAt(p)' = RestAt(p)
    BY DEF PrefixAt, OpcodeAt, RestAt, ExtendedAt, Ver
  <1>3. \A p : (WholeAt(p)' <=> WholeAt(p)) /\ Behind(p)' = Behind(p)
    BY <1>1, <1>2 DEF WholeAt, Behind
  <1>4. \A S : Closed(S)' <=> Closed(S)
    BY <1>3 DEF Closed
  <1>5. Starts' = Starts
    BY <1>4 DEF Starts
  <1>6. \A p : Walked(p)' <=> Walked(p)
    BY <1>1, <1>3, <1>5 DEF Walked, Passed
  <1> QED BY <1>1, <1>2, <1>3, <1>5, <1>6

LEMMA SameAnswers ==
  ASSUME UNCHANGED <<file, entries>>, NEW i, targets'[i] = targets[i], Answered(i)
  PROVE  Answered(i)'
  BY SamePlaces DEF Answered

LEMMA Begins == Init => IInv
  <1> SUFFICES ASSUME Init PROVE IInv
    OBVIOUS
  <1>1. /\ FileOK /\ phase \in {"table", "code"} /\ at = 0 /\ pos = 0
        /\ entries = <<>> /\ targets = <<>> /\ read = <<>>
    BY DEF Init, FileOK
  <1>2. Size \in Nat /\ Len(file.table) \in Nat /\ Starts \subseteq Nat
    BY <1>1, FileTypes, StartsClosed
  <1>3. Walked(at)
    BY <1>1, <1>2, WalkStarts
  <1>4. ReadSoFar
    BY <1>1, <1>2, EmptyIsSeq DEF ReadSoFar
  <1> QED BY <1>1, <1>2, <1>3, <1>4, EmptyIsSeq DEF IInv

\* one more instruction in a walk
LEMMA Advances1 ==
  ASSUME IInv, phase \in {"targets", "code"}, Whole, Advance, UNCHANGED file
  PROVE  /\ Walked(at)' /\ pos' = at' /\ at \in Nat /\ WholeAt(at) /\ at' = Behind(at)
         /\ \A q \in Starts : q < at' => q <= at
  <1>1. FileOK /\ Walked(at) /\ pos = at /\ at \in Nat
    BY DEF IInv, Walked, Starts
  <1>2. WholeAt(at) /\ at' = Behind(at) /\ pos' = pos + (Prefix + Rest) /\ at' = at + Prefix + Rest
    BY <1>1, HereIs DEF Advance, Behind
  <1>3. Prefix \in Int /\ Rest \in Int
    BY <1>1, HereIs, Widths
  <1>4. Walked(Behind(at))
    BY <1>1, <1>2, FileTypes, WalkOn
  <1>5. Walked(at)'
    BY <1>2, <1>4, SamePlaces
  <1>6. pos' = at'
    BY <1>1, <1>2, <1>3
  <1>7. \A q \in Starts : q < at' => q <= at
    BY <1>1, <1>2, NoneInside
  <1> QED BY <1>1, <1>2, <1>5, <1>6, <1>7

LEMMA SeekKeeps ==
  ASSUME IInv, SeekTarget
  PROVE  IInv'
  <1>1. /\ FileOK /\ phase = "targets" /\ phase' = phase /\ UNCHANGED <<file, entries, read>>
        /\ Walked(at) /\ pos = at /\ at \in Nat /\ Starts \subseteq Nat
        /\ IsSeq(entries) /\ IsSeq(targets) /\ Len(targets) < Len(entries)
        /\ Len(targets) \in Nat /\ Len(entries) \in Nat /\ Size \in Nat
        /\ read = <<>> /\ \A i \in 1 .. Len(targets) : Answered(i)
        /\ \A q \in Starts : q < at => q # Sought
    BY FileTypes, StartsClosed DEF SeekTarget, IInv, Seeking, IsSeq, Walked, table
  <1>2. FileOK' /\ Starts' = Starts /\ Size' = Size
    BY <1>1, SamePlaces
  <1>3. CASE Whole /\ pos < Sought /\ Advance /\ UNCHANGED targets
    <2>1. Walked(at)' /\ pos' = at' /\ \A q \in Starts : q < at' => q <= at
      BY <1>1, <1>3, Advances1
    <2>2. Sought' = Sought
      BY <1>1, <1>3 DEF Sought
    <2>3. at # Sought
      BY <1>1, <1>3
    <2>4. \A q \in Starts : q < at' => q # Sought
      BY <1>1, <2>1, <2>3
    <2>5. Seeking'
      BY <1>1, <1>2, <1>3, <2>2, <2>4 DEF Seeking
    <2>6. \A i \in 1 .. Len(targets) : Answered(i)'
      BY <1>1, <1>3, SameAnswers
    <2> QED BY <1>1, <1>2, <1>3, <2>1, <2>5, <2>6 DEF IInv
  <1>4. ASSUME NEW o, targets' = Append(targets, o), Restart,
               \/ Sought \in Starts /\ WholeAt(Sought) /\ o = OpcodeAt(Sought)
               \/ ~(Sought \in Starts /\ WholeAt(Sought)) /\ o = Invalid
        PROVE  IInv'
    <2>1. /\ IsSeq(targets') /\ Len(targets') = Len(targets) + 1
          /\ \A i \in 1 .. Len(targets) : targets'[i] = targets[i]
          /\ targets'[Len(targets) + 1] = o
      BY <1>1, <1>4, AppendIs
    <2>2. at' = 0 /\ pos' = 0
      BY <1>4 DEF Restart
    <2>3. Walked(at)'
      BY <1>1, <2>2, WalkStarts, SamePlaces
    <2>4. ASSUME NEW i \in 1 .. Len(targets) + 1 PROVE Answered(i)'
      <3>1. CASE i \in 1 .. Len(targets)
        BY <1>1, <2>1, <3>1, SameAnswers
      <3>2. CASE i = Len(targets) + 1
        <4>1. entries'[i].target = Sought
          BY <1>1, <3>2 DEF Sought
        <4> QED BY <1>1, <1>2, <1>4, <2>1, <3>2, <4>1, SamePlaces DEF Answered
      <3> QED BY <1>1, <3>1, <3>2
    <2>5. Seeking'
      BY <1>1, <1>2, <2>2 DEF Seeking
    <2> QED BY <1>1, <1>2, <2>1, <2>2, <2>3, <2>4, <2>5 DEF IInv
  <1>5. CASE Whole /\ pos = Sought /\ targets' = Append(targets, Opcode) /\ Restart
    <2>1. Sought \in Starts /\ WholeAt(Sought) /\ Opcode = OpcodeAt(Sought)
      BY <1>1, <1>5, HereIs DEF Walked
    <2> QED BY <1>4, <1>5, <2>1
  <1>6. CASE /\ Left = 0 \/ (Whole /\ pos > Sought)
             /\ targets' = Append(targets, Invalid) /\ Restart
    <2>1. ASSUME Sought \in Starts, WholeAt(Sought) PROVE FALSE
      <3>1. Sought \in Nat /\ Sought < Size
        BY <1>1, <2>1 DEF WholeAt
      <3>2. CASE Left = 0
        <4>1. at = Size
          BY <1>1, <3>2, HereIs
        <4> QED BY <1>1, <2>1, <3>1, <4>1
      <3>3. CASE pos > Sought
        BY <1>1, <2>1, <3>1, <3>3
      <3> QED BY <1>6, <3>2, <3>3
    <2> QED BY <1>4, <1>6, <2>1
  <1> QED BY <1>3, <1>5, <1>6 DEF SeekTarget

LEMMA ReadKeeps ==
  ASSUME IInv, ReadInstruction
  PROVE  IInv'
  <1>1. /\ FileOK /\ phase = "code" /\ phase' = phase /\ UNCHANGED <<file, entries, targets>>
        /\ Walked(at) /\ pos = at /\ at \in Starts /\ Starts \subseteq Nat
        /\ Whole /\ Advance /\ ReadSoFar
        /\ \A i \in 1 .. Len(targets) : Answered(i)
    BY StartsClosed DEF ReadInstruction, IInv, Walked, table
  <1>2. FileOK' /\ Starts' = Starts /\ Size' = Size
    BY <1>1, SamePlaces
  <1>3. /\ Walked(at)' /\ pos' = at' /\ WholeAt(at)
        /\ \A q \in Starts : q < at' => q <= at
    BY <1>1, Advances1
  <1>4. Opcode = OpcodeAt(at)
    BY <1>1, HereIs
  <1>5. PICK to : read' = Append(read, [start |-> pos, opcode |-> Opcode, operand |-> Operand, to |-> to])
    BY DEF ReadInstruction
  <1> DEFINE ins == [start |-> pos, opcode |-> Opcode, operand |-> Operand, to |-> to]
  <1>6. ins.start = at /\ ins.opcode = OpcodeAt(at)
    BY <1>1, <1>4
  <1> HIDE DEF ins
  <1>7. /\ IsSeq(read') /\ Len(read') = Len(read) + 1 /\ Len(read) \in Nat
        /\ \A k \in 1 .. Len(read) : read'[k] = read[k]
        /\ read'[Len(read) + 1] = ins
    BY <1>1, <1>5, AppendIs DEF ReadSoFar, ins, IsSeq
  <1>8. ASSUME NEW k \in 1 .. Len(read')
        PROVE  /\ read'[k].start \in Starts /\ WholeAt(read'[k].start)
               /\ read'[k].opcode = OpcodeAt(read'[k].start)
    <2>1. k \in 1 .. Len(read) \/ k = Len(read) + 1
      BY <1>7
    <2> QED BY <1>1, <1>3, <1>6, <1>7, <2>1 DEF ReadSoFar
  <1>9. ASSUME NEW q \in Starts, q < at' PROVE \E k \in 1 .. Len(read') : read'[k].start = q
    <2>1. q < at \/ q = at
      BY <1>1, <1>3, <1>9
    <2>2. CASE q < at
      <3>1. PICK k \in 1 .. Len(read) : read[k].start = q
        BY <2>2 , <1>1 DEF ReadSoFar
      <3> QED BY <1>7, <3>1
    <2>3. CASE q = at
      BY <1>6, <1>7, <2>3
    <2> QED BY <2>1, <2>2, <2>3
  <1>10. ReadSoFar'
    BY <1>2, <1>1, <1>7, <1>8, <1>9, SamePlaces DEF ReadSoFar
  <1>11. \A i \in 1 .. Len(targets) : Answered(i)'
    BY <1>1, SameAnswers
  <1> QED BY <1>1, <1>2, <1>3, <1>10, <1>11 DEF IInv

LEMMA StepKeeps ==
  ASSUME IInv, [Next]_vars
  PROVE  IInv'
  <1>1. FileOK /\ Size \in Nat /\ Len(file.table) \in Nat
    BY FileTypes DEF IInv
  <1>2. CASE ReadTable
    <2>1. /\ phase = "table" /\ phase' = phase /\ at' = at + 1 /\ Left > 0
          /\ UNCHANGED <<file, pos, targets, read>>
          /\ entries' = entries \/ \E e : entries' = Append(entries, e)
      BY <1>2 DEF ReadTable, TakeGroup, TakeField
    <2>2. at \in 0 .. Len(file.table) /\ Left = Len(file.table) - at
      BY <2>1 DEF IInv, Left, Buffer
    <2>3. at' \in 0 .. Len(file.table)
      BY <1>1, <2>1, <2>2
    <2>4. IsSeq(entries') /\ Len(entries') >= Len(entries) /\ Len(entries) \in Nat
      BY <2>1, AppendIs DEF IInv, IsSeq
    <2>5. Len(targets) = 0
      BY <2>1, EmptyIsSeq DEF IInv
    <2> QED BY <1>1, <2>1, <2>3, <2>4, <2>5, SamePlaces DEF IInv
  <1>3. CASE EndOfTable
    <2>1. /\ phase = "table" /\ phase' = "targets" /\ at' = 0 /\ pos' = 0
          /\ UNCHANGED <<file, entries, targets, read>> /\ targets = <<>> /\ read = <<>>
      BY <1>3 DEF EndOfTable, IInv, table
    <2>2. Walked(at)'
      BY <1>1, <2>1, WalkStarts, SamePlaces
    <2>3. Seeking'
      <3>1. \A q \in Starts' : ~(q < at')
        <4>1. Starts' = Starts /\ at' = 0
          BY <2>1, SamePlaces
        <4> QED BY <4>1, NoneBefore
      <3> QED BY <2>1, <3>1 DEF Seeking
    <2> QED BY <1>1, <2>1, <2>2, <2>3, EmptyIsSeq, SamePlaces DEF IInv
  <1>4. CASE CutTable \/ CutCode
    <2>1. phase' = "exit" /\ UNCHANGED <<file, entries, targets>>
      BY <1>4 DEF CutTable, CutCode, Exit, table
    <2> QED BY <1>1, <2>1, SamePlaces DEF IInv
  <1>5. CASE SeekTarget
    BY <1>5, SeekKeeps
  <1>6. CASE EndOfTargets
    <2>1. /\ phase = "targets" /\ phase' = "code" /\ Len(targets) = Len(entries)
          /\ UNCHANGED <<file, at, pos, entries, targets, read>>
      BY <1>6 DEF EndOfTargets, table
    <2>2. Walked(at) /\ pos = at /\ read = <<>> /\ at = 0 /\ \A i \in 1 .. Len(targets) : Answered(i)
      BY <2>1 DEF IInv, Seeking, IsSeq
    <2>3. ReadSoFar'
      <3>1. \A q \in Starts' : ~(q < at')
        <4>1. Starts' = Starts /\ at' = 0
          BY <2>1, <2>2, SamePlaces
        <4> QED BY <4>1, NoneBefore
      <3> QED BY <2>1, <2>2, <3>1, EmptyIsSeq DEF ReadSoFar
    <2>4. \A i \in 1 .. Len(targets) : Answered(i)'
      BY <2>1, <2>2, SameAnswers
    <2> QED BY <1>1, <2>1, <2>2, <2>3, <2>4, SamePlaces DEF IInv
  <1>7. CASE ReadInstruction
    BY <1>7, ReadKeeps
  <1>8. CASE EndOfCode
    <2>1. /\ phase = "code" /\ phase' = "done" /\ Left = 0
          /\ UNCHANGED <<file, at, pos, entries, targets, read>>
      BY <1>8 DEF EndOfCode, table
    <2>2. Walked(at) /\ pos = at /\ ReadSoFar /\ at \in Nat /\ \A i \in 1 .. Len(targets) : Answered(i)
      BY <2>1, StartsClosed DEF IInv, Walked
    <2>3. at = Size
      BY <1>1, <2>1, <2>2, HereIs
    <2>4. ReadSoFar'
      BY <2>1, <2>2, SamePlaces DEF ReadSoFar
    <2>5. \A i \in 1 .. Len(targets) : Answered(i)'
      BY <2>1, <2>2, SameAnswers
    <2> QED BY <1>1, <2>1, <2>2, <2>3, <2>4, <2>5, SamePlaces DEF IInv
  <1>9. CASE UNCHANGED vars
    <2>1. UNCHANGED <<file, phase, at, pos, entries, targets, read>>
      BY <1>9 DEF vars
    <2>2. Seeking' <=> Seeking
      BY <2>1, SamePlaces DEF Seeking, Sought
    <2>3. ReadSoFar' <=> ReadSoFar
      BY <2>1, SamePlaces DEF ReadSoFar
    <2>4. \A i : Answered(i)' <=> Answered(i)
      BY <2>1, SamePlaces DEF Answered
    <2> QED BY <1>1, <2>1, <2>2, <2>3, <2>4, SamePlaces DEF IInv
  <1> QED
    BY <1>2, <1>3, <1>4, <1>5, <1>6, <1>7, <1>8, <1>9 DEF Next

-----------------------------------------------------------------------------
(* How much is left *)

LEMMA PlaceTypes ==
  ASSUME IInv
  PROVE  /\ Size \in Nat /\ Len(file.table) \in Nat /\ Len(entries) \in Nat /\ Len(targets) \in Nat
         /\ Len(targets) <= Len(entries)
         /\ phase = "table" => at \in 0 .. Len(file.table) /\ Len(targets) = 0
         /\ phase \in {"targets", "code", "done"} => at \in 0 .. Size
  <1>1. phase = "table" => Len(targets) = 0
    BY EmptyIsSeq DEF IInv
  <1>2. phase \in {"targets", "code", "done"} => at \in Nat /\ at <= Size
    BY StartsClosed DEF IInv, Walked
  <1> QED BY <1>1, <1>2, FileTypes DEF IInv, IsSeq

Walk == Size + 1

LEMMA RemainingIs ==
  /\ phase = "table" =>
       Remaining = (Len(file.table) - at) * (Walk + 1) + Len(entries) * Walk + Walk + 2
  /\ phase = "targets" => Remaining = (Len(entries) - Len(targets)) * Walk + Walk - at + 1
  /\ phase = "code" => Remaining = Walk - at
  /\ phase \in {"done", "exit"} => Remaining = 0
  BY DEF Remaining, Size, Walk

LEMMA RemainingNext ==
  ASSUME UNCHANGED file
  PROVE  /\ phase' = "table" =>
              Remaining' = (Len(file.table) - at') * (Walk + 1) + Len(entries') * Walk + Walk + 2
         /\ phase' = "targets" => Remaining' = (Len(entries') - Len(targets')) * Walk + Walk - at' + 1
         /\ phase' = "code" => Remaining' = Walk - at'
         /\ phase' \in {"done", "exit"} => Remaining' = 0
  BY DEF Remaining, Size, Walk

LEMMA Products ==
  /\ \A l, a, e, w \in Int : w > 0 => (l - (a + 1)) * (w + 1) + e * w < (l - a) * (w + 1) + e * w
  /\ \A l, a, e, w \in Int : w > 0 =>
       (l - (a + 1)) * (w + 1) + (e + 1) * w < (l - a) * (w + 1) + e * w
  /\ \A e, t, w \in Int : (e - (t + 1)) * w + w = (e - t) * w
  /\ \A l, w \in Nat : l * w \in Nat
  <1>1. \A l, a, e, w \in Int : w > 0 => (l - (a + 1)) * (w + 1) + e * w < (l - a) * (w + 1) + e * w
    BY SMT
  <1>2. \A l, a, e, w \in Int : w > 0 =>
          (l - (a + 1)) * (w + 1) + (e + 1) * w < (l - a) * (w + 1) + e * w
    BY SMT
  <1>3. \A e, t, w \in Int : (e - (t + 1)) * w + w = (e - t) * w
    BY SMT
  <1>4. \A l, w \in Nat : l * w \in Nat
    BY SMT
  <1> QED BY <1>1, <1>2, <1>3, <1>4

LEMMA RemainingNat ==
  ASSUME IInv
  PROVE  Remaining \in Nat /\ (phase \in {"table", "targets", "code"} => Remaining > 0)
  <1>1. /\ Walk \in Nat /\ Walk > 0 /\ Len(file.table) \in Nat /\ Len(entries) \in Nat
        /\ Len(targets) \in Nat /\ Len(entries) - Len(targets) \in Nat
        /\ phase = "table" => Len(file.table) - at \in Nat
        /\ phase \in {"targets", "code"} => Walk - at \in Nat /\ Walk - at > 0
    BY PlaceTypes DEF Walk
  <1>2. CASE phase = "table"
    <2>1. (Len(file.table) - at) * (Walk + 1) \in Nat /\ Len(entries) * Walk \in Nat
      BY <1>1, <1>2, Products
    <2> QED BY <1>1, <1>2, <2>1, RemainingIs
  <1>3. CASE phase = "targets"
    <2>1. (Len(entries) - Len(targets)) * Walk \in Nat /\ at \in Int
      BY <1>1, <1>3, Products, PlaceTypes
    <2> QED BY <1>1, <1>3, <2>1, RemainingIs
  <1>4. CASE phase = "code"
    BY <1>1, <1>4, RemainingIs
  <1>5. CASE phase \in {"done", "exit"}
    BY <1>5, RemainingIs
  <1> QED BY <1>2, <1>3, <1>4, <1>5 DEF IInv

LEMMA Nearer ==
  ASSUME IInv, Next
  PROVE  Remaining' < Remaining
  <1>1. /\ Walk \in Int /\ Walk > 0 /\ Len(file.table) \in Int /\ Len(entries) \in Int /\ Len(targets) \in Int
        /\ phase \in {"table", "targets", "code"} => at \in Int
    BY PlaceTypes DEF Walk
  <1>2. CASE ReadTable
    <2>1. /\ phase = "table" /\ phase' = phase /\ at' = at + 1 /\ UNCHANGED file
          /\ entries' = entries \/ \E e : entries' = Append(entries, e)
      BY <1>2 DEF ReadTable, TakeGroup, TakeField
    <2>2. Len(entries') = Len(entries) \/ Len(entries') = Len(entries) + 1
      BY <2>1, AppendIs DEF IInv
    <2> DEFINE old == (Len(file.table) - at) * (Walk + 1) + Len(entries) * Walk
               new == (Len(file.table) - at') * (Walk + 1) + Len(entries') * Walk
    <2>3. new < old
      BY <1>1, <2>1, <2>2, Products
    <2>4. new \in Int /\ old \in Int
      BY <1>1, <2>1, <2>2
    <2>5. Remaining = old + Walk + 2 /\ Remaining' = new + Walk + 2
      BY <2>1, RemainingIs, RemainingNext
    <2> HIDE DEF old, new
    <2> QED BY <1>1, <2>3, <2>4, <2>5
  <1>3. CASE EndOfTable
    <2>1. /\ phase = "table" /\ phase' = "targets" /\ at' = 0 /\ at = Len(file.table)
          /\ UNCHANGED <<file, entries, targets>> /\ Len(targets) = 0
      BY <1>1, <1>3, PlaceTypes DEF EndOfTable, table, Left, Buffer
    <2>2. Remaining' = (Len(entries) - 0) * Walk + Walk - 0 + 1
      BY <2>1, RemainingNext
    <2>3. Remaining = (Len(file.table) - Len(file.table)) * (Walk + 1) + Len(entries) * Walk + Walk + 2
      BY <2>1, RemainingIs
    <2> QED BY <1>1, <2>2, <2>3
  <1>4. CASE CutTable \/ CutCode
    <2>1. phase \in {"table", "targets", "code"} /\ phase' = "exit" /\ UNCHANGED file
      BY <1>4 DEF CutTable, CutCode, Exit
    <2> QED BY <2>1, RemainingNat, RemainingNext
  <1>5. CASE SeekTarget
    <2>1. /\ phase = "targets" /\ phase' = phase /\ UNCHANGED <<file, entries>>
          /\ at \in 0 .. Size /\ Size \in Int
      BY <1>5, PlaceTypes DEF SeekTarget, table
    <2>2. CASE Whole /\ Advance /\ UNCHANGED targets
      <3>1. at' = Behind(at) /\ at \in Nat
        BY <2>1, <2>2, Advances1
      <3>2. at < at' /\ at' \in Int
        BY <3>1, BehindIsFurther
      <3> DEFINE rest == (Len(entries) - Len(targets)) * Walk
      <3>3. rest \in Int
        BY <1>1
      <3>4. Remaining = rest + Walk - at + 1 /\ Remaining' = rest + Walk - at' + 1
        BY <2>1, <2>2, RemainingIs, RemainingNext
      <3> HIDE DEF rest
      <3> QED BY <1>1, <3>1, <3>2, <3>3, <3>4
    <2>3. CASE Restart /\ \E o : targets' = Append(targets, o)
      <3>1. at' = 0 /\ Len(targets') = Len(targets) + 1
        BY <2>3, AppendIs DEF Restart, IInv
      <3> DEFINE rest == (Len(entries) - Len(targets)) * Walk
                 less == (Len(entries) - (Len(targets) + 1)) * Walk
      <3>2. less + Walk = rest /\ less \in Int /\ rest \in Int
        BY <1>1, Products
      <3>3. Remaining = rest + Walk - at + 1 /\ Remaining' = less + Walk - 0 + 1
        BY <2>1, <3>1, RemainingIs, RemainingNext
      <3>4. at < Walk
        BY <2>1 DEF Walk
      <3> HIDE DEF rest, less
      <3> QED BY <1>1, <2>1, <3>2, <3>3, <3>4
    <2> QED BY <1>5, <2>2, <2>3 DEF SeekTarget
  <1>6. CASE EndOfTargets
    <2>1. /\ phase = "targets" /\ phase' = "code" /\ Len(targets) = Len(entries)
          /\ UNCHANGED <<file, at>>
      BY <1>6 DEF EndOfTargets
    <2>2. Remaining = (Len(entries) - Len(entries)) * Walk + Walk - at + 1 /\ Remaining' = Walk - at
      BY <2>1, RemainingIs, RemainingNext
    <2> QED BY <1>1, <2>1, <2>2
  <1>7. CASE ReadInstruction
    <2>1. phase = "code" /\ phase' = phase /\ UNCHANGED file /\ Whole /\ Advance
      BY <1>7 DEF ReadInstruction
    <2>2. at' = Behind(at) /\ at \in Nat
      BY <2>1, Advances1
    <2>3. at < at' /\ at' \in Int
      BY <2>2, BehindIsFurther
    <2> QED BY <1>1, <2>1, <2>3, RemainingIs, RemainingNext
  <1>8. CASE EndOfCode
    <2>1. phase = "code" /\ phase' = "done" /\ UNCHANGED file
      BY <1>8 DEF EndOfCode
    <2> QED BY <2>1, RemainingNat, RemainingNext
  <1> QED
    BY <1>2, <1>3, <1>4, <1>5, <1>6, <1>7, <1>8 DEF Next

-----------------------------------------------------------------------------
LEMMA Always == Spec => []IInv
  BY Begins, StepKeeps, PTL DEF Spec

(* Whatever the bytes of the code and of the table: no walk gets past the  *)
(* end of its buffer, and bc_next counts the place where it stands.        *)
THEOREM AlwaysInStep == Spec => []InStep
  <1>1. IInv => InStep
    BY PlaceTypes DEF IInv, InStep, Size
  <1> QED BY <1>1, Always, PTL

(* Whatever the bytes: opcode_at and the walk of BuildFromCode agree on    *)
(* which instruction starts at a target, and on whether one does.          *)
THEOREM WalksAgree == Spec => []SameInstructions
  <1>1. ASSUME IInv, phase = "done", NEW i \in DOMAIN targets
        PROVE  \/ \E k \in DOMAIN read : read[k].start = entries[i].target /\ targets[i] = read[k].opcode
               \/ /\ \A k \in DOMAIN read : read[k].start # entries[i].target
                  /\ targets[i] = Invalid
    <2>1. /\ DOMAIN targets = 1 .. Len(targets) /\ Answered(i)
          /\ DOMAIN read = 1 .. Len(read) /\ ReadSoFar /\ at = Size
      BY <1>1 DEF IInv, IsSeq, ReadSoFar
    <2>2. CASE entries[i].target \in Starts /\ WholeAt(entries[i].target)
      <3>1. entries[i].target < at
        BY <2>1, <2>2 DEF WholeAt
      <3>2. PICK k \in 1 .. Len(read) : read[k].start = entries[i].target
        BY <2>1, <2>2, <3>1 DEF ReadSoFar
      <3>3. read[k].opcode = OpcodeAt(entries[i].target) /\ targets[i] = OpcodeAt(entries[i].target)
        BY <2>1, <2>2, <3>2 DEF ReadSoFar, Answered
      <3> QED BY <2>1, <3>2, <3>3
    <2>3. CASE ~(entries[i].target \in Starts /\ WholeAt(entries[i].target))
      <3>1. targets[i] = Invalid
        BY <2>1, <2>3 DEF Answered
      <3>2. \A k \in 1 .. Len(read) : read[k].start # entries[i].target
        BY <2>1, <2>3 DEF ReadSoFar
      <3> QED BY <2>1, <3>1, <3>2
    <2> QED BY <2>2, <2>3
  <1>2. IInv => SameInstructions
    BY <1>1 DEF SameInstructions
  <1> QED BY <1>2, Always, PTL

(* Whatever the bytes: the loops of the readers come to an end.  What      *)
(* Remaining counts is a natural number that every step lowers.            *)
THEOREM ReadingEnds == Spec => Advances /\ [](Remaining \in Nat)
  <1>1. IInv /\ [Next]_vars => [Remaining' < Remaining]_vars
    BY Nearer
  <1>2. IInv => Remaining \in Nat
    BY RemainingNat
  <1> QED BY <1>1, <1>2, Always, PTL DEF Spec, Advances
=============================================================================
