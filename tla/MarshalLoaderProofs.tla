------------------------- MODULE MarshalLoaderProofs -------------------------
(***************************************************************************)
(* MarshalLoader, for every set of files: the types, and that what is      *)
(* loaded is whole and of the right class.  An action makes an object      *)
(* (Create), enters one (Enter), gives the innermost one a member (Give)   *)
(* or leaves it (Leave); the first lemmas say what each does to the heap   *)
(* and the frames, and the rest of the module works from them.  Two        *)
(* action properties close it: a returned object stays what it was, and    *)
(* every step brings the end of loading nearer.                            *)
(***************************************************************************)
EXTENDS MarshalLoader, SequenceTheorems, TLAPS

TokenType == [t : STRING, flag : BOOLEAN, n : Int]
FieldNames == {"argCount", "posOnlyArgCount", "kwOnlyArgCount", "numLocals", "stackSize", "flags",
               "code", "consts", "names", "localNames", "localKinds", "freeVars", "cellVars",
               "fileName", "name", "qualName", "firstLine", "lnTable", "exceptTable"}
FieldType == [name : FieldNames, kind : {"short", "word", "string", "sequence"}]

FileOK == file \in Files

-----------------------------------------------------------------------------
(* The layouts: every version has one, and it ends with an object. *)

LEMMA WhenType ==
  ASSUME NEW S, NEW c, NEW s \in Seq(S)
  PROVE  When(c, s) \in Seq(S)
  BY EmptySeq DEF When

LEMMA TupleTypes ==
  ASSUME NEW S, NEW a \in S, NEW b \in S, NEW c \in S
  PROVE  <<a>> \in Seq(S) /\ <<a, b>> \in Seq(S) /\ <<a, b, c>> \in Seq(S)
  OBVIOUS

LEMMA LastOfConcat ==
  ASSUME NEW S, NEW s \in Seq(S), NEW t \in Seq(S), t # <<>>
  PROVE  /\ s \o t \in Seq(S)
         /\ Len(s \o t) \in Nat \ {0}
         /\ (s \o t)[Len(s \o t)] = t[Len(t)]
  <1>1. Len(s) \in Nat /\ Len(t) \in Nat \ {0}
    BY LenProperties, EmptySeq
  <1> QED
    BY <1>1, ConcatProperties

LEMMA LayoutEndsWithObject ==
  ASSUME NEW v \in Versions
  PROVE  /\ Layout(v) \in Seq(FieldType)
         /\ Len(Layout(v)) \in Nat \ {0}
         /\ Layout(v)[Len(Layout(v))].kind = "string"
  <1> DEFINE A1 == When(v >= 103, <<Num(v, "argCount")>>)
             A2 == When(v >= 308, <<Num(v, "posOnlyArgCount")>>)
             A3 == When(v >= 300, <<Num(v, "kwOnlyArgCount")>>)
             A4 == When(v >= 103 /\ v < 311, <<Num(v, "numLocals")>>)
             A5 == When(v >= 105, <<Num(v, "stackSize")>>)
             A6 == When(v >= 103, <<Num(v, "flags")>>)
             A7 == <<Str("code"), Tup("consts"), Tup("names")>>
             A8 == When(v >= 103, <<Tup("localNames")>>)
             A9 == When(v >= 311, <<Str("localKinds")>>)
             A10 == When(v >= 201 /\ v < 311, <<Tup("freeVars"), Tup("cellVars")>>)
             B == A1 \o A2 \o A3 \o A4 \o A5 \o A6 \o A7 \o A8 \o A9 \o A10
             C == <<Str("fileName"), Str("name")>>
             D == When(v >= 311, <<Str("qualName")>>)
             E == When(v >= 105, <<Num(v, "firstLine"), Str("lnTable")>>)
             F == When(v >= 311, <<Str("exceptTable")>>)
  <1>1. v \in Int
    BY DEF Versions
  <1>2. \A name \in FieldNames : Num(v, name) \in FieldType /\ Str(name) \in FieldType /\ Tup(name) \in FieldType
    BY <1>1 DEF Num, Str, Tup, FieldType
  <1>21. FieldNames = {"argCount", "posOnlyArgCount", "kwOnlyArgCount", "numLocals", "stackSize", "flags",
               "code", "consts", "names", "localNames", "localKinds", "freeVars", "cellVars",
               "fileName", "name", "qualName", "firstLine", "lnTable", "exceptTable"}
    BY DEF FieldNames
  <1>3. \A n1, n2, n3 \in FieldType :
          <<n1>> \in Seq(FieldType) /\ <<n1, n2>> \in Seq(FieldType) /\ <<n1, n2, n3>> \in Seq(FieldType)
    BY TupleTypes
  <1>31. /\ A1 \in Seq(FieldType) /\ A2 \in Seq(FieldType) /\ A3 \in Seq(FieldType)
         /\ A4 \in Seq(FieldType) /\ A5 \in Seq(FieldType) /\ A6 \in Seq(FieldType)
    BY <1>1, <1>2, <1>21, <1>3, WhenType
  <1>32. A7 \in Seq(FieldType) /\ C \in Seq(FieldType)
    BY <1>2, <1>21, <1>3
  <1>33. A8 \in Seq(FieldType) /\ A9 \in Seq(FieldType) /\ A10 \in Seq(FieldType)
    BY <1>1, <1>2, <1>21, <1>3, WhenType
  <1>4. C \in Seq(FieldType) /\ D \in Seq(FieldType) /\ E \in Seq(FieldType) /\ F \in Seq(FieldType)
    BY <1>1, <1>2, <1>21, <1>3, <1>32, WhenType
  <1>5. B \in Seq(FieldType)
    <2> HIDE DEF A1, A2, A3, A4, A5, A6, A7, A8, A9, A10
    <2> QED BY <1>31, <1>32, <1>33, ConcatProperties
  <1>6. Layout(v) = B \o C \o D \o E \o F
    BY DEF Layout
  <1>7. C # <<>> /\ C[Len(C)].kind = "string"
    BY DEF Str
  <1>8. CASE v >= 311
    <2>1. F # <<>> /\ F[Len(F)].kind = "string"
      BY <1>8 DEF When, Str
    <2>2. B \o C \o D \o E \in Seq(FieldType)
      <3> HIDE DEF B, C, D, E
      <3> QED BY <1>4, <1>5, ConcatProperties
    <2> HIDE DEF B, C, D, E, F
    <2> QED BY <1>4, <1>6, <2>1, <2>2, LastOfConcat
  <1>9. CASE v >= 105 /\ v < 311
    <2>1. F = <<>> /\ E # <<>> /\ E[Len(E)].kind = "string"
      BY <1>1, <1>9 DEF When, Str
    <2>2. B \o C \o D \in Seq(FieldType)
      <3> HIDE DEF B, C, D
      <3> QED BY <1>4, <1>5, ConcatProperties
    <2> HIDE DEF B, C, D, E, F
    <2>3. Layout(v) = B \o C \o D \o E
      BY <1>4, <1>6, <2>1, <2>2, ConcatProperties, ConcatEmptySeq
    <2> QED BY <1>4, <2>1, <2>2, <2>3, LastOfConcat
  <1>10. CASE v < 105
    <2>1. D = <<>> /\ E = <<>> /\ F = <<>>
      BY <1>1, <1>10 DEF When
    <2> HIDE DEF B, C, D, E, F
    <2>2. Layout(v) = B \o C
      BY <1>4, <1>5, <1>6, <2>1, ConcatProperties, ConcatEmptySeq
    <2> QED BY <1>4, <1>5, <1>7, <2>2, LastOfConcat DEF C
  <1> QED
    BY <1>1, <1>8, <1>9, <1>10

\* the same of the function, and what follows for a code object that lacks
\* at least its last field: a number does not complete it
LEMMA FieldsFacts ==
  ASSUME NEW v \in Versions
  PROVE  /\ Len(Fields[v]) \in Nat \ {0}
         /\ \A i \in 1 .. Len(Fields[v]) :
              Fields[v][i].kind \in {"short", "word"} => i < Len(Fields[v])
  <1>1. Fields[v] = Layout(v)
    BY DEF Fields
  <1>2. Len(Layout(v)) \in Nat \ {0} /\ Layout(v)[Len(Layout(v))].kind = "string"
    BY LayoutEndsWithObject
  <1> QED
    BY <1>1, <1>2

-----------------------------------------------------------------------------
(* What the pieces of an action do to the heap, the frames and the tables. *)

LEMMA TokFacts ==
  ASSUME FileOK, TypeOK, ~AtEof
  PROVE  Tok \in TokenType /\ pos + 1 \in 0 .. Len(file.tokens)
  <1>1. file.tokens \in Seq(TokenType)
    BY FilesAssumption DEF FileOK, TokenType
  <1>2. Len(file.tokens) \in Nat /\ pos + 1 \in 1 .. Len(file.tokens)
    BY <1>1, LenProperties DEF TypeOK, AtEof
  <1> QED
    BY <1>1, <1>2, ElementOfSeq DEF Tok

LEMMA Lengths ==
  ASSUME TypeOK
  PROVE  Len(heap) \in Nat /\ Len(frames) \in Nat /\ Len(refs) \in Nat /\ Len(interns) \in Nat
  BY LenProperties DEF TypeOK

\* the names a table or the frames hold stay good when the heap grows
LEMMA TablesGrow ==
  ASSUME TypeOK, NEW n \in Nat, n >= Len(heap)
  PROVE  /\ \A i \in 1 .. Len(frames) : frames[i].obj \in 1 .. n /\ frames[i].key \in 0 .. n
         /\ \A i \in 1 .. Len(refs) : refs[i] \in 1 .. n
         /\ \A i \in 1 .. Len(interns) : interns[i] \in 1 .. n
         /\ val \in 0 .. n /\ m_code \in 0 .. n
  <1>1. Len(heap) \in Nat
    BY Lengths
  <1>2. /\ \A i \in 1 .. Len(frames) : frames[i].obj \in 1 .. Len(heap) /\ frames[i].key \in 0 .. Len(heap)
        /\ \A i \in 1 .. Len(refs) : refs[i] \in 1 .. Len(heap)
        /\ \A i \in 1 .. Len(interns) : interns[i] \in 1 .. Len(heap)
        /\ val \in 0 .. Len(heap) /\ m_code \in 0 .. Len(heap)
    BY DEF TypeOK
  <1> QED BY <1>1, <1>2

LEMMA ReferFacts ==
  ASSUME TypeOK, NEW n \in Nat, n >= Len(heap), NEW id \in 1 .. n, Refer(id)
  PROVE  refs' \in Seq(Nat) /\ \A i \in 1 .. Len(refs') : refs'[i] \in 1 .. n
  <1>1. refs \in Seq(Nat) /\ Len(refs) \in Nat /\ id \in Nat
    BY Lengths DEF TypeOK
  <1>2. CASE Tok.flag
    BY <1>1, <1>2, TablesGrow, AppendProperties DEF Refer
  <1>3. CASE ~Tok.flag
    BY <1>1, <1>3, TablesGrow DEF Refer
  <1> QED BY <1>2, <1>3

LEMMA CreateFacts ==
  ASSUME TypeOK, NEW obj \in ObjectType, Create(obj)
  PROVE  /\ heap' \in Seq(ObjectType)
         /\ Len(heap') = Len(heap) + 1
         /\ \A id \in 1 .. Len(heap) : heap'[id] = heap[id]
         /\ heap'[NewId] = obj
         /\ refs' \in Seq(Nat) /\ \A i \in 1 .. Len(refs') : refs'[i] \in 1 .. Len(heap) + 1
  <1>1. /\ heap' \in Seq(ObjectType)
        /\ Len(heap') = Len(heap) + 1
        /\ \A id \in 1 .. Len(heap) : heap'[id] = heap[id]
        /\ heap'[NewId] = obj
    BY AppendProperties DEF TypeOK, Create, NewId
  <1>2. Len(heap) + 1 \in Nat /\ Len(heap) + 1 >= Len(heap) /\ Len(heap) + 1 \in 1 .. Len(heap) + 1
    BY Lengths
  <1>3. Refer(Len(heap) + 1)
    BY DEF Create
  <1> QED BY <1>1, <1>2, <1>3, ReferFacts

LEMMA EnterFacts ==
  ASSUME TypeOK, NEW size \in Int, Tok.t \in Supported, Enter(size)
  PROVE  /\ Object(Tok.t, 0, size) \in ObjectType
         /\ Create(Object(Tok.t, 0, size))
         /\ frames' \in Seq(FrameType)
         /\ Len(frames') = Len(frames) + 1
         /\ \A i \in 1 .. Len(frames) : frames'[i] = frames[i]
         /\ frames'[Len(frames) + 1] = [obj |-> NewId, key |-> Null]
  <1>1. Object(Tok.t, 0, size) \in ObjectType
    BY EmptySeq DEF Object, ObjectType
  <1>2. [obj |-> NewId, key |-> Null] \in FrameType
    BY Lengths DEF FrameType, NewId, Null
  <1> QED BY <1>1, <1>2, AppendProperties DEF TypeOK, Enter

LEMMA TopFacts ==
  ASSUME TypeOK, frames # <<>>
  PROVE  /\ Len(frames) \in Nat \ {0}
         /\ Top = frames[Len(frames)] /\ Top \in FrameType
         /\ Top.obj \in 1 .. Len(heap) /\ Top.key \in 0 .. Len(heap)
         /\ heap[Top.obj] \in ObjectType
  <1>1. Len(frames) \in Nat \ {0}
    BY EmptySeq DEF TypeOK
  <1>2. Top \in FrameType /\ Top.obj \in 1 .. Len(heap) /\ Top.key \in 0 .. Len(heap)
    BY <1>1, ElementOfSeq DEF TypeOK, Top
  <1> QED BY <1>1, <1>2, ElementOfSeq DEF TypeOK, Top

LEMMA GiveFacts ==
  ASSUME TypeOK, frames # <<>>, NEW new \in Seq(Int), Give(new)
  PROVE  /\ heap' \in Seq(ObjectType)
         /\ Len(heap') = Len(heap)
         /\ \A id \in 1 .. Len(heap) : id # Top.obj => heap'[id] = heap[id]
         /\ heap'[Top.obj] = [heap[Top.obj] EXCEPT !.elems = @ \o new]
         /\ heap[Top.obj].elems \in Seq(Int)
         /\ heap'[Top.obj].elems = heap[Top.obj].elems \o new
         /\ \A id \in 1 .. Len(heap) : heap'[id].type = heap[id].type /\ heap'[id].size = heap[id].size
  <1> DEFINE o == [heap[Top.obj] EXCEPT !.elems = @ \o new]
  <1>1. heap[Top.obj].elems \in Seq(Int) /\ heap[Top.obj].elems \o new \in Seq(Int)
    BY TopFacts, ConcatProperties DEF ObjectType
  <1>2. /\ o \in ObjectType /\ o.elems = heap[Top.obj].elems \o new
        /\ o.type = heap[Top.obj].type /\ o.size = heap[Top.obj].size
    BY <1>1, TopFacts DEF ObjectType
  <1>3. heap' = [heap EXCEPT ![Top.obj] = o]
    BY DEF Give
  <1>4. /\ heap' \in Seq(ObjectType) /\ Len(heap') = Len(heap)
        /\ \A id \in 1 .. Len(heap) : heap'[id] = IF id = Top.obj THEN o ELSE heap[id]
    <2> HIDE DEF o
    <2> QED BY <1>2, <1>3, TopFacts, ExceptSeq DEF TypeOK
  <1> QED BY <1>1, <1>2, <1>4, TopFacts

LEMMA LeaveFacts ==
  ASSUME TypeOK, frames # <<>>, Leave
  PROVE  /\ frames' \in Seq(FrameType)
         /\ Len(frames') = Len(frames) - 1
         /\ \A i \in 1 .. Len(frames) - 1 : frames'[i] = frames[i]
  <1> DEFINE n == Len(frames) - 1
  <1>1. frames \in Seq(FrameType) /\ n \in Nat /\ Len(frames) = n + 1
    BY TopFacts DEF TypeOK
  <1>2. \A i \in 1 .. n : frames[i] \in FrameType
    BY <1>1, ElementOfSeq
  <1>3. frames' = SubSeq(frames, 1, n)
    BY DEF Leave
  <1> HIDE DEF n
  <1>4. Len(SubSeq(frames, 1, n)) = n
    BY <1>1, SMTT(20)
  <1>5. \A i \in 1 .. n : SubSeq(frames, 1, n)[i] = frames[i]
    BY <1>1, SMTT(20)
  <1>6. SubSeq(frames, 1, n) \in Seq(FrameType)
    BY <1>1, <1>2, SubSeqProperties
  <1>7. Len(frames) - 1 = n
    BY <1>1
  <1> QED BY <1>3, <1>4, <1>5, <1>6, <1>7

-----------------------------------------------------------------------------
(* Types *)

LEMMA FailKeepsTypes ==
  ASSUME TypeOK, NEW fault \in Faults, Fail(fault)
  PROVE  TypeOK'
  BY DEF TypeOK, Fail, Faults

\* reading a head moves on by one token and leaves the version alone
LEMMA HeadFacts ==
  ASSUME FileOK, TypeOK, ReadHead, Unread
  PROVE  /\ Tok \in TokenType
         /\ pos' \in 0 .. Len(file.tokens)'
         /\ ver' \in Versions /\ m_unicode' \in BOOLEAN
         /\ file' = file /\ ver' = ver /\ m_code' = m_code
  <1>1. ~AtEof /\ pc = "object" /\ pos' = pos + 1
    BY DEF ReadHead
  <1>2. ver \in Versions /\ m_unicode \in BOOLEAN
    BY <1>1 DEF TypeOK
  <1> QED BY <1>1, <1>2, TokFacts DEF Unread

\* an object made without entering it
LEMMA CreateKeepsTypes ==
  ASSUME FileOK, TypeOK, ReadHead, Unread, NEW obj \in ObjectType, Create(obj), Return(NewId),
         frames' = frames,
         interns' = interns \/ interns' = Append(interns, NewId)
  PROVE  TypeOK'
  <1> DEFINE n == Len(heap) + 1
  <1>1. /\ n \in Nat /\ n >= Len(heap) /\ NewId = n /\ n \in 1 .. n
        /\ heap' \in Seq(ObjectType) /\ Len(heap') = n
    BY Lengths, CreateFacts DEF NewId
  <1>2. refs' \in Seq(Nat) /\ \A i \in 1 .. Len(refs') : refs'[i] \in 1 .. n
    BY CreateFacts
  <1> HIDE DEF n
  <1>3. interns' \in Seq(Nat) /\ \A i \in 1 .. Len(interns') : interns'[i] \in 1 .. n
    <2>1. interns \in Seq(Nat) /\ Len(interns) \in Nat
      BY Lengths DEF TypeOK
    <2>2. CASE interns' = interns
      BY <1>1, <2>1, <2>2, TablesGrow
    <2>3. CASE interns' = Append(interns, NewId)
      BY <1>1, <2>1, <2>3, TablesGrow, AppendProperties
    <2> QED BY <2>2, <2>3
  <1>4. frames' \in Seq(FrameType) /\ val' \in 0 .. n /\ m_code' \in 0 .. n /\ pc' = "value"
    BY <1>1, TablesGrow, HeadFacts DEF TypeOK, Return
  <1>5. \A i \in 1 .. Len(frames') : frames'[i].obj \in 1 .. n /\ frames'[i].key \in 0 .. n
    BY <1>1, TablesGrow
  <1>6. /\ pos' \in 0 .. Len(file.tokens)' /\ ver' \in Versions /\ m_unicode' \in BOOLEAN
    BY HeadFacts
  <1>7. ver' \in Int
    BY <1>6 DEF Versions
  <1> QED BY <1>1, <1>2, <1>3, <1>4, <1>5, <1>6, <1>7 DEF TypeOK

LEMMA EnterKeepsTypes ==
  ASSUME FileOK, TypeOK, ReadHead, Unread, NEW size \in Int, Tok.t \in Supported, Enter(size),
         pc' = "object", UNCHANGED <<interns, val>>
  PROVE  TypeOK'
  <1> DEFINE n == Len(heap) + 1
  <1>1. /\ n \in Nat /\ n >= Len(heap) /\ NewId = n /\ n \in 1 .. n /\ Null \in 0 .. n
        /\ heap' \in Seq(ObjectType) /\ Len(heap') = n
        /\ refs' \in Seq(Nat) /\ \A i \in 1 .. Len(refs') : refs'[i] \in 1 .. n
    BY Lengths, CreateFacts, EnterFacts DEF NewId, Null
  <1> HIDE DEF n
  <1>2. /\ frames' \in Seq(FrameType)
        /\ \A i \in 1 .. Len(frames') : frames'[i].obj \in 1 .. n /\ frames'[i].key \in 0 .. n
    <2>1. /\ Len(frames) \in Nat /\ frames' \in Seq(FrameType) /\ Len(frames') = Len(frames) + 1
          /\ \A i \in 1 .. Len(frames) : frames'[i] = frames[i]
          /\ frames'[Len(frames) + 1] = [obj |-> NewId, key |-> Null]
      BY Lengths, EnterFacts
    <2>2. \A i \in 1 .. Len(frames) : frames'[i].obj \in 1 .. n /\ frames'[i].key \in 0 .. n
      BY <1>1, <2>1, TablesGrow
    <2>3. frames'[Len(frames) + 1].obj \in 1 .. n /\ frames'[Len(frames) + 1].key \in 0 .. n
      BY <1>1, <2>1
    <2> QED BY <2>1, <2>2, <2>3
  <1>3. interns' \in Seq(Nat) /\ \A i \in 1 .. Len(interns') : interns'[i] \in 1 .. n
    BY <1>1, TablesGrow DEF TypeOK
  <1>4. val' \in 0 .. n /\ m_code' \in 0 .. n
    BY <1>1, TablesGrow, HeadFacts
  <1>5. /\ pos' \in 0 .. Len(file.tokens)' /\ ver' \in Versions /\ m_unicode' \in BOOLEAN
    BY HeadFacts
  <1>6. ver' \in Int
    BY <1>5 DEF Versions
  <1> QED BY <1>1, <1>2, <1>3, <1>4, <1>5, <1>6 DEF TypeOK

\* a member is given, and the object is left or not
LEMMA GiveKeepsTypes ==
  ASSUME FileOK, TypeOK, frames # <<>>, pc = "value",
         heap' \in Seq(ObjectType), Len(heap') = Len(heap),
         \/ Leave /\ Return(Top.obj)
         \/ pc' = "object" /\ UNCHANGED <<frames, val>>,
         Kept
  PROVE  TypeOK'
  <1>1. /\ frames' \in Seq(FrameType)
        /\ \A i \in 1 .. Len(frames') : frames'[i].obj \in 1 .. Len(heap) /\ frames'[i].key \in 0 .. Len(heap)
    <2>1. CASE Leave
      <3>1. Len(frames) \in Nat \ {0}
        BY TopFacts
      <3>2. /\ frames' \in Seq(FrameType) /\ Len(frames') = Len(frames) - 1
            /\ \A i \in 1 .. Len(frames) - 1 : frames'[i] = frames[i]
        BY <2>1, LeaveFacts
      <3>3. \A i \in 1 .. Len(frames) : frames[i].obj \in 1 .. Len(heap) /\ frames[i].key \in 0 .. Len(heap)
        BY DEF TypeOK
      <3> QED BY <3>1, <3>2, <3>3
    <2>2. CASE UNCHANGED frames
      BY <2>2 DEF TypeOK
    <2> QED BY <2>1, <2>2
  <1>2. val' \in 0 .. Len(heap) /\ pc' \in {"object", "value"}
    BY TopFacts, Lengths DEF TypeOK, Return
  <1>3. ver \in Versions
    BY DEF TypeOK
  <1> QED BY <1>1, <1>2, <1>3 DEF TypeOK, Kept

\* the key of the innermost frame is the only thing TakeKey and TakeValue
\* change of the frames
LEMMA KeyFacts ==
  ASSUME TypeOK, frames # <<>>, NEW key \in 0 .. Len(heap),
         frames' = [frames EXCEPT ![Len(frames)].key = key]
  PROVE  /\ frames' \in Seq(FrameType) /\ Len(frames') = Len(frames)
         /\ \A i \in 1 .. Len(frames) : frames'[i].obj = frames[i].obj
         /\ \A i \in 1 .. Len(frames) : frames'[i].key \in 0 .. Len(heap)
  <1> DEFINE f == [frames[Len(frames)] EXCEPT !.key = key]
  <1>1. frames[Len(frames)] \in FrameType /\ Len(frames) \in 1 .. Len(frames) /\ key \in Nat
    BY TopFacts, Lengths
  <1>2. f \in FrameType /\ f.obj = frames[Len(frames)].obj /\ f.key = key
    BY <1>1 DEF FrameType
  <1>3. frames' = [frames EXCEPT ![Len(frames)] = f]
    OBVIOUS
  <1> HIDE DEF f
  <1>4. /\ frames' \in Seq(FrameType) /\ Len(frames') = Len(frames)
        /\ \A i \in 1 .. Len(frames) : frames'[i] = IF i = Len(frames) THEN f ELSE frames[i]
    <2>1. frames \in Seq(FrameType)
      BY DEF TypeOK
    <2> DEFINE k == Len(frames)
    <2>2. k \in 1 .. Len(frames) /\ frames' = [frames EXCEPT ![k] = f]
      BY <1>1, <1>3
    <2> HIDE DEF k
    <2>3. /\ frames' \in Seq(FrameType) /\ Len(frames') = Len(frames)
          /\ \A i \in 1 .. Len(frames) : frames'[i] = IF i = k THEN f ELSE frames[i]
      BY <1>2, <2>1, <2>2, ExceptSeq
    <2> QED BY <2>3 DEF k
  <1>5. \A i \in 1 .. Len(frames) : frames[i].key \in 0 .. Len(heap)
    BY DEF TypeOK
  <1> QED BY <1>2, <1>4, <1>5

LEMMA TypeInit == Init => FileOK /\ TypeOK
  <1> SUFFICES ASSUME Init PROVE FileOK /\ TypeOK
    OBVIOUS
  <1>1. file \in Files /\ file.tokens \in Seq(TokenType)
    BY FilesAssumption DEF Init, TokenType
  <1>2. Len(file.tokens) \in Nat
    BY <1>1, LenProperties
  <1>3. \A i \in 1 .. 5 : Singletons[i] \in Supported
    BY DEF Supported, SingletonTypes
  <1>4. \A i \in 1 .. 5 : Object(Singletons[i], 0, 0) \in ObjectType
    BY <1>3, EmptySeq DEF Object, ObjectType
  <1>5. heap \in Seq(ObjectType) /\ Len(heap) = 5
    <2> DEFINE h == [i \in 1 .. 5 |-> Object(Singletons[i], 0, 0)]
    <2>1. heap = h
      BY DEF Init
    <2>2. h \in [1 .. 5 -> ObjectType]
      BY <1>4
    <2> HIDE DEF h
    <2>3. h \in Seq(ObjectType)
      BY <2>2, SeqDef
    <2>4. Len(h) = 5
      BY <2>2, <2>3, LenProperties
    <2> QED BY <2>1, <2>3, <2>4
  <1>6. frames \in Seq(FrameType) /\ refs \in Seq(Nat) /\ interns \in Seq(Nat)
    BY EmptySeq DEF Init
  <1>7. frames = <<>> /\ refs = <<>> /\ interns = <<>>
    BY DEF Init
  <1>8. /\ pos \in 0 .. Len(file.tokens) /\ pc = "open" /\ ver = 0 /\ m_unicode = FALSE
        /\ val \in 0 .. Len(heap) /\ m_code \in 0 .. Len(heap)
    BY <1>2, <1>5 DEF Init, Null
  <1>9. Len(frames) = 0 /\ Len(refs) = 0 /\ Len(interns) = 0
    BY <1>7, EmptySeq
  <1>10. pc \in {"open", "header", "object", "value", "done", "invalid"} \cup Faults
    BY <1>8
  <1>11. m_unicode \in BOOLEAN
    BY Zenon DEF Init
  <1>13. ver \in Int /\ pc \notin {"header", "object", "value", "done"}
    BY <1>8
  <1>12. FileOK
    BY <1>1 DEF FileOK
  <1> QED BY <1>5, <1>6, <1>8, <1>9, <1>10, <1>11, <1>12, <1>13 DEF TypeOK

\* the file stays the one that is read
LEMMA FileStep ==
  ASSUME FileOK, [Next]_vars
  PROVE  FileOK'
  BY DEF FileOK, Next, vars, ReadMagic, TakeVersion, ReadHeader, LoseHeader, EndOfFile, ReadRef, ReadNull,
         ReadSingleton, ReadNumber, ReadString, ReadStringRef, OpenSequence, EmptySequence, OpenDict, OpenCode,
         Refuse, TakeElement, TakeKey, TakeValue, TakeNumber, RefuseNumber, TakeField, Loaded, BadCast, Stay,
         Fail, Unread, Kept

\* every action
LEMMA TypeStep ==
  ASSUME FileOK, TypeOK, [Next]_vars
  PROVE  TypeOK'
  <1>2. CASE ReadMagic
    <2>1. Tok \in TokenType /\ pos + 1 \in 0 .. Len(file.tokens)
      BY <1>2, TokFacts DEF ReadMagic
    <2>2. MagicVersion(Tok.n) \in Int
      BY <2>1 DEF MagicVersion, TokenType
    <2>3. CASE KnownMagic(Tok.n)
      <3>1. ver' \in Versions /\ ver' \in Int /\ pc' = "header"
        BY <1>2, <2>2, <2>3 DEF ReadMagic, KnownMagic
      <3>2. m_unicode' \in BOOLEAN
        BY <1>2, <2>3, Zenon DEF ReadMagic
      <3> QED BY <1>2, <2>1, <3>1, <3>2 DEF ReadMagic, TypeOK
    <2>4. CASE ~KnownMagic(Tok.n)
      BY <1>2, <2>1, <2>4 DEF ReadMagic, TypeOK
    <2> QED BY <2>3, <2>4
  <1>3. CASE TakeVersion
    <2>1. CASE file.ver \in Versions
      <3>1. ver' \in Versions /\ ver' \in Int /\ pc' = "object"
        BY <1>3, <2>1 DEF TakeVersion, Versions
      <3>2. m_unicode' \in BOOLEAN
        BY <1>3, <2>1, FilesAssumption DEF TakeVersion, FileOK
      <3> QED BY <1>3, <3>1, <3>2 DEF TakeVersion, TypeOK
    <2>2. CASE file.ver \notin Versions
      BY <1>3, <2>2 DEF TakeVersion, TypeOK
    <2> QED BY <2>1, <2>2
  <1>4. CASE ReadHeader
    <2>1. HeaderWords(ver) \in Nat /\ ver \in Versions /\ pos \in Nat /\ Len(file.tokens) \in Nat
      BY <1>4, FilesAssumption, LenProperties DEF ReadHeader, TypeOK, HeaderWords, FileOK
    <2> QED BY <1>4, <2>1 DEF ReadHeader, TypeOK
  <1>5. CASE LoseHeader \/ EndOfFile \/ Refuse \/ RefuseNumber \/ BadCast
    <2>1. PICK fault \in Faults : Fail(fault)
      BY <1>5 DEF LoseHeader, EndOfFile, Refuse, RefuseNumber, BadCast, Faults
    <2> QED BY <2>1, FailKeepsTypes
  <1>6. CASE ReadRef
    <2>1. /\ Tok \in TokenType /\ pos' \in 0 .. Len(file.tokens)' /\ ver' \in Versions /\ m_unicode' \in BOOLEAN
          /\ UNCHANGED <<heap, frames, refs, interns, m_code, ver>>
      BY <1>6, HeadFacts DEF ReadRef
    <2>2. val' \in 0 .. Len(heap) /\ pc' = "value"
      <3>1. Tok.n + 1 \in 1 .. Len(refs)
        BY <1>6, <2>1, Lengths DEF ReadRef, TokenType
      <3>2. refs[Tok.n + 1] \in 1 .. Len(heap)
        BY <3>1 DEF TypeOK
      <3> QED BY <1>6, <3>2, Lengths DEF ReadRef, Return
    <2> QED BY <2>1, <2>2 DEF TypeOK
  <1>7. CASE ReadNull
    <2>1. /\ pos' \in 0 .. Len(file.tokens)' /\ ver' \in Versions /\ m_unicode' \in BOOLEAN
          /\ UNCHANGED <<heap, frames, refs, interns, m_code, ver>>
      BY <1>7, HeadFacts DEF ReadNull
    <2>2. val' \in 0 .. Len(heap) /\ pc' = "value"
      BY <1>7, Lengths DEF ReadNull, Return, Null
    <2> QED BY <2>1, <2>2 DEF TypeOK
  <1>8. CASE ReadSingleton
    <2>1. PICK i \in 1 .. 5 : Refer(i) /\ Return(i)
      BY <1>8 DEF ReadSingleton
    <2>2. i \in 1 .. Len(heap)
      BY Lengths DEF TypeOK
    <2>3. refs' \in Seq(Nat) /\ \A j \in 1 .. Len(refs') : refs'[j] \in 1 .. Len(heap)
      BY <2>1, <2>2, Lengths, ReferFacts
    <2>4. /\ pos' \in 0 .. Len(file.tokens)' /\ ver' \in Versions /\ m_unicode' \in BOOLEAN
          /\ UNCHANGED <<heap, frames, interns, m_code, ver>>
      BY <1>8, HeadFacts DEF ReadSingleton
    <2>5. val' \in 0 .. Len(heap) /\ pc' = "value"
      BY <2>1, <2>2, Lengths DEF Return
    <2> QED BY <2>3, <2>4, <2>5 DEF TypeOK
  <1>9. CASE ReadNumber
    <2>1. Object(Tok.t, Tok.n, 0) \in ObjectType
      BY <1>9, HeadFacts, EmptySeq DEF ReadNumber, Object, ObjectType, Supported, TokenType
    <2> QED BY <1>9, <2>1, CreateKeepsTypes DEF ReadNumber
  <1>10. CASE ReadString
    <2>1. Object(Tok.t, Tok.n, 0) \in ObjectType
      BY <1>10, HeadFacts, EmptySeq DEF ReadString, Object, ObjectType, Supported, TokenType
    <2> QED BY <1>10, <2>1, CreateKeepsTypes DEF ReadString
  <1>11. CASE ReadStringRef
    <2>1. interns[Tok.n + 1] \in 1 .. Len(heap)
      <3>1. Tok.n + 1 \in 1 .. Len(interns)
        BY <1>11, HeadFacts, Lengths DEF ReadStringRef, TokenType
      <3> QED BY <3>1 DEF TypeOK
    <2> DEFINE str == heap[interns[Tok.n + 1]]
    <2>2. str \in ObjectType
      BY <2>1, ElementOfSeq DEF TypeOK
    <2>3. Object(str.type, str.n, 0) \in ObjectType
      <3> HIDE DEF str
      <3> QED BY <2>2, EmptySeq DEF Object, ObjectType
    <2> QED BY <1>11, <2>3, CreateKeepsTypes DEF ReadStringRef
  <1>12. CASE EmptySequence
    <2>1. Object(Tok.t, 0, 0) \in ObjectType
      BY <1>12, EmptySeq DEF EmptySequence, Object, ObjectType, Supported
    <2> QED BY <1>12, <2>1, CreateKeepsTypes DEF EmptySequence
  <1>13. CASE OpenSequence
    <2>1. Tok.n \in Int /\ Tok.t \in Supported
      BY <1>13, HeadFacts DEF OpenSequence, TokenType, Supported
    <2> QED BY <1>13, <2>1, EnterKeepsTypes DEF OpenSequence
  <1>14. CASE OpenDict
    <2>1. 0 \in Int /\ Tok.t \in Supported
      BY <1>14 DEF OpenDict, Supported
    <2> QED BY <1>14, <2>1, EnterKeepsTypes DEF OpenDict
  <1>15. CASE OpenCode
    <2>1. Len(Fields[ver]) \in Int /\ Tok.t \in Supported
      BY <1>15, FieldsFacts DEF OpenCode, ReadHead, TypeOK, Supported
    <2> QED BY <1>15, <2>1, EnterKeepsTypes DEF OpenCode
  <1>16. CASE TakeElement \/ TakeField
    <2>1. /\ frames # <<>> /\ pc = "value" /\ Give(<<val>>) /\ Kept
          /\ \/ Leave /\ Return(Top.obj)
             \/ pc' = "object" /\ UNCHANGED <<frames, val>>
      BY <1>16 DEF TakeElement, TakeField, Taking
    <2>2. <<val>> \in Seq(Int)
      BY Lengths, TupleTypes DEF TypeOK
    <2>3. heap' \in Seq(ObjectType) /\ Len(heap') = Len(heap)
      BY <2>1, <2>2, GiveFacts
    <2> QED BY <2>1, <2>3, GiveKeepsTypes
  <1>17. CASE TakeKey
    <2>1. frames # <<>> /\ pc = "value" /\ UNCHANGED heap /\ Kept
      BY <1>17 DEF TakeKey, Taking
    <2>2. CASE val = Null
      BY <1>17, <2>1, <2>2, GiveKeepsTypes DEF TakeKey, TypeOK
    <2>3. CASE val # Null
      <3>1. frames' = [frames EXCEPT ![Len(frames)].key = val] /\ pc' = "object" /\ UNCHANGED val
        BY <1>17, <2>3 DEF TakeKey
      <3>2. val \in 0 .. Len(heap) /\ ver \in Versions
        BY <2>1 DEF TypeOK
      <3>3. /\ frames' \in Seq(FrameType) /\ Len(frames') = Len(frames)
            /\ \A j \in 1 .. Len(frames) : frames'[j].obj \in 1 .. Len(heap) /\ frames'[j].key \in 0 .. Len(heap)
        BY <2>1, <3>1, <3>2, KeyFacts DEF TypeOK
      <3> QED BY <2>1, <3>1, <3>2, <3>3 DEF TypeOK, Kept
    <2> QED BY <2>2, <2>3
  <1>18. CASE TakeValue
    <2>1. frames # <<>> /\ pc = "value" /\ Give(<<Top.key, val>>) /\ Kept /\ pc' = "object" /\ UNCHANGED val
          /\ frames' = [frames EXCEPT ![Len(frames)].key = Null]
      BY <1>18 DEF TakeValue, Taking
    <2>2. Top.key \in Int /\ val \in Int /\ ver \in Versions
      BY <2>1, TopFacts, Lengths DEF TypeOK
    <2>3. <<Top.key, val>> \in Seq(Int)
      BY <2>2, TupleTypes
    <2>4. heap' \in Seq(ObjectType) /\ Len(heap') = Len(heap)
      BY <2>1, <2>3, GiveFacts
    <2>5. Null \in 0 .. Len(heap)
      BY Lengths DEF Null
    <2>6. /\ frames' \in Seq(FrameType) /\ Len(frames') = Len(frames)
          /\ \A j \in 1 .. Len(frames) : frames'[j].obj \in 1 .. Len(heap) /\ frames'[j].key \in 0 .. Len(heap)
      BY <2>1, <2>5, KeyFacts DEF TypeOK
    <2> QED BY <2>1, <2>2, <2>4, <2>6 DEF TypeOK, Kept
  <1>19. CASE TakeNumber
    <2>1. frames # <<>> /\ ~AtEof /\ pc = "object" /\ ver \in Versions
          /\ pos' = pos + 1 /\ UNCHANGED <<file, ver, m_unicode, frames, refs, interns, val, m_code, pc>>
      BY <1>19 DEF TakeNumber, WantsNumber, InCode, TypeOK
    <2>2. Tok.n \in Int /\ pos + 1 \in 0 .. Len(file.tokens)
      BY <2>1, TokFacts DEF TokenType
    <2> DEFINE n == IF NextField.name = "flags" THEN Remapped(ver, Tok.n) ELSE Tok.n
    <2>3. n \in Int
      BY <2>2 DEF Remapped
    <2>4. <<n>> \in Seq(Int)
      BY <2>3, TupleTypes
    <2>5. Give(<<n>>)
      BY <1>19 DEF TakeNumber
    <2> HIDE DEF n
    <2>6. heap' \in Seq(ObjectType) /\ Len(heap') = Len(heap)
      BY <2>1, <2>4, <2>5, GiveFacts
    <2> QED BY <2>1, <2>2, <2>6 DEF TypeOK
  <1>20. CASE Loaded \/ Stay \/ UNCHANGED vars
    BY <1>20 DEF Loaded, Stay, vars, TypeOK
  <1> QED
    BY <1>2, <1>3, <1>4, <1>5, <1>6, <1>7, <1>8, <1>9, <1>10, <1>11, <1>12, <1>13, <1>14, <1>15, <1>16,
       <1>17, <1>18, <1>19, <1>20 DEF Next

\* In every state of every file the loader's names are names of objects it
\* has made, and it reads by version only when it has one.
THEOREM LoaderTypeOK == Spec => [](FileOK /\ TypeOK)
  <1>1. Init => FileOK /\ TypeOK
    BY TypeInit
  <1>2. FileOK /\ TypeOK /\ [Next]_vars => (FileOK /\ TypeOK)'
    BY FileStep, TypeStep
  <1> QED BY <1>1, <1>2, PTL DEF Spec

-----------------------------------------------------------------------------
(* What is loaded is whole.  HalfLoadedIsOnFrame is not inductive: that the *)
(* member given last is the one that completes an object needs the count    *)
(* never to pass the size, and for a code object, whose number fields do    *)
(* not ask whether they are the last, that its size is that of the layout   *)
(* it is read by, which no layout ends with a number.                       *)

MembersLeft ==
  \A id \in 1 .. Len(heap) : Growing(id) =>
    IF OnFrame(id) THEN Len(heap[id].elems) < heap[id].size ELSE IsFull(id)

OneLoadEach == \A i, j \in 1 .. Len(frames) : frames[i].obj = frames[j].obj => i = j

CodeSized ==
  /\ \A id \in 1 .. Len(heap) : heap[id].type \in CodeTypes => heap[id].size = Len(Fields[ver])
  /\ pc = "open" => \A id \in 1 .. Len(heap) : heap[id].type \notin CodeTypes

InternsAreStrings == \A i \in 1 .. Len(interns) : heap[interns[i]].type \in StringTypes

NothingUnderWay == pc \in {"open", "header", "done", "invalid"} => frames = <<>>

WholeInv == MembersLeft /\ OneLoadEach /\ CodeSized /\ InternsAreStrings /\ NothingUnderWay

LEMMA TypesDiffer ==
  /\ StringTypes \cap (SequenceTypes \cup CodeTypes) = {} /\ Numbers \cap (SequenceTypes \cup CodeTypes) = {}
  /\ SequenceTypes \cap CodeTypes = {} /\ "DICT" \notin SequenceTypes \cup CodeTypes
  /\ "DICT" \notin StringTypes /\ "STRINGREF" \notin StringTypes
  BY DEF StringTypes, AsciiText, SequenceTypes, CodeTypes, Numbers, IntegerTypes, FloatTypes

\* The five kinds of step, as they change heap and frames: neither of them
\* (but for keys), an object made whole, one entered, one given members,
\* one left.
LEMMA StillStep ==
  ASSUME TypeOK, MembersLeft, OneLoadEach, heap' = heap, Len(frames') = Len(frames),
         \A i \in 1 .. Len(frames) : frames'[i].obj = frames[i].obj
  PROVE  MembersLeft' /\ OneLoadEach'
  <1>1. \A id : OnFrame(id)' <=> OnFrame(id)
    BY DEF OnFrame
  <1>2. \A id : (Growing(id)' <=> Growing(id)) /\ (IsFull(id)' <=> IsFull(id))
    BY DEF Growing, IsFull
  <1>3. MembersLeft'
    BY <1>1, <1>2 DEF MembersLeft
  <1> QED BY <1>3 DEF OneLoadEach

LEMMA MakeStep ==
  ASSUME TypeOK, MembersLeft, OneLoadEach, NEW obj \in ObjectType, Create(obj), frames' = frames,
         Len(obj.elems) = obj.size
  PROVE  MembersLeft' /\ OneLoadEach'
  <1>1. /\ Len(heap) \in Nat /\ Len(heap') = Len(heap) + 1 /\ NewId = Len(heap) + 1
        /\ \A id \in 1 .. Len(heap) : heap'[id] = heap[id]
        /\ heap'[NewId] = obj
    BY Lengths, CreateFacts DEF NewId
  <1>2. \A id : OnFrame(id)' <=> OnFrame(id)
    BY DEF OnFrame
  <1>3. ~OnFrame(NewId)
    BY <1>1 DEF OnFrame, TypeOK
  <1>4. ASSUME NEW id \in 1 .. Len(heap'), Growing(id)'
        PROVE  IF OnFrame(id)' THEN Len(heap'[id].elems) < heap'[id].size ELSE IsFull(id)'
    <2>1. CASE id = NewId
      BY <1>1, <1>2, <1>3, <2>1 DEF IsFull
    <2>2. CASE id # NewId
      <3>1. id \in 1 .. Len(heap) /\ heap'[id] = heap[id]
        BY <1>1, <2>2
      <3>2. Growing(id) /\ (IsFull(id)' <=> IsFull(id))
        BY <1>4, <3>1 DEF Growing, IsFull
      <3> QED BY <1>2, <3>1, <3>2 DEF MembersLeft
    <2> QED BY <2>1, <2>2
  <1>5. MembersLeft'
    BY <1>4 DEF MembersLeft
  <1> QED BY <1>5 DEF OneLoadEach

LEMMA EnterStep ==
  ASSUME TypeOK, MembersLeft, OneLoadEach, NEW size \in Int, Tok.t \in Supported, Enter(size),
         size > 0 \/ Tok.t = "DICT"
  PROVE  MembersLeft' /\ OneLoadEach'
  <1>1. /\ Len(heap) \in Nat /\ Len(heap') = Len(heap) + 1 /\ NewId = Len(heap) + 1
        /\ \A id \in 1 .. Len(heap) : heap'[id] = heap[id]
        /\ heap'[NewId] = Object(Tok.t, 0, size)
    BY Lengths, EnterFacts, CreateFacts DEF NewId
  <1>2. /\ Len(frames) \in Nat /\ Len(frames') = Len(frames) + 1
        /\ \A i \in 1 .. Len(frames) : frames'[i] = frames[i]
        /\ frames'[Len(frames) + 1].obj = NewId
    BY Lengths, EnterFacts
  <1>3. \A i \in 1 .. Len(frames) : frames[i].obj # NewId
    BY <1>1 DEF TypeOK
  <1>4. \A id : OnFrame(id)' <=> OnFrame(id) \/ id = NewId
    BY <1>2 DEF OnFrame
  <1>5. ASSUME NEW id \in 1 .. Len(heap'), Growing(id)'
        PROVE  IF OnFrame(id)' THEN Len(heap'[id].elems) < heap'[id].size ELSE IsFull(id)'
    <2>1. CASE id = NewId
      <3>1. heap'[id].type = Tok.t /\ heap'[id].size = size /\ Len(heap'[id].elems) = 0
        BY <1>1, <2>1 DEF Object
      <3>2. Tok.t # "DICT"
        BY <1>5, <3>1, TypesDiffer DEF Growing
      <3> QED BY <1>4, <2>1, <3>1, <3>2
    <2>2. CASE id # NewId
      <3>1. id \in 1 .. Len(heap) /\ heap'[id] = heap[id]
        BY <1>1, <2>2
      <3>2. Growing(id) /\ (IsFull(id)' <=> IsFull(id))
        BY <1>5, <3>1 DEF Growing, IsFull
      <3> QED BY <1>4, <2>2, <3>1, <3>2 DEF MembersLeft
    <2> QED BY <2>1, <2>2
  <1>6. MembersLeft'
    BY <1>5 DEF MembersLeft
  <1>7. OneLoadEach'
    BY <1>2, <1>3 DEF OneLoadEach
  <1> QED BY <1>6, <1>7

LEMMA GiveStep ==
  ASSUME TypeOK, MembersLeft, OneLoadEach, frames # <<>>, NEW new \in Seq(Int), Give(new),
         Len(frames') = Len(frames), \A i \in 1 .. Len(frames) : frames'[i].obj = frames[i].obj,
         Growing(Top.obj) => Len(heap[Top.obj].elems) + Len(new) < heap[Top.obj].size
  PROVE  MembersLeft' /\ OneLoadEach'
  <1>1. /\ Len(heap') = Len(heap)
        /\ \A id \in 1 .. Len(heap) : id # Top.obj => heap'[id] = heap[id]
        /\ \A id \in 1 .. Len(heap) : heap'[id].type = heap[id].type /\ heap'[id].size = heap[id].size
        /\ heap'[Top.obj].elems = heap[Top.obj].elems \o new /\ heap[Top.obj].elems \in Seq(Int)
    BY GiveFacts
  <1>2. Len(heap'[Top.obj].elems) = Len(heap[Top.obj].elems) + Len(new)
    BY <1>1, ConcatProperties
  <1>3. Len(frames) \in Nat \ {0} /\ Top.obj \in 1 .. Len(heap) /\ Top = frames[Len(frames)]
    BY TopFacts
  <1>4. OnFrame(Top.obj)
    BY <1>3 DEF OnFrame
  <1>5. \A id : OnFrame(id)' <=> OnFrame(id)
    BY DEF OnFrame
  <1>6. ASSUME NEW id \in 1 .. Len(heap'), Growing(id)'
        PROVE  IF OnFrame(id)' THEN Len(heap'[id].elems) < heap'[id].size ELSE IsFull(id)'
    <2>1. Growing(id) /\ id \in 1 .. Len(heap)
      BY <1>1, <1>6 DEF Growing
    <2>2. CASE id = Top.obj
      BY <1>1, <1>2, <1>3, <1>4, <1>5, <2>1, <2>2
    <2>3. CASE id # Top.obj
      <3>1. heap'[id] = heap[id]
        BY <1>1, <2>1, <2>3
      <3> QED BY <1>5, <2>1, <3>1 DEF MembersLeft, IsFull
    <2> QED BY <2>2, <2>3
  <1>7. MembersLeft'
    BY <1>6 DEF MembersLeft
  <1> QED BY <1>7 DEF OneLoadEach

LEMMA LeaveStep ==
  ASSUME TypeOK, MembersLeft, OneLoadEach, frames # <<>>, Leave, Len(heap') = Len(heap),
         \A id \in 1 .. Len(heap) : id # Top.obj => heap'[id] = heap[id],
         heap'[Top.obj].type \in SequenceTypes \cup CodeTypes
           => Len(heap'[Top.obj].elems) = heap'[Top.obj].size
  PROVE  MembersLeft' /\ OneLoadEach'
  <1>1. /\ Len(frames) \in Nat \ {0} /\ Top.obj \in 1 .. Len(heap) /\ Top = frames[Len(frames)]
        /\ Len(frames') = Len(frames) - 1
        /\ \A i \in 1 .. Len(frames) - 1 : frames'[i] = frames[i]
    BY TopFacts, LeaveFacts
  <1> DEFINE o == Top.obj
  <1>2. ~\E i \in 1 .. Len(frames') : frames'[i].obj = o
    BY <1>1 DEF OneLoadEach
  <1>3. \A id : id # Top.obj => (OnFrame(id)' <=> OnFrame(id))
    BY <1>1 DEF OnFrame
  <1>4. ASSUME NEW id \in 1 .. Len(heap'), Growing(id)'
        PROVE  IF OnFrame(id)' THEN Len(heap'[id].elems) < heap'[id].size ELSE IsFull(id)'
    <2>1. CASE id = Top.obj
      BY <1>2, <1>4, <2>1 DEF OnFrame, Growing, IsFull
    <2>2. CASE id # Top.obj
      <3>1. heap'[id] = heap[id] /\ id \in 1 .. Len(heap)
        BY <2>2
      <3>2. Growing(id)
        BY <1>4, <3>1 DEF Growing
      <3> QED BY <1>3, <2>2, <3>1, <3>2 DEF MembersLeft, IsFull
    <2> QED BY <2>1, <2>2
  <1>5. MembersLeft'
    BY <1>4 DEF MembersLeft
  <1>6. OneLoadEach'
    BY <1>1 DEF OneLoadEach
  <1> QED BY <1>5, <1>6

\* types and sizes stay, and what is interned or made anew is as it should
LEMMA KeptStep ==
  ASSUME TypeOK, CodeSized, InternsAreStrings, pc # "open", pc' # "open", ver' = ver,
         Len(heap') \in Nat, Len(heap') >= Len(heap),
         \A id \in 1 .. Len(heap) : heap'[id].type = heap[id].type /\ heap'[id].size = heap[id].size,
         \A id \in Len(heap) + 1 .. Len(heap') :
           heap'[id].type \in CodeTypes => heap'[id].size = Len(Fields[ver]),
         \/ interns' = interns
         \/ interns' = Append(interns, NewId) /\ heap'[NewId].type \in StringTypes
  PROVE  CodeSized' /\ InternsAreStrings'
  <1>1. Len(heap) \in Nat /\ Len(interns) \in Nat /\ interns \in Seq(Nat)
        /\ \A i \in 1 .. Len(interns) : interns[i] \in 1 .. Len(heap)
    BY Lengths DEF TypeOK
  <1>2. \A id \in 1 .. Len(heap') : id \in 1 .. Len(heap) \/ id \in Len(heap) + 1 .. Len(heap')
    BY <1>1
  <1>3. CodeSized'
    <2>1. \A id \in 1 .. Len(heap) : heap[id].type \in CodeTypes => heap[id].size = Len(Fields[ver])
      BY DEF CodeSized
    <2>2. \A id \in 1 .. Len(heap') : heap'[id].type \in CodeTypes => heap'[id].size = Len(Fields[ver])
      BY <1>2, <2>1
    <2> QED BY <2>2 DEF CodeSized
  <1>4. CASE interns' = interns
    <2>1. \A i \in 1 .. Len(interns) : heap'[interns[i]].type \in StringTypes
      BY <1>1 DEF InternsAreStrings
    <2> QED BY <1>3, <1>4, <2>1 DEF InternsAreStrings
  <1>5. CASE interns' = Append(interns, NewId) /\ heap'[NewId].type \in StringTypes
    <2>1. /\ Len(interns') = Len(interns) + 1 /\ interns'[Len(interns) + 1] = NewId
          /\ \A i \in 1 .. Len(interns) : interns'[i] = interns[i]
      BY <1>1, <1>5, Lengths, AppendProperties DEF NewId
    <2>2. \A i \in 1 .. Len(interns) : heap'[interns'[i]].type \in StringTypes
      BY <1>1, <2>1 DEF InternsAreStrings
    <2>3. heap'[interns'[Len(interns) + 1]].type \in StringTypes
      BY <1>5, <2>1
    <2>4. \A i \in 1 .. Len(interns) + 1 : i \in 1 .. Len(interns) \/ i = Len(interns) + 1
      BY <1>1
    <2>5. \A i \in 1 .. Len(interns) + 1 : heap'[interns'[i]].type \in StringTypes
      BY <2>2, <2>3, <2>4, Zenon
    <2> QED BY <1>3, <2>1, <2>5 DEF InternsAreStrings
  <1> QED BY <1>4, <1>5

\* an object made whole and not entered
LEMMA MadeIsWhole ==
  ASSUME FileOK, TypeOK, WholeInv, ReadHead, Unread, NEW obj \in ObjectType, Create(obj), Return(NewId),
         frames' = frames, obj.elems = <<>>, obj.size = 0, obj.type \notin CodeTypes,
         \/ interns' = interns
         \/ interns' = Append(interns, NewId) /\ obj.type \in StringTypes
  PROVE  WholeInv'
  <1>1. Len(obj.elems) = obj.size
    BY EmptySeq
  <1>2. MembersLeft' /\ OneLoadEach'
    BY <1>1, MakeStep DEF WholeInv
  <1>3. /\ Len(heap) \in Nat /\ Len(heap') = Len(heap) + 1 /\ NewId = Len(heap) + 1
        /\ \A id \in 1 .. Len(heap) : heap'[id] = heap[id]
        /\ heap'[NewId] = obj
    BY Lengths, CreateFacts DEF NewId
  <1>4. pc = "object" /\ pc' = "value" /\ ver' = ver
    BY DEF ReadHead, Return, Unread
  <1>5. \A id \in Len(heap) + 1 .. Len(heap') : id = NewId
    BY <1>3
  <1>6. CodeSized' /\ InternsAreStrings'
    BY <1>3, <1>4, <1>5, KeptStep DEF WholeInv
  <1> QED BY <1>2, <1>4, <1>6 DEF WholeInv, NothingUnderWay

LEMMA EnteredIsNotWhole ==
  ASSUME FileOK, TypeOK, WholeInv, ReadHead, Unread, NEW size \in Int, Tok.t \in Supported, Enter(size),
         size > 0 \/ Tok.t = "DICT", Tok.t \in CodeTypes => size = Len(Fields[ver]),
         pc' = "object", UNCHANGED interns
  PROVE  WholeInv'
  <1>1. MembersLeft' /\ OneLoadEach'
    BY EnterStep DEF WholeInv
  <1>2. Object(Tok.t, 0, size) \in ObjectType /\ Create(Object(Tok.t, 0, size))
    BY EnterFacts
  <1>3. /\ Len(heap) \in Nat /\ Len(heap') = Len(heap) + 1 /\ NewId = Len(heap) + 1
        /\ \A id \in 1 .. Len(heap) : heap'[id] = heap[id]
        /\ heap'[NewId] = Object(Tok.t, 0, size)
    BY <1>2, Lengths, CreateFacts DEF NewId
  <1>4. heap'[NewId].type = Tok.t /\ heap'[NewId].size = size
    BY <1>3 DEF Object
  <1>5. pc = "object" /\ ver' = ver
    BY DEF ReadHead, Unread
  <1>6. \A id \in Len(heap) + 1 .. Len(heap') : id = NewId
    BY <1>3
  <1>7. CodeSized' /\ InternsAreStrings'
    BY <1>3, <1>4, <1>5, <1>6, KeptStep DEF WholeInv
  <1> QED BY <1>1, <1>5, <1>7 DEF WholeInv, NothingUnderWay

\* the object of the innermost frame lacks members
LEMMA TopLacks ==
  ASSUME TypeOK, MembersLeft, frames # <<>>, Growing(Top.obj)
  PROVE  /\ Len(heap[Top.obj].elems) \in Nat /\ heap[Top.obj].size \in Int
         /\ Len(heap[Top.obj].elems) < heap[Top.obj].size
  <1>1. /\ Len(frames) \in Nat \ {0} /\ Top.obj \in 1 .. Len(heap) /\ Top = frames[Len(frames)]
        /\ heap[Top.obj] \in ObjectType
    BY TopFacts
  <1>2. OnFrame(Top.obj)
    BY <1>1 DEF OnFrame
  <1> QED BY <1>1, <1>2, LenProperties DEF MembersLeft, ObjectType

\* a member given to the innermost object, which is left when it is the last
LEMMA OneMember ==
  ASSUME TypeOK, MembersLeft, OneLoadEach, frames # <<>>, Growing(Top.obj), NEW new \in Int, Give(<<new>>),
         \/ IsLast /\ Leave
         \/ ~IsLast /\ UNCHANGED frames
  PROVE  MembersLeft' /\ OneLoadEach'
  <1>1. <<new>> \in Seq(Int) /\ Len(<<new>>) = 1
    BY TupleTypes
  <1>2. /\ Len(heap[Top.obj].elems) \in Nat /\ heap[Top.obj].size \in Int
        /\ Len(heap[Top.obj].elems) < heap[Top.obj].size
    BY TopLacks
  <1>3. CASE ~IsLast /\ UNCHANGED frames
    <2>1. Len(heap[Top.obj].elems) + Len(<<new>>) < heap[Top.obj].size
      BY <1>1, <1>2, <1>3 DEF IsLast
    <2> QED BY <1>1, <1>3, <2>1, GiveStep
  <1>4. CASE IsLast /\ Leave
    <2>1. /\ Len(heap') = Len(heap) /\ Top.obj \in 1 .. Len(heap)
          /\ \A id \in 1 .. Len(heap) : id # Top.obj => heap'[id] = heap[id]
          /\ heap'[Top.obj].size = heap[Top.obj].size
          /\ heap'[Top.obj].elems = heap[Top.obj].elems \o <<new>> /\ heap[Top.obj].elems \in Seq(Int)
      BY <1>1, GiveFacts, TopFacts
    <2>2. Len(heap'[Top.obj].elems) = heap'[Top.obj].size
      BY <1>1, <1>4, <2>1, ConcatProperties DEF IsLast
    <2> QED BY <1>4, <2>1, <2>2, LeaveStep
  <1> QED BY <1>3, <1>4

\* a step that changes neither heap nor frames nor, once there is code, ver
LEMMA NothingMade ==
  ASSUME TypeOK, WholeInv, UNCHANGED <<heap, interns>>, Len(frames') = Len(frames),
         \A i \in 1 .. Len(frames) : frames'[i].obj = frames[i].obj,
         pc # "open" => ver' = ver, pc' # "open" \/ UNCHANGED <<pc, ver>>,
         NothingUnderWay'
  PROVE  WholeInv'
  <1>1. MembersLeft' /\ OneLoadEach'
    BY StillStep DEF WholeInv
  <1>2. CodeSized' /\ InternsAreStrings'
    BY DEF WholeInv, CodeSized, InternsAreStrings
  <1> QED BY <1>1, <1>2 DEF WholeInv

\* giving members changes no type and no size
LEMMA GivenKeeps ==
  ASSUME TypeOK, WholeInv, frames # <<>>, NEW new \in Seq(Int), Give(new),
         pc # "open", pc' # "open", UNCHANGED <<ver, interns>>
  PROVE  CodeSized' /\ InternsAreStrings'
  <1>1. /\ Len(heap) \in Nat /\ Len(heap') = Len(heap)
        /\ \A id \in 1 .. Len(heap) : heap'[id].type = heap[id].type /\ heap'[id].size = heap[id].size
    BY Lengths, GiveFacts
  <1>2. \A id \in Len(heap) + 1 .. Len(heap') : FALSE
    BY <1>1
  <1> QED BY <1>1, <1>2, KeptStep DEF WholeInv

LEMMA WholeInit == Init => WholeInv
  <1> SUFFICES ASSUME Init PROVE WholeInv
    OBVIOUS
  <1>1. TypeOK
    BY TypeInit
  <1>2. Len(heap) = 5 /\ \A id \in 1 .. 5 : heap[id] = Object(Singletons[id], 0, 0)
    <2> DEFINE h == [i \in 1 .. 5 |-> Object(Singletons[i], 0, 0)]
    <2>1. heap = h /\ h \in [1 .. 5 -> ObjectType] /\ h \in Seq(ObjectType)
      <3>1. heap = h /\ h \in Seq(ObjectType)
        BY <1>1 DEF TypeOK, Init
      <3>2. DOMAIN h = 1 .. 5
        OBVIOUS
      <3> HIDE DEF h
      <3> QED BY <3>1, <3>2, ElementOfSeq, LenProperties
    <2>2. Len(h) = 5
      <3> HIDE DEF h
      <3> QED BY <2>1, LenProperties
    <2> QED BY <2>1, <2>2
  <1>3. \A id \in 1 .. 5 : Singletons[id] \notin SequenceTypes \cup CodeTypes
    BY DEF Singletons, SequenceTypes, CodeTypes
  <1>4. \A id \in 1 .. Len(heap) : heap[id].type \notin SequenceTypes \cup CodeTypes
    BY <1>2, <1>3 DEF Object
  <1>5. frames = <<>> /\ interns = <<>> /\ pc = "open"
    BY DEF Init
  <1>6. Len(frames) = 0 /\ Len(interns) = 0
    BY <1>5, EmptySeq
  <1>7. MembersLeft /\ CodeSized
    BY <1>4 DEF MembersLeft, CodeSized, Growing
  <1>8. OneLoadEach /\ InternsAreStrings /\ NothingUnderWay
    BY <1>5, <1>6 DEF OneLoadEach, InternsAreStrings, NothingUnderWay
  <1> QED BY <1>7, <1>8 DEF WholeInv

LEMMA WholeStep ==
  ASSUME FileOK, TypeOK, WholeInv, [Next]_vars
  PROVE  WholeInv'
  <1>1. CASE ReadMagic \/ TakeVersion \/ ReadHeader
    <2>1. UNCHANGED <<heap, frames, interns>> /\ pc' # "open" /\ pc \in {"open", "header"}
          /\ (pc # "open" => ver' = ver)
      BY <1>1 DEF ReadMagic, TakeVersion, ReadHeader
    <2>2. NothingUnderWay'
      BY <2>1 DEF WholeInv, NothingUnderWay
    <2> QED BY <2>1, <2>2, NothingMade
  <1>2. CASE LoseHeader \/ EndOfFile \/ Refuse \/ RefuseNumber \/ BadCast
    <2>1. PICK fault \in Faults : Fail(fault)
      BY <1>2 DEF LoseHeader, EndOfFile, Refuse, RefuseNumber, BadCast, Faults
    <2>2. fault \notin {"open", "header", "done", "invalid"}
      BY DEF Faults
    <2>3. UNCHANGED <<heap, frames, interns, ver>> /\ pc' # "open" /\ NothingUnderWay'
      BY <2>1, <2>2 DEF Fail, NothingUnderWay
    <2> QED BY <2>3, NothingMade
  <1>3. CASE ReadRef \/ ReadNull \/ ReadSingleton
    <2>1. UNCHANGED <<heap, frames, interns, ver>> /\ pc' = "value"
      BY <1>3 DEF ReadRef, ReadNull, ReadSingleton, Unread, Return
    <2> QED BY <2>1, NothingMade DEF NothingUnderWay
  <1>4. CASE ReadNumber
    <2>1. Object(Tok.t, Tok.n, 0) \in ObjectType
      BY <1>4, HeadFacts, EmptySeq DEF ReadNumber, Object, ObjectType, Supported, TokenType
    <2> QED BY <1>4, <2>1, MadeIsWhole, TypesDiffer DEF ReadNumber, Object
  <1>5. CASE ReadString
    <2>1. Object(Tok.t, Tok.n, 0) \in ObjectType
      BY <1>5, HeadFacts, EmptySeq DEF ReadString, Object, ObjectType, Supported, TokenType
    <2> QED BY <1>5, <2>1, MadeIsWhole, TypesDiffer DEF ReadString, Object
  <1>6. CASE ReadStringRef
    <2> DEFINE str == heap[interns[Tok.n + 1]]
    <2>1. Tok.n + 1 \in 1 .. Len(interns)
      BY <1>6, HeadFacts, Lengths DEF ReadStringRef, TokenType
    <2>2. str.type \in StringTypes /\ str \in ObjectType
      BY <2>1, ElementOfSeq DEF WholeInv, InternsAreStrings, TypeOK
    <2>3. Create(Object(str.type, str.n, 0)) /\ Return(NewId) /\ ReadHead /\ Unread /\ UNCHANGED <<frames, interns>>
      BY <1>6 DEF ReadStringRef
    <2> HIDE DEF str
    <2>4. Object(str.type, str.n, 0) \in ObjectType /\ Object(str.type, str.n, 0).type \notin CodeTypes
      BY <2>2, EmptySeq, TypesDiffer DEF Object, ObjectType
    <2> QED BY <2>3, <2>4, MadeIsWhole DEF Object
  <1>7. CASE EmptySequence
    <2>1. Object(Tok.t, 0, 0) \in ObjectType
      BY <1>7, EmptySeq DEF EmptySequence, Object, ObjectType, Supported
    <2> QED BY <1>7, <2>1, MadeIsWhole, TypesDiffer DEF EmptySequence, Object
  <1>8. CASE OpenSequence
    <2>1. Tok.n \in Int /\ Tok.t \in Supported
      BY <1>8, HeadFacts DEF OpenSequence, TokenType, Supported
    <2> QED BY <1>8, <2>1, EnteredIsNotWhole, TypesDiffer DEF OpenSequence
  <1>9. CASE OpenDict
    <2>1. 0 \in Int /\ Tok.t \in Supported
      BY <1>9 DEF OpenDict, Supported
    <2> QED BY <1>9, <2>1, EnteredIsNotWhole, TypesDiffer DEF OpenDict
  <1>10. CASE OpenCode
    <2>1. Len(Fields[ver]) \in Nat \ {0} /\ Tok.t \in Supported
      BY <1>10, FieldsFacts DEF OpenCode, ReadHead, TypeOK, Supported
    <2> QED BY <1>10, <2>1, EnteredIsNotWhole DEF OpenCode
  <1>11. CASE TakeElement \/ TakeField
    <2>1. /\ frames # <<>> /\ pc = "value" /\ Give(<<val>>) /\ Kept /\ pc' \in {"object", "value"}
          /\ heap[Top.obj].type \in SequenceTypes \cup CodeTypes
          /\ \/ IsLast /\ Leave
             \/ ~IsLast /\ UNCHANGED frames
      BY <1>11 DEF TakeElement, TakeField, Taking, Return
    <2>2. val \in Int
      BY Lengths DEF TypeOK
    <2>3. MembersLeft' /\ OneLoadEach'
      BY <2>1, <2>2, OneMember DEF WholeInv, Growing
    <2>4. CodeSized' /\ InternsAreStrings'
      BY <2>1, <2>2, TupleTypes, GivenKeeps DEF Kept
    <2> QED BY <2>1, <2>3, <2>4 DEF WholeInv, NothingUnderWay
  <1>12. CASE TakeKey
    <2>1. frames # <<>> /\ pc = "value" /\ UNCHANGED heap /\ Kept /\ pc' \in {"object", "value"}
          /\ heap[Top.obj].type = "DICT"
      BY <1>12 DEF TakeKey, Taking, Return
    <2>2. CASE val = Null
      <3>1. Leave
        BY <1>12, <2>2 DEF TakeKey
      <3>2. heap'[Top.obj].type \notin SequenceTypes \cup CodeTypes
        BY <2>1, TypesDiffer
      <3>3. MembersLeft' /\ OneLoadEach'
        BY <2>1, <3>1, <3>2, LeaveStep DEF WholeInv
      <3>4. CodeSized' /\ InternsAreStrings'
        BY <2>1 DEF WholeInv, CodeSized, InternsAreStrings, Kept
      <3> QED BY <2>1, <3>3, <3>4 DEF WholeInv, NothingUnderWay
    <2>3. CASE val # Null
      <3>1. frames' = [frames EXCEPT ![Len(frames)].key = val] /\ val \in 0 .. Len(heap)
        BY <1>12, <2>3 DEF TakeKey, TypeOK
      <3>2. Len(frames') = Len(frames) /\ \A i \in 1 .. Len(frames) : frames'[i].obj = frames[i].obj
        BY <2>1, <3>1, KeyFacts
      <3>3. NothingUnderWay'
        BY <2>1 DEF NothingUnderWay
      <3> QED BY <2>1, <3>2, <3>3, NothingMade DEF Kept
    <2> QED BY <2>2, <2>3
  <1>13. CASE TakeValue
    <2>1. /\ frames # <<>> /\ pc = "value" /\ Give(<<Top.key, val>>) /\ Kept /\ pc' = "object"
          /\ frames' = [frames EXCEPT ![Len(frames)].key = Null] /\ heap[Top.obj].type = "DICT"
      BY <1>13 DEF TakeValue, Taking
    <2>2. Top.key \in Int /\ val \in Int /\ Null \in 0 .. Len(heap)
      BY <2>1, TopFacts, Lengths DEF TypeOK, Null
    <2>3. <<Top.key, val>> \in Seq(Int)
      BY <2>2, TupleTypes
    <2>4. Len(frames') = Len(frames) /\ \A i \in 1 .. Len(frames) : frames'[i].obj = frames[i].obj
      BY <2>1, <2>2, KeyFacts
    <2>5. MembersLeft' /\ OneLoadEach'
      BY <2>1, <2>3, <2>4, GiveStep, TypesDiffer DEF WholeInv, Growing
    <2>6. CodeSized' /\ InternsAreStrings'
      BY <2>1, <2>3, GivenKeeps DEF Kept
    <2> QED BY <2>1, <2>5, <2>6 DEF WholeInv, NothingUnderWay
  <1>14. CASE TakeNumber
    <2> DEFINE n == IF NextField.name = "flags" THEN Remapped(ver, Tok.n) ELSE Tok.n
    <2>1. /\ frames # <<>> /\ pc = "object" /\ Give(<<n>>) /\ ver \in Versions /\ ~AtEof
          /\ heap[Top.obj].type \in CodeTypes /\ NextField.kind \in {"short", "word"}
          /\ UNCHANGED <<ver, frames, interns, pc>>
      BY <1>14 DEF TakeNumber, WantsNumber, InCode, TypeOK
    <2>2. n \in Int
      BY <2>1, TokFacts DEF TokenType, Remapped
    <2> HIDE DEF n
    <2>3. /\ Len(heap[Top.obj].elems) \in Nat /\ Len(heap[Top.obj].elems) < heap[Top.obj].size
          /\ heap[Top.obj].size = Len(Fields[ver])
      BY <2>1, TopLacks, TopFacts DEF WholeInv, CodeSized, Growing
    <2>4. Len(Fields[ver]) \in Nat /\ Len(heap[Top.obj].elems) + 1 < Len(Fields[ver])
      BY <2>1, <2>3, FieldsFacts DEF NextField
    <2>5. <<n>> \in Seq(Int) /\ Len(<<n>>) = 1
      BY <2>2, TupleTypes
    <2>6. Len(heap[Top.obj].elems) + Len(<<n>>) < heap[Top.obj].size
      BY <2>3, <2>4, <2>5
    <2>7. MembersLeft' /\ OneLoadEach'
      BY <2>1, <2>5, <2>6, GiveStep DEF WholeInv
    <2>8. CodeSized' /\ InternsAreStrings'
      BY <2>1, <2>5, GivenKeeps
    <2> QED BY <2>1, <2>7, <2>8 DEF WholeInv, NothingUnderWay
  <1>15. CASE Loaded
    <2>1. UNCHANGED <<heap, frames, interns, ver>> /\ frames = <<>> /\ pc' = "done"
      BY <1>15 DEF Loaded
    <2> QED BY <2>1, NothingMade DEF NothingUnderWay
  <1>16. CASE Stay \/ UNCHANGED vars
    <2>1. UNCHANGED <<heap, frames, interns, ver, pc>>
      BY <1>16 DEF Stay, vars
    <2> QED BY <2>1, NothingMade DEF WholeInv, NothingUnderWay
  <1> QED
    BY <1>1, <1>2, <1>3, <1>4, <1>5, <1>6, <1>7, <1>8, <1>9, <1>10, <1>11, <1>12, <1>13, <1>14, <1>15, <1>16 DEF Next

LEMMA WholeImplies ==
  ASSUME TypeOK, WholeInv
  PROVE  HalfLoadedIsOnFrame
  <1>1. ASSUME NEW id \in 1 .. Len(heap), Growing(id)
        PROVE  IsFull(id) <=> ~OnFrame(id)
    <2>1. heap[id] \in ObjectType
      BY ElementOfSeq DEF TypeOK
    <2>2. Len(heap[id].elems) \in Nat /\ heap[id].size \in Int
      BY <2>1, LenProperties DEF ObjectType
    <2> QED BY <1>1, <2>2 DEF WholeInv, MembersLeft, IsFull
  <1> QED BY <1>1 DEF WholeInv, OneLoadEach, NothingUnderWay, HalfLoadedIsOnFrame

\* Whatever the files, PycTuple::load, PycDict::load and PycCode::load leave
\* nothing half loaded behind: what lacks members is being loaded, once.
THEOREM LoaderWhole == Spec => []HalfLoadedIsOnFrame
  <1>1. Init => FileOK /\ TypeOK /\ WholeInv
    BY TypeInit, WholeInit
  <1>2. FileOK /\ TypeOK /\ WholeInv /\ [Next]_vars => (FileOK /\ TypeOK /\ WholeInv)'
    BY FileStep, TypeStep, WholeStep
  <1>3. FileOK /\ TypeOK /\ WholeInv => HalfLoadedIsOnFrame
    BY WholeImplies
  <1> QED BY <1>1, <1>2, <1>3, PTL DEF Spec

-----------------------------------------------------------------------------
(* The fields of a code object have their classes.  A field is a name: it   *)
(* keeps its class because an object never changes its type, and the class  *)
(* asked of it stays because ver is never set once there is a code object.  *)

OfClass(id, kind) == id \in 1 .. Len(heap) /\ heap[id].type \in Class(kind)

FieldsInv ==
  \A id \in 1 .. Len(heap) : heap[id].type \in CodeTypes =>
    \A i \in 1 .. Len(heap[id].elems) :
      Fields[ver][i].kind \in {"string", "sequence"} => OfClass(heap[id].elems[i], Fields[ver][i].kind)

\* each field is one there was before, or is of its class when it is given
LEMMA FieldsStep ==
  ASSUME FieldsInv, ver' = ver, Len(heap) \in Nat, Len(heap') \in Nat, Len(heap') >= Len(heap),
         \A id \in 1 .. Len(heap) : heap'[id].type = heap[id].type,
         \A id \in 1 .. Len(heap') : heap'[id].type \in CodeTypes =>
           \A i \in 1 .. Len(heap'[id].elems) :
             \/ /\ id \in 1 .. Len(heap) /\ i \in 1 .. Len(heap[id].elems)
                /\ heap'[id].elems[i] = heap[id].elems[i]
             \/ Fields[ver][i].kind \in {"string", "sequence"} => OfClass(heap'[id].elems[i], Fields[ver][i].kind)
  PROVE  FieldsInv'
  <1>1. \A x, kind : OfClass(x, kind) => x \in 1 .. Len(heap') /\ heap'[x].type \in Class(kind)
    BY DEF OfClass
  <1>2. ASSUME NEW id \in 1 .. Len(heap'), heap'[id].type \in CodeTypes, NEW i \in 1 .. Len(heap'[id].elems),
               Fields[ver][i].kind \in {"string", "sequence"}
        PROVE  OfClass(heap'[id].elems[i], Fields[ver][i].kind)
    <2>1. CASE /\ id \in 1 .. Len(heap) /\ i \in 1 .. Len(heap[id].elems)
               /\ heap'[id].elems[i] = heap[id].elems[i]
      BY <1>2, <2>1 DEF FieldsInv
    <2> QED BY <1>2, <2>1
  <1>3. \A id \in 1 .. Len(heap') : heap'[id].type \in CodeTypes =>
          \A i \in 1 .. Len(heap'[id].elems) : Fields[ver][i].kind \in {"string", "sequence"} =>
            heap'[id].elems[i] \in 1 .. Len(heap') /\ heap'[heap'[id].elems[i]].type \in Class(Fields[ver][i].kind)
    BY <1>1, <1>2
  <1> QED BY <1>3 DEF FieldsInv, OfClass

\* an object is made without members
LEMMA FieldsMade ==
  ASSUME TypeOK, FieldsInv, ver' = ver, NEW obj \in ObjectType, Create(obj), obj.elems = <<>>
  PROVE  FieldsInv'
  <1>1. /\ Len(heap) \in Nat /\ Len(heap') = Len(heap) + 1 /\ NewId = Len(heap) + 1
        /\ \A id \in 1 .. Len(heap) : heap'[id] = heap[id]
        /\ heap'[NewId] = obj
    BY Lengths, CreateFacts DEF NewId
  <1>2. Len(obj.elems) = 0
    BY EmptySeq
  <1>3. ASSUME NEW id \in 1 .. Len(heap'), NEW i \in 1 .. Len(heap'[id].elems)
        PROVE  id \in 1 .. Len(heap) /\ heap'[id] = heap[id]
    BY <1>1, <1>2
  <1> QED BY <1>1, <1>3, FieldsStep

\* an object that is not a code object is given members
LEMMA FieldsElsewhere ==
  ASSUME TypeOK, FieldsInv, ver' = ver, frames # <<>>, NEW new \in Seq(Int), Give(new),
         heap[Top.obj].type \notin CodeTypes
  PROVE  FieldsInv'
  <1>1. /\ Len(heap) \in Nat /\ Len(heap') = Len(heap)
        /\ \A id \in 1 .. Len(heap) : id # Top.obj => heap'[id] = heap[id]
        /\ \A id \in 1 .. Len(heap) : heap'[id].type = heap[id].type
    BY Lengths, GiveFacts
  <1> QED BY <1>1, FieldsStep

\* the next field of the code object under way
LEMMA FieldGiven ==
  ASSUME TypeOK, FieldsInv, ver' = ver, frames # <<>>, NEW new \in Int, Give(<<new>>),
         NextField.kind \in {"string", "sequence"} => OfClass(new, NextField.kind)
  PROVE  FieldsInv'
  <1>1. <<new>> \in Seq(Int) /\ Len(<<new>>) = 1 /\ <<new>>[1] = new
    BY TupleTypes
  <1>2. /\ Len(heap) \in Nat /\ Len(heap') = Len(heap) /\ Top.obj \in 1 .. Len(heap)
        /\ \A id \in 1 .. Len(heap) : id # Top.obj => heap'[id] = heap[id]
        /\ \A id \in 1 .. Len(heap) : heap'[id].type = heap[id].type
        /\ heap'[Top.obj].elems = heap[Top.obj].elems \o <<new>> /\ heap[Top.obj].elems \in Seq(Int)
    BY <1>1, Lengths, GiveFacts, TopFacts
  <1> DEFINE n == Len(heap[Top.obj].elems)
  <1>3. /\ n \in Nat /\ Len(heap'[Top.obj].elems) = n + 1
        /\ \A i \in 1 .. n : heap'[Top.obj].elems[i] = heap[Top.obj].elems[i]
        /\ heap'[Top.obj].elems[n + 1] = new
    BY <1>1, <1>2, ConcatProperties
  <1>4. NextField = Fields[ver][n + 1]
    BY DEF NextField
  <1>5. ASSUME NEW i \in 1 .. n + 1
        PROVE  \/ i \in 1 .. n /\ heap'[Top.obj].elems[i] = heap[Top.obj].elems[i]
               \/ Fields[ver][i].kind \in {"string", "sequence"} => OfClass(heap'[Top.obj].elems[i], Fields[ver][i].kind)
    <2>1. CASE i = n + 1
      <3> HIDE DEF n
      <3> QED BY <1>3, <1>4, <2>1
    <2>2. CASE i # n + 1
      BY <1>3, <2>2
    <2> QED BY <2>1, <2>2
  <1>6. ASSUME NEW id \in 1 .. Len(heap'), NEW i \in 1 .. Len(heap'[id].elems)
        PROVE  \/ /\ id \in 1 .. Len(heap) /\ i \in 1 .. Len(heap[id].elems)
                  /\ heap'[id].elems[i] = heap[id].elems[i]
               \/ Fields[ver][i].kind \in {"string", "sequence"} => OfClass(heap'[id].elems[i], Fields[ver][i].kind)
    <2>1. CASE id = Top.obj
      BY <1>2, <1>3, <1>5, <1>6, <2>1
    <2>2. CASE id # Top.obj
      BY <1>2, <1>6, <2>2
    <2> QED BY <2>1, <2>2
  <1>7. Len(heap') \in Nat /\ Len(heap') >= Len(heap)
    BY <1>2
  <1> HIDE DEF n
  <1>8. \A id \in 1 .. Len(heap') : heap'[id].type \in CodeTypes =>
           \A i \in 1 .. Len(heap'[id].elems) :
             \/ /\ id \in 1 .. Len(heap) /\ i \in 1 .. Len(heap[id].elems)
                /\ heap'[id].elems[i] = heap[id].elems[i]
             \/ Fields[ver][i].kind \in {"string", "sequence"} => OfClass(heap'[id].elems[i], Fields[ver][i].kind)
    BY <1>6
  <1> QED BY <1>2, <1>7, <1>8, FieldsStep

LEMMA FieldsNext ==
  ASSUME FileOK, TypeOK, WholeInv, FieldsInv, [Next]_vars
  PROVE  FieldsInv'
  <1>1. CASE ReadMagic \/ TakeVersion
    <2>1. UNCHANGED heap /\ pc = "open"
      BY <1>1 DEF ReadMagic, TakeVersion
    <2>2. \A id \in 1 .. Len(heap') : heap'[id].type \notin CodeTypes
      BY <2>1 DEF WholeInv, CodeSized
    <2> QED BY <2>2 DEF FieldsInv
  <1>2. CASE \/ ReadHeader \/ LoseHeader \/ EndOfFile \/ Refuse \/ RefuseNumber \/ BadCast \/ Loaded \/ Stay
             \/ ReadRef \/ ReadNull \/ ReadSingleton \/ TakeKey \/ UNCHANGED vars
    <2>1. UNCHANGED <<heap, ver>>
      BY <1>2 DEF ReadHeader, LoseHeader, EndOfFile, Refuse, RefuseNumber, BadCast, Loaded, Stay, ReadRef,
                  ReadNull, ReadSingleton, TakeKey, vars, Fail, Unread, Kept
    <2> QED BY <2>1 DEF FieldsInv, OfClass
  <1>3. CASE ReadNumber \/ ReadString
    <2>1. Create(Object(Tok.t, Tok.n, 0)) /\ ver' = ver
      BY <1>3 DEF ReadNumber, ReadString, Unread
    <2>2. Object(Tok.t, Tok.n, 0) \in ObjectType
      BY <1>3, HeadFacts, EmptySeq DEF ReadNumber, ReadString, Object, ObjectType, Supported, TokenType
    <2> QED BY <2>1, <2>2, FieldsMade DEF Object
  <1>4. CASE ReadStringRef
    <2> DEFINE str == heap[interns[Tok.n + 1]]
    <2>1. Tok.n + 1 \in 1 .. Len(interns)
      BY <1>4, HeadFacts, Lengths DEF ReadStringRef, TokenType
    <2>2. str \in ObjectType
      BY <2>1, ElementOfSeq DEF TypeOK
    <2>3. Create(Object(str.type, str.n, 0)) /\ ver' = ver
      BY <1>4 DEF ReadStringRef, Unread
    <2> HIDE DEF str
    <2>4. Object(str.type, str.n, 0) \in ObjectType
      BY <2>2, EmptySeq DEF Object, ObjectType
    <2> QED BY <2>3, <2>4, FieldsMade DEF Object
  <1>5. CASE EmptySequence \/ OpenSequence \/ OpenDict \/ OpenCode
    <2>1. Tok.t \in Supported /\ ver' = ver
      BY <1>5 DEF EmptySequence, OpenSequence, OpenDict, OpenCode, Supported, Unread
    <2>2. PICK size \in Int : Create(Object(Tok.t, 0, size))
      <3>1. CASE EmptySequence \/ OpenDict
        <4>1. Create(Object(Tok.t, 0, 0))
          BY <3>1 DEF EmptySequence, OpenDict, Enter
        <4> QED BY <4>1
      <3>2. CASE OpenSequence
        <4>1. Create(Object(Tok.t, 0, Tok.n)) /\ Tok.n \in Int
          BY <3>2, HeadFacts DEF OpenSequence, Enter, TokenType
        <4> QED BY <4>1
      <3>3. CASE OpenCode
        <4>1. Create(Object(Tok.t, 0, Len(Fields[ver]))) /\ ver \in Versions
          BY <3>3 DEF OpenCode, Enter, ReadHead, TypeOK
        <4>2. Len(Fields[ver]) \in Int
          BY <4>1, FieldsFacts
        <4> QED BY <4>1, <4>2
      <3> QED BY <1>5, <3>1, <3>2, <3>3
    <2>3. Object(Tok.t, 0, size) \in ObjectType
      BY <2>1, EmptySeq DEF Object, ObjectType
    <2> QED BY <2>1, <2>2, <2>3, FieldsMade DEF Object
  <1>6. CASE TakeElement
    <2>1. frames # <<>> /\ Give(<<val>>) /\ ver' = ver /\ heap[Top.obj].type \notin CodeTypes
      BY <1>6, TypesDiffer DEF TakeElement, Taking, Kept
    <2>2. <<val>> \in Seq(Int)
      BY Lengths, TupleTypes DEF TypeOK
    <2> QED BY <2>1, <2>2, FieldsElsewhere
  <1>7. CASE TakeValue
    <2>1. frames # <<>> /\ Give(<<Top.key, val>>) /\ ver' = ver /\ heap[Top.obj].type \notin CodeTypes
      BY <1>7, TypesDiffer DEF TakeValue, Taking, Kept
    <2>2. Top.key \in Int /\ val \in Int
      BY <2>1, TopFacts, Lengths DEF TypeOK
    <2>3. <<Top.key, val>> \in Seq(Int)
      BY <2>2, TupleTypes
    <2> QED BY <2>1, <2>3, FieldsElsewhere
  <1>8. CASE TakeField
    <2>1. frames # <<>> /\ Give(<<val>>) /\ ver' = ver /\ val \in Int
      BY <1>8, Lengths DEF TakeField, Taking, Kept, TypeOK
    <2>2. OfClass(val, NextField.kind)
      BY <1>8, Lengths DEF TakeField, IsA, OfClass, Null, TypeOK
    <2> QED BY <2>1, <2>2, FieldGiven
  <1>9. CASE TakeNumber
    <2> DEFINE n == IF NextField.name = "flags" THEN Remapped(ver, Tok.n) ELSE Tok.n
    <2>1. /\ frames # <<>> /\ Give(<<n>>) /\ ver \in Versions /\ ~AtEof /\ ver' = ver
          /\ NextField.kind \in {"short", "word"}
      BY <1>9 DEF TakeNumber, WantsNumber, InCode, TypeOK
    <2>2. n \in Int
      BY <2>1, TokFacts DEF TokenType, Remapped
    <2> HIDE DEF n
    <2> QED BY <2>1, <2>2, FieldGiven
  <1> QED
    BY <1>1, <1>2, <1>3, <1>4, <1>5, <1>6, <1>7, <1>8, <1>9 DEF Next

\* Whatever the files, cast<PycString> and cast<PycSequence> in
\* PycCode::load leave every field of every code object with its class.
THEOREM LoaderClasses == Spec => []FieldsOfClass
  <1>1. Init => FileOK /\ TypeOK /\ WholeInv /\ FieldsInv
    <2>1. WholeInv /\ Init => FieldsInv
      BY DEF WholeInv, CodeSized, FieldsInv, Init
    <2> QED BY <2>1, TypeInit, WholeInit
  <1>2. FileOK /\ TypeOK /\ WholeInv /\ FieldsInv /\ [Next]_vars => (FileOK /\ TypeOK /\ WholeInv /\ FieldsInv)'
    BY FileStep, TypeStep, WholeStep, FieldsNext
  <1>3. TypeOK /\ FieldsInv => FieldsOfClass
    BY Lengths DEF FieldsInv, OfClass, FieldsOfClass, IsA, Null
  <1> QED BY <1>1, <1>2, <1>3, PTL DEF Spec

-----------------------------------------------------------------------------
(* What is loaded is final.  An object is given members by its own load()   *)
(* only, which is the innermost one; and a load() starts on a new object.   *)

FinalStep ==
  /\ Keeps(refs, refs') /\ Keeps(interns, interns') /\ Len(heap) <= Len(heap')
  /\ \A id \in 1 .. Len(heap) :
       /\ heap'[id] = [heap[id] EXCEPT !.elems = heap'[id].elems]
       /\ Keeps(heap[id].elems, heap'[id].elems)
       /\ ~OnFrame(id) => heap'[id] = heap[id] /\ ~OnFrame(id)'

LEMMA SameKeeps ==
  ASSUME NEW S, NEW s \in Seq(S)
  PROVE  Keeps(s, s)
  BY LenProperties DEF Keeps

LEMMA AppendKeeps ==
  ASSUME NEW S, NEW s \in Seq(S), NEW e \in S
  PROVE  Keeps(s, Append(s, e))
  BY LenProperties, AppendProperties DEF Keeps

LEMMA ConcatKeeps ==
  ASSUME NEW S, NEW s \in Seq(S), NEW t \in Seq(S)
  PROVE  Keeps(s, s \o t)
  BY LenProperties, ConcatProperties DEF Keeps

LEMMA SameObject ==
  ASSUME NEW o \in ObjectType
  PROVE  o = [o EXCEPT !.elems = o.elems] /\ Keeps(o.elems, o.elems)
  BY SameKeeps DEF ObjectType

\* the tables
LEMMA TablesKeep ==
  ASSUME TypeOK,
         refs' = refs \/ \E id \in Nat : refs' = Append(refs, id),
         interns' = interns \/ \E id \in Nat : interns' = Append(interns, id)
  PROVE  Keeps(refs, refs') /\ Keeps(interns, interns')
  <1>1. refs \in Seq(Nat) /\ interns \in Seq(Nat)
    BY DEF TypeOK
  <1>2. \A s \in Seq(Nat) : Keeps(s, s) /\ \A id \in Nat : Keeps(s, Append(s, id))
    BY SameKeeps, AppendKeeps
  <1> QED BY <1>1, <1>2, Zenon

\* a step that leaves the objects there are alone; what is entered is new
LEMMA FinalElsewhere ==
  ASSUME TypeOK, Keeps(refs, refs'), Keeps(interns, interns'), Len(heap) <= Len(heap'),
         \A id \in 1 .. Len(heap) : heap'[id] = heap[id],
         \A i \in 1 .. Len(frames') :
           frames'[i].obj \notin 1 .. Len(heap) \/ (i \in 1 .. Len(frames) /\ frames'[i].obj = frames[i].obj)
  PROVE  FinalStep
  <1>1. ASSUME NEW id \in 1 .. Len(heap)
        PROVE  /\ heap'[id] = [heap[id] EXCEPT !.elems = heap'[id].elems]
               /\ Keeps(heap[id].elems, heap'[id].elems)
               /\ ~OnFrame(id) => heap'[id] = heap[id] /\ ~OnFrame(id)'
    <2>1. heap[id] \in ObjectType
      BY ElementOfSeq DEF TypeOK
    <2>2. heap'[id] = heap[id]
      OBVIOUS
    <2>3. ~OnFrame(id) => ~OnFrame(id)'
      BY DEF OnFrame
    <2> QED BY <2>1, <2>2, <2>3, SameObject
  <1> QED BY <1>1 DEF FinalStep

\* a step that gives the innermost object members
LEMMA FinalGiven ==
  ASSUME TypeOK, frames # <<>>, NEW new \in Seq(Int), Give(new), UNCHANGED <<refs, interns>>,
         Len(frames') <= Len(frames), Len(frames') \in Nat,
         \A i \in 1 .. Len(frames') : frames'[i].obj = frames[i].obj
  PROVE  FinalStep
  <1>1. /\ Len(heap') = Len(heap) /\ Len(heap) \in Nat
        /\ \A id \in 1 .. Len(heap) : id # Top.obj => heap'[id] = heap[id]
        /\ heap'[Top.obj] = [heap[Top.obj] EXCEPT !.elems = @ \o new]
        /\ heap[Top.obj].elems \in Seq(Int)
        /\ heap'[Top.obj].elems = heap[Top.obj].elems \o new
    BY GiveFacts, Lengths
  <1>2. Keeps(refs, refs') /\ Keeps(interns, interns')
    BY TablesKeep
  <1>3. OnFrame(Top.obj)
    BY TopFacts DEF OnFrame
  <1>4. \A id : OnFrame(id)' => OnFrame(id)
    <2>1. Len(frames) \in Nat
      BY Lengths
    <2>2. \A i \in 1 .. Len(frames') : i \in 1 .. Len(frames)
      BY <2>1
    <2> QED BY <2>2 DEF OnFrame
  <1>5. ASSUME NEW id \in 1 .. Len(heap)
        PROVE  /\ heap'[id] = [heap[id] EXCEPT !.elems = heap'[id].elems]
               /\ Keeps(heap[id].elems, heap'[id].elems)
               /\ ~OnFrame(id) => heap'[id] = heap[id] /\ ~OnFrame(id)'
    <2>1. CASE id = Top.obj
      <3>1. Keeps(heap[Top.obj].elems, heap'[Top.obj].elems)
        BY <1>1, ConcatKeeps
      <3> QED BY <1>1, <1>3, <2>1, <3>1
    <2>2. CASE id # Top.obj
      <3>1. heap'[id] = heap[id] /\ heap[id] \in ObjectType
        BY <1>1, <2>2, ElementOfSeq DEF TypeOK
      <3> QED BY <1>4, <3>1, SameObject
    <2> QED BY <2>1, <2>2
  <1>6. Len(heap) <= Len(heap')
    BY <1>1
  <1> QED BY <1>2, <1>5, <1>6 DEF FinalStep

\* Refer gives a reference its number, behind the others
LEMMA ReferKeeps ==
  ASSUME NEW id \in Nat, Refer(id)
  PROVE  refs' = refs \/ \E i \in Nat : refs' = Append(refs, i)
  BY DEF Refer

\* a new object, entered or not
LEMMA FinalMade ==
  ASSUME TypeOK, NEW obj \in ObjectType, Create(obj),
         interns' = interns \/ interns' = Append(interns, NewId),
         \/ frames' = frames
         \/ frames' = Append(frames, [obj |-> NewId, key |-> Null])
  PROVE  FinalStep
  <1>1. /\ Len(heap) \in Nat /\ Len(heap') = Len(heap) + 1 /\ NewId = Len(heap) + 1 /\ NewId \in Nat
        /\ \A id \in 1 .. Len(heap) : heap'[id] = heap[id]
    BY Lengths, CreateFacts DEF NewId
  <1>2. refs' = refs \/ \E i \in Nat : refs' = Append(refs, i)
    BY <1>1, ReferKeeps DEF Create, NewId
  <1>3. Keeps(refs, refs') /\ Keeps(interns, interns')
    BY <1>1, <1>2, TablesKeep
  <1>4. ASSUME NEW i \in 1 .. Len(frames')
        PROVE  frames'[i].obj \notin 1 .. Len(heap) \/ (i \in 1 .. Len(frames) /\ frames'[i].obj = frames[i].obj)
    <2>1. CASE frames' = frames
      BY <2>1
    <2>2. CASE frames' = Append(frames, [obj |-> NewId, key |-> Null])
      <3> DEFINE f == [obj |-> NewId, key |-> Null]
      <3>1. f \in FrameType /\ f.obj = NewId
        BY <1>1 DEF FrameType, Null
      <3> HIDE DEF f
      <3>2. frames \in Seq(FrameType) /\ Len(frames) \in Nat /\ frames' = Append(frames, f)
        BY <2>2, Lengths DEF TypeOK, f
      <3>3. /\ Len(frames') = Len(frames) + 1 /\ frames'[Len(frames) + 1] = f
            /\ \A k \in 1 .. Len(frames) : frames'[k] = frames[k]
        BY <3>1, <3>2, AppendProperties
      <3>4. i = Len(frames) + 1 \/ i \in 1 .. Len(frames)
        BY <3>2, <3>3
      <3>5. frames'[Len(frames) + 1].obj \notin 1 .. Len(heap)
        BY <1>1, <3>1, <3>3
      <3> QED BY <3>3, <3>4, <3>5
    <2> QED BY <2>1, <2>2
  <1>5. Len(heap) <= Len(heap')
    BY <1>1
  <1> QED BY <1>1, <1>3, <1>4, <1>5, FinalElsewhere

\* a step that changes no object and enters none
LEMMA FinalStill ==
  ASSUME TypeOK, heap' = heap, interns' = interns,
         refs' = refs \/ \E i \in Nat : refs' = Append(refs, i),
         Len(frames') \in Nat, Len(frames') <= Len(frames),
         \A i \in 1 .. Len(frames') : frames'[i].obj = frames[i].obj
  PROVE  FinalStep
  <1>1. Keeps(refs, refs') /\ Keeps(interns, interns')
    BY TablesKeep
  <1>2. Len(frames) \in Nat /\ Len(heap) \in Nat
    BY Lengths
  <1>3. \A i \in 1 .. Len(frames') : i \in 1 .. Len(frames)
    BY <1>2
  <1>4. Len(heap) <= Len(heap')
    BY <1>2
  <1> QED BY <1>1, <1>3, <1>4, FinalElsewhere

LEMMA FinalNext ==
  ASSUME FileOK, TypeOK, [Next]_vars
  PROVE  FinalStep
  <1>1. CASE \/ ReadMagic \/ TakeVersion \/ ReadHeader \/ LoseHeader \/ EndOfFile \/ Refuse \/ RefuseNumber
             \/ BadCast \/ Loaded \/ Stay \/ ReadRef \/ ReadNull \/ UNCHANGED vars
    <2>1. UNCHANGED <<heap, frames, refs, interns>>
      BY <1>1 DEF ReadMagic, TakeVersion, ReadHeader, LoseHeader, EndOfFile, Refuse, RefuseNumber, BadCast,
                  Loaded, Stay, ReadRef, ReadNull, vars, Fail
    <2>2. Len(frames) \in Nat /\ Len(frames) <= Len(frames)
      BY Lengths
    <2> QED BY <2>1, <2>2, FinalStill
  <1>2. CASE ReadSingleton
    <2>1. PICK i \in 1 .. 5 : Refer(i)
      BY <1>2 DEF ReadSingleton
    <2>2. UNCHANGED <<heap, frames, interns>> /\ Len(frames) \in Nat /\ Len(frames) <= Len(frames)
      BY <1>2, Lengths DEF ReadSingleton
    <2>3. i \in Nat
      OBVIOUS
    <2> QED BY <2>1, <2>2, <2>3, ReferKeeps, FinalStill
  <1>3. CASE ReadNumber \/ ReadString
    <2>1. /\ Create(Object(Tok.t, Tok.n, 0)) /\ frames' = frames
          /\ interns' = interns \/ interns' = Append(interns, NewId)
      BY <1>3 DEF ReadNumber, ReadString
    <2>2. Object(Tok.t, Tok.n, 0) \in ObjectType
      BY <1>3, HeadFacts, EmptySeq DEF ReadNumber, ReadString, Object, ObjectType, Supported, TokenType
    <2> QED BY <2>1, <2>2, FinalMade
  <1>4. CASE ReadStringRef
    <2> DEFINE str == heap[interns[Tok.n + 1]]
    <2>1. Tok.n + 1 \in 1 .. Len(interns)
      BY <1>4, HeadFacts, Lengths DEF ReadStringRef, TokenType
    <2>2. str \in ObjectType
      BY <2>1, ElementOfSeq DEF TypeOK
    <2>3. Create(Object(str.type, str.n, 0)) /\ UNCHANGED <<frames, interns>>
      BY <1>4 DEF ReadStringRef
    <2> HIDE DEF str
    <2>4. Object(str.type, str.n, 0) \in ObjectType
      BY <2>2, EmptySeq DEF Object, ObjectType
    <2> QED BY <2>3, <2>4, FinalMade
  <1>5. CASE EmptySequence
    <2>1. Object(Tok.t, 0, 0) \in ObjectType
      BY <1>5, EmptySeq DEF EmptySequence, Object, ObjectType, Supported
    <2> QED BY <1>5, <2>1, FinalMade DEF EmptySequence
  <1>6. CASE OpenSequence \/ OpenDict \/ OpenCode
    <2>1. Tok.t \in Supported /\ interns' = interns
      BY <1>6 DEF OpenSequence, OpenDict, OpenCode, Supported
    <2>2. PICK size \in Int : Enter(size)
      <3>1. CASE OpenSequence
        BY <3>1, HeadFacts DEF OpenSequence, TokenType
      <3>2. CASE OpenDict
        BY <3>2 DEF OpenDict
      <3>3. CASE OpenCode
        <4>1. Enter(Len(Fields[ver])) /\ ver \in Versions
          BY <3>3 DEF OpenCode, ReadHead, TypeOK
        <4>2. Len(Fields[ver]) \in Int
          BY <4>1, FieldsFacts
        <4> QED BY <4>1, <4>2
      <3> QED BY <1>6, <3>1, <3>2, <3>3
    <2>3. /\ Object(Tok.t, 0, size) \in ObjectType /\ Create(Object(Tok.t, 0, size))
          /\ frames' = Append(frames, [obj |-> NewId, key |-> Null])
      BY <2>1, <2>2, EnterFacts DEF Enter
    <2> QED BY <2>1, <2>3, FinalMade
  <1>7. CASE TakeElement \/ TakeField
    <2>1. /\ frames # <<>> /\ Give(<<val>>) /\ UNCHANGED <<refs, interns>>
          /\ Leave \/ frames' = frames
      BY <1>7 DEF TakeElement, TakeField, Taking, Kept
    <2>2. <<val>> \in Seq(Int)
      BY Lengths, TupleTypes DEF TypeOK
    <2>3. /\ Len(frames') \in Nat /\ Len(frames') <= Len(frames)
          /\ \A i \in 1 .. Len(frames') : frames'[i].obj = frames[i].obj
      BY <2>1, LeaveFacts, TopFacts
    <2> QED BY <2>1, <2>2, <2>3, FinalGiven
  <1>8. CASE TakeKey
    <2>1. UNCHANGED <<heap, refs, interns>> /\ frames # <<>>
      BY <1>8 DEF TakeKey, Taking, Kept
    <2>2. CASE val = Null
      <3>1. Leave
        BY <1>8, <2>2 DEF TakeKey
      <3>2. /\ Len(frames') \in Nat /\ Len(frames') <= Len(frames)
            /\ \A i \in 1 .. Len(frames') : frames'[i].obj = frames[i].obj
        BY <2>1, <3>1, LeaveFacts, TopFacts
      <3> QED BY <2>1, <3>2, FinalStill
    <2>3. CASE val # Null
      <3>1. frames' = [frames EXCEPT ![Len(frames)].key = val] /\ val \in 0 .. Len(heap)
        BY <1>8, <2>3 DEF TakeKey, TypeOK
      <3>2. /\ Len(frames') = Len(frames) /\ Len(frames) \in Nat
            /\ \A i \in 1 .. Len(frames) : frames'[i].obj = frames[i].obj
        BY <2>1, <3>1, KeyFacts, Lengths
      <3>3. Len(frames') <= Len(frames)
        BY <3>2
      <3> QED BY <2>1, <3>2, <3>3, FinalStill
    <2> QED BY <2>2, <2>3
  <1>9. CASE TakeValue
    <2>1. /\ frames # <<>> /\ Give(<<Top.key, val>>) /\ UNCHANGED <<refs, interns>>
          /\ frames' = [frames EXCEPT ![Len(frames)].key = Null]
      BY <1>9 DEF TakeValue, Taking, Kept
    <2>2. Top.key \in Int /\ val \in Int /\ Null \in 0 .. Len(heap)
      BY <2>1, TopFacts, Lengths DEF TypeOK, Null
    <2>3. <<Top.key, val>> \in Seq(Int)
      BY <2>2, TupleTypes
    <2>4. /\ Len(frames') = Len(frames) /\ Len(frames) \in Nat
          /\ \A i \in 1 .. Len(frames) : frames'[i].obj = frames[i].obj
      BY <2>1, <2>2, KeyFacts, Lengths
    <2>5. Len(frames') <= Len(frames)
      BY <2>4
    <2> QED BY <2>1, <2>3, <2>4, <2>5, FinalGiven
  <1>10. CASE TakeNumber
    <2> DEFINE n == IF NextField.name = "flags" THEN Remapped(ver, Tok.n) ELSE Tok.n
    <2>1. /\ frames # <<>> /\ Give(<<n>>) /\ ver \in Versions /\ ~AtEof
          /\ UNCHANGED <<frames, refs, interns>>
      BY <1>10 DEF TakeNumber, WantsNumber, InCode, TypeOK
    <2>2. n \in Int
      BY <2>1, TokFacts DEF TokenType, Remapped
    <2> HIDE DEF n
    <2>3. <<n>> \in Seq(Int)
      BY <2>2, TupleTypes
    <2>4. Len(frames') \in Nat /\ Len(frames') <= Len(frames)
      BY <2>1, Lengths
    <2> QED BY <2>1, <2>3, <2>4, FinalGiven
  <1> QED
    BY <1>1, <1>2, <1>3, <1>4, <1>5, <1>6, <1>7, <1>8, <1>9, <1>10 DEF Next

\* Whatever the files: once PycSequence::load, PycDict::load or
\* PycCode::load has returned, the object stays as it is and is not loaded
\* again, and m_refs and m_interns only grow.
THEOREM LoadedStays == Spec => LoadedIsFinal
  <1>1. Init => FileOK /\ TypeOK
    BY TypeInit
  <1>2. FileOK /\ TypeOK /\ [Next]_vars => (FileOK /\ TypeOK)'
    BY FileStep, TypeStep
  <1>3. FileOK /\ TypeOK /\ [Next]_vars =>
          [/\ Keeps(refs, refs') /\ Keeps(interns, interns') /\ Len(heap) <= Len(heap')
           /\ \A id \in 1 .. Len(heap) :
                /\ heap'[id] = [heap[id] EXCEPT !.elems = heap'[id].elems]
                /\ Keeps(heap[id].elems, heap'[id].elems)
                /\ ~OnFrame(id) => heap'[id] = heap[id] /\ ~OnFrame(id)']_vars
    BY FinalNext DEF FinalStep
  <1> QED BY <1>1, <1>2, <1>3, PTL DEF Spec, LoadedIsFinal

-----------------------------------------------------------------------------
(* Reading ends.  A step reads tokens, or it leaves a load() or goes on     *)
(* from a value to the next object, or it stops.                            *)

Stage == IF Stopped THEN 0 ELSE IF pc = "object" THEN 1 ELSE 2

LEMMA RemainingIs ==
  ASSUME FileOK, TypeOK
  PROVE  /\ Remaining = 2 * (Len(file.tokens) - pos) + Len(frames) + Stage
         /\ Len(file.tokens) \in Nat /\ pos \in 0 .. Len(file.tokens)
         /\ Len(frames) \in Nat /\ Stage \in 0 .. 2
  <1>1. file.tokens \in Seq(TokenType)
    BY FilesAssumption DEF FileOK, TokenType
  <1> QED BY <1>1, LenProperties, Lengths DEF TypeOK, Remaining, Stage

LEMMA RemainingIsNext ==
  ASSUME FileOK', TypeOK'
  PROVE  /\ Remaining' = 2 * (Len(file'.tokens) - pos') + Len(frames') + Stage'
         /\ Len(file'.tokens) \in Nat /\ pos' \in 0 .. Len(file'.tokens)
         /\ Len(frames') \in Nat /\ Stage' \in 0 .. 2
  <1>1. file'.tokens \in Seq(TokenType)
    BY FilesAssumption DEF FileOK, TokenType
  <1>2. Len(frames') \in Nat
    BY LenProperties DEF TypeOK
  <1> QED BY <1>1, <1>2, LenProperties DEF TypeOK, Remaining, Stage

\* tokens are read
LEMMA NearerByReading ==
  ASSUME FileOK, TypeOK, FileOK', TypeOK', file' = file, pos < pos',
         Len(frames') + Stage' <= Len(frames) + Stage + 1
  PROVE  Remaining' < Remaining
  <1>1. /\ Remaining' = 2 * (Len(file.tokens) - pos') + Len(frames') + Stage'
        /\ Remaining = 2 * (Len(file.tokens) - pos) + Len(frames) + Stage
        /\ Len(file.tokens) \in Int /\ pos \in Int /\ pos' \in Int
        /\ Len(frames) \in Int /\ Len(frames') \in Int /\ Stage \in Int /\ Stage' \in Int
    BY RemainingIs, RemainingIsNext
  <1>2. \A n, p, q, f, g, a, c \in Int :
          p < q /\ g + c <= f + a + 1 => 2 * (n - q) + g + c < 2 * (n - p) + f + a
    BY SMT
  <1> QED BY <1>1, <1>2

\* none is read
LEMMA NearerByReturning ==
  ASSUME FileOK, TypeOK, FileOK', TypeOK', UNCHANGED <<file, pos>>,
         Len(frames') + Stage' < Len(frames) + Stage
  PROVE  Remaining' < Remaining
  <1>1. /\ Remaining' = 2 * (Len(file.tokens) - pos) + Len(frames') + Stage'
        /\ Remaining = 2 * (Len(file.tokens) - pos) + Len(frames) + Stage
        /\ Len(file.tokens) \in Int /\ pos \in Int
        /\ Len(frames) \in Int /\ Len(frames') \in Int /\ Stage \in Int /\ Stage' \in Int
    BY RemainingIs, RemainingIsNext
  <1> QED BY <1>1

LEMMA Stages ==
  /\ pc = "object" => Stage = 1
  /\ pc \in {"open", "header", "value"} => Stage = 2
  /\ pc \in {"done", "invalid"} \cup Faults => Stage = 0
  BY DEF Stage, Stopped, Faults

LEMMA StagesNext ==
  /\ pc' = "object" => Stage' = 1
  /\ pc' \in {"open", "header", "value"} => Stage' = 2
  /\ pc' \in {"done", "invalid"} \cup Faults => Stage' = 0
  BY DEF Stage, Stopped, Faults

LEMMA NearerNext ==
  ASSUME FileOK, TypeOK, FileOK', TypeOK', Next
  PROVE  Remaining' < Remaining \/ UNCHANGED vars
  <1>1. Len(frames) \in Nat /\ Len(frames') \in Nat /\ pos \in Int /\ ver \in Int
    BY RemainingIs, RemainingIsNext, Lengths DEF TypeOK
  <1>2. CASE ReadMagic
    <2>1. /\ file' = file /\ pos < pos' /\ frames' = frames
          /\ pc = "open" /\ pc' \in {"header", "invalid"}
      BY <1>1, <1>2 DEF ReadMagic
    <2> QED BY <1>1, <2>1, Stages, StagesNext, NearerByReading
  <1>3. CASE TakeVersion
    <2>1. UNCHANGED <<file, pos, frames>> /\ pc = "open" /\ pc' \in {"object", "invalid"}
      BY <1>3 DEF TakeVersion
    <2> QED BY <1>1, <2>1, Stages, StagesNext, NearerByReturning
  <1>4. CASE ReadHeader
    <2>1. /\ file' = file /\ pos' = pos + HeaderWords(ver) /\ frames' = frames
          /\ pc = "header" /\ pc' = "object"
      BY <1>4 DEF ReadHeader
    <2>2. HeaderWords(ver) \in 1 .. 3
      BY <1>1 DEF HeaderWords
    <2>3. pos < pos'
      BY <1>1, <2>1, <2>2
    <2> QED BY <1>1, <2>1, <2>3, Stages, StagesNext, NearerByReading
  <1>5. CASE LoseHeader \/ EndOfFile \/ Refuse \/ RefuseNumber \/ BadCast
    <2>1. PICK fault \in Faults : Fail(fault)
      BY <1>5 DEF LoseHeader, EndOfFile, Refuse, RefuseNumber, BadCast, Faults
    <2>2. pc \in {"open", "header", "object", "value"}
      BY <1>5 DEF LoseHeader, EndOfFile, Refuse, RefuseNumber, BadCast, Taking
    <2>3. UNCHANGED <<file, pos, frames>> /\ pc' \in Faults
      BY <2>1 DEF Fail
    <2> QED BY <1>1, <2>2, <2>3, Stages, StagesNext, NearerByReturning
  <1>6. CASE ReadRef \/ ReadNull \/ ReadSingleton \/ ReadNumber \/ ReadString \/ ReadStringRef \/ EmptySequence
    <2>1. ReadHead /\ Unread /\ frames' = frames /\ pc' = "value"
      BY <1>6 DEF ReadRef, ReadNull, ReadSingleton, ReadNumber, ReadString, ReadStringRef, EmptySequence, Return
    <2>2. file' = file /\ pos < pos' /\ pc = "object"
      BY <1>1, <2>1 DEF ReadHead, Unread
    <2> QED BY <1>1, <2>1, <2>2, Stages, StagesNext, NearerByReading
  <1>7. CASE OpenSequence \/ OpenDict \/ OpenCode
    <2>1. /\ ReadHead /\ Unread /\ pc' = "object"
          /\ frames' = Append(frames, [obj |-> NewId, key |-> Null])
      BY <1>7 DEF OpenSequence, OpenDict, OpenCode, Enter
    <2>2. file' = file /\ pos < pos' /\ pc = "object"
      BY <1>1, <2>1 DEF ReadHead, Unread
    <2>3. Len(frames') = Len(frames) + 1
      <3>1. frames \in Seq(FrameType) /\ [obj |-> NewId, key |-> Null] \in FrameType
        BY Lengths DEF TypeOK, FrameType, NewId, Null
      <3> QED BY <2>1, <3>1, AppendProperties
    <2> QED BY <1>1, <2>1, <2>2, <2>3, Stages, StagesNext, NearerByReading
  <1>8. CASE TakeElement \/ TakeKey \/ TakeField
    <2>1. /\ UNCHANGED <<file, pos>> /\ pc = "value" /\ frames # <<>>
          /\ \/ Leave /\ pc' = "value"
             \/ frames' = frames /\ pc' = "object"
             \/ frames' = [frames EXCEPT ![Len(frames)].key = val] /\ pc' = "object"
      BY <1>8 DEF TakeElement, TakeKey, TakeField, Taking, Return, Kept
    <2>2. CASE Leave /\ pc' = "value"
      <3>1. Len(frames') = Len(frames) - 1
        BY <2>1, <2>2, LeaveFacts
      <3> QED BY <1>1, <2>1, <2>2, <3>1, Stages, StagesNext, NearerByReturning
    <2>3. CASE frames' = frames /\ pc' = "object"
      BY <1>1, <2>1, <2>3, Stages, StagesNext, NearerByReturning
    <2>4. CASE frames' = [frames EXCEPT ![Len(frames)].key = val] /\ pc' = "object"
      <3>1. Len(frames') = Len(frames)
        BY <2>1, <2>4, KeyFacts DEF TypeOK
      <3> QED BY <1>1, <2>1, <2>4, <3>1, Stages, StagesNext, NearerByReturning
    <2> QED BY <2>1, <2>2, <2>3, <2>4
  <1>9. CASE TakeValue
    <2>1. /\ UNCHANGED <<file, pos>> /\ pc = "value" /\ pc' = "object" /\ frames # <<>>
          /\ frames' = [frames EXCEPT ![Len(frames)].key = Null]
      BY <1>9 DEF TakeValue, Taking, Kept
    <2>2. Null \in 0 .. Len(heap)
      BY Lengths DEF Null
    <2>3. Len(frames') = Len(frames)
      BY <2>1, <2>2, KeyFacts
    <2> QED BY <1>1, <2>1, <2>3, Stages, StagesNext, NearerByReturning
  <1>10. CASE TakeNumber
    <2>1. file' = file /\ pos < pos' /\ UNCHANGED <<frames, pc>> /\ pc = "object"
      BY <1>1, <1>10 DEF TakeNumber
    <2> QED BY <1>1, <2>1, Stages, StagesNext, NearerByReading
  <1>11. CASE Loaded
    <2>1. UNCHANGED <<file, pos, frames>> /\ pc = "value" /\ pc' = "done"
      BY <1>11 DEF Loaded
    <2> QED BY <1>1, <2>1, Stages, StagesNext, NearerByReturning
  <1>12. CASE Stay
    BY <1>12 DEF Stay
  <1> QED
    BY <1>2, <1>3, <1>4, <1>5, <1>6, <1>7, <1>8, <1>9, <1>10, <1>11, <1>12 DEF Next

\* Whatever the files, LoadObject and the loops of the load()s come to an
\* end: what Remaining counts is a natural number that every step lowers,
\* and is twice the tokens of the file and two when reading starts.
THEOREM LoadingEnds ==
  Spec => /\ Advances
          /\ [](Remaining \in Nat)
          /\ Remaining = 2 * Len(file.tokens) + 2
  <1>1. Init => FileOK /\ TypeOK
    BY TypeInit
  <1>2. FileOK /\ TypeOK /\ [Next]_vars => (FileOK /\ TypeOK)'
    BY FileStep, TypeStep
  <1>3. FileOK /\ TypeOK /\ (FileOK /\ TypeOK)' /\ [Next]_vars => [Remaining' < Remaining]_vars
    BY NearerNext
  <1>4. FileOK /\ TypeOK => Remaining \in Nat
    <2> SUFFICES ASSUME FileOK, TypeOK PROVE Remaining \in Nat
      OBVIOUS
    <2>1. /\ Remaining = 2 * (Len(file.tokens) - pos) + Len(frames) + Stage
          /\ Len(file.tokens) \in Nat /\ pos \in 0 .. Len(file.tokens)
          /\ Len(frames) \in Nat /\ Stage \in 0 .. 2
      BY RemainingIs
    <2>2. \A n, f, a \in Nat : \A p \in 0 .. n : 2 * (n - p) + f + a \in Nat
      BY SMT
    <2> QED BY <2>1, <2>2
  <1>5. Init => Remaining = 2 * Len(file.tokens) + 2
    <2> SUFFICES ASSUME Init PROVE Remaining = 2 * Len(file.tokens) + 2
      OBVIOUS
    <2>1. pos = 0 /\ Len(frames) = 0 /\ Stage = 2
      BY Stages, EmptySeq DEF Init
    <2> QED BY <1>1, <2>1, RemainingIs
  <1> QED BY <1>1, <1>2, <1>3, <1>4, <1>5, PTL DEF Spec, Advances
=============================================================================
