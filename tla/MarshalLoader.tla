---------------------------- MODULE MarshalLoader ----------------------------
(***************************************************************************)
(* How pycdc reads a compiled file: loadFromFile and loadFromMarshalled-   *)
(* File (pyc_module.cpp) find the Python version, then LoadObject          *)
(* (pyc_object.cpp) reads one object and, through the load() of its class, *)
(* the objects in it.  The recursion of the code is the sequence frames:   *)
(* one frame for each container or code object whose load() has not        *)
(* returned.                                                               *)
(*                                                                         *)
(* A file is a sequence of tokens.  A token is either the head of an       *)
(* object, [t, flag, n]: its type byte without and with the 0x80 bit, and  *)
(* the data before its members (a length, an index, a value), or a number, *)
(* [t |-> "short" or "word", ...], as get16() or get32() reads it.  A      *)
(* number read where an object stands, or the other way round, is the      *)
(* fault "outofstep": what the code makes of such bytes is not described,  *)
(* only that it has lost its place.  An object cut short at the end of the *)
(* file is left out of it: the code exits before it or in it.              *)
(* A text is a number; a negative one is a length that get32() makes       *)
(* negative, and those of NonAscii have bytes above 0x7F.                  *)
(***************************************************************************)
EXTENDS Integers, Sequences

CONSTANT Files   \* [raw : BOOLEAN, ver : Int, tokens : Seq([t, flag, n])]

ASSUME FilesAssumption ==
  \A f \in Files : f.raw \in BOOLEAN /\ f.ver \in Int
                     /\ f.tokens \in Seq([t : STRING, flag : BOOLEAN, n : Int])

VARIABLES file,         \* the file being read; raw: no header, ver from the user
          pos,          \* tokens read
          ver,          \* 100 * m_maj + m_min, 0 while there is none
          m_unicode,    \* unicode strings by default
          heap,         \* the objects made, named by their index
          frames,       \* the load() calls under way, outermost first
          refs,         \* m_refs
          interns,      \* m_interns
          val,          \* what the last LoadObject returned
          m_code,       \* the module's code object
          pc            \* open, header, object, value, done, invalid or a fault

vars == <<file, pos, ver, m_unicode, heap, frames, refs, interns, val, m_code, pc>>

Null == 0
NonAscii == 900 .. 999
Versions == 100 .. 106 \cup 200 .. 207 \cup 300 .. 314
Faults == {"exit", "bad_alloc", "length_error", "out_of_range", "bad_cast", "runtime_error", "outofstep"}

-----------------------------------------------------------------------------
(* Types and classes *)

Singletons == <<"NONE", "FALSE", "TRUE", "STOPITER", "ELLIPSIS">>
IntegerTypes == {"INT", "INT64", "LONG"}
FloatTypes == {"FLOAT", "BINARY_FLOAT", "COMPLEX", "BINARY_COMPLEX"}
Numbers    == IntegerTypes \cup FloatTypes
AsciiText  == {"ASCII", "ASCII_INTERNED", "SHORT_ASCII", "SHORT_ASCII_INTERNED"}
Interned   == {"INTERNED", "ASCII_INTERNED", "SHORT_ASCII_INTERNED"}
StringTypes == {"STRING", "INTERNED", "UNICODE"} \cup AsciiText
SequenceTypes == {"TUPLE", "SMALL_TUPLE", "LIST", "SET", "FROZENSET"}
CodeTypes  == {"CODE", "CODE2"}
SingletonTypes == {Singletons[i] : i \in 1 .. 5}
Supported  == SingletonTypes \cup Numbers \cup StringTypes \cup SequenceTypes \cup CodeTypes
                \cup {"STRINGREF", "DICT"}

\* number tokens are [t |-> "short" or "word", flag |-> FALSE, n |-> value]
IsNumber(tok) == tok.t \in {"short", "word"}

\* what cast<PycString>, cast<PycSequence> and cast<PycCode> accept
Class(kind) == CASE kind = "string"   -> StringTypes
                 [] kind = "sequence" -> SequenceTypes
                 [] kind = "code"     -> CodeTypes

\* an object: type, value, the members it is to have and those it has
Object(type, n, size) == [type |-> type, n |-> n, size |-> size, elems |-> <<>>]

IsA(id, kind) == id # Null /\ heap[id].type \in Class(kind)

-----------------------------------------------------------------------------
(* The fields of a code object, in the order they are read *)

When(c, s) == IF c THEN s ELSE <<>>
Str(name)  == [name |-> name, kind |-> "string"]
Tup(name)  == [name |-> name, kind |-> "sequence"]
NumShortIn23(v, name) == [name |-> name, kind |-> IF v =< 203 THEN "short" ELSE "word"]
Num(v, name) == [name |-> name, kind |-> IF v < 203 THEN "short" ELSE "word"]

Layout(v) ==
     When(v >= 103, <<Num(v, "argCount")>>)
  \o When(v >= 308, <<Num(v, "posOnlyArgCount")>>)
  \o When(v >= 300, <<Num(v, "kwOnlyArgCount")>>)
  \o When(v >= 103 /\ v < 311, <<Num(v, "numLocals")>>)
  \o When(v >= 105, <<Num(v, "stackSize")>>)
  \o When(v >= 103, <<Num(v, "flags")>>)
  \o <<Str("code"), Tup("consts"), Tup("names")>>
  \o When(v >= 103, <<Tup("localNames")>>)
  \o When(v >= 311, <<Str("localKinds")>>)
  \o When(v >= 201 /\ v < 311, <<Tup("freeVars"), Tup("cellVars")>>)
  \o <<Str("fileName"), Str("name")>>
  \o When(v >= 311, <<Str("qualName")>>)
  \o When(v >= 105, <<Num(v, "firstLine"), Str("lnTable")>>)
  \o When(v >= 311, <<Str("exceptTable")>>)

\* the same as a function, so that it is computed once
Fields == [v \in Versions |-> Layout(v)]

\* the flags as they are numbered from 3.8 on; up to 3.7 the four highest
\* bits must be clear and the future flags move up by four
FlagsRefused(v, n) == v < 308 /\ n \notin 0 .. 2^28 - 1
Remapped(v, n) == IF v < 308 THEN (n % 2^16) + ((n \div 2^16) % 2^12) * 2^20 ELSE n

-----------------------------------------------------------------------------
(* The file and its version *)

Init ==
  /\ file \in Files
  /\ pos = 0 /\ ver = 0 /\ m_unicode = FALSE
  /\ heap = [i \in 1 .. 5 |-> Object(Singletons[i], 0, 0)]
  /\ frames = <<>> /\ refs = <<>> /\ interns = <<>>
  /\ val = Null /\ m_code = Null
  /\ pc = "open"

AtEof == pos = Len(file.tokens)
Tok == file.tokens[pos + 1]

Fail(fault) ==
  /\ pc' = fault
  /\ UNCHANGED <<file, pos, ver, m_unicode, heap, frames, refs, interns, val, m_code>>

\* A magic number is written 10 * version, plus 1 for the unicode builds of
\* 1.6 to 2.7, for 3.0 and 3.1, which always add it, and for 3.5.3.
MagicVersion(magic) == magic \div 10
UnicodeBuild(magic) == magic % 10 = 1
KnownMagic(magic) ==
  /\ MagicVersion(magic) \in Versions \ {102}     \* 1.2 has 1.1's
  /\ IF UnicodeBuild(magic)
       THEN MagicVersion(magic) \in 106 .. 207 \cup {300, 301, 305}
       ELSE magic % 10 = 0 /\ MagicVersion(magic) \notin {300, 301}

\* in.get32() and setVersion()
ReadMagic ==
  /\ pc = "open" /\ ~file.raw /\ ~AtEof /\ Tok.t = "word"
  /\ pos' = pos + 1
  /\ IF KnownMagic(Tok.n)
       THEN /\ ver' = MagicVersion(Tok.n)
            /\ m_unicode' = (UnicodeBuild(Tok.n) \/ MagicVersion(Tok.n) >= 300)
            /\ pc' = "header"
       ELSE pc' = "invalid" /\ UNCHANGED <<ver, m_unicode>>
  /\ UNCHANGED <<file, heap, frames, refs, interns, val, m_code>>

TakeVersionUnchecked ==
  /\ pc = "open" /\ file.raw
  /\ ver' = file.ver /\ m_unicode' = (file.ver >= 300) /\ pc' = "object"
  /\ UNCHANGED <<file, pos, heap, frames, refs, interns, val, m_code>>

\* the version given on the command line
TakeVersion ==
  /\ pc = "open" /\ file.raw
  /\ IF file.ver \in Versions     \* isSupportedVersion
       THEN ver' = file.ver /\ m_unicode' = (file.ver >= 300) /\ pc' = "object"
       ELSE pc' = "invalid" /\ UNCHANGED <<ver, m_unicode>>
  /\ UNCHANGED <<file, pos, heap, frames, refs, interns, val, m_code>>

\* timestamp, size from 3.3 on, and flags from 3.7 on, which say that a
\* checksum of the same length stands for timestamp and size
HeaderWords(v) == IF v >= 307 THEN 3 ELSE IF v >= 303 THEN 2 ELSE 1

ReadHeader ==
  /\ pc = "header"
  /\ pos + HeaderWords(ver) =< Len(file.tokens)
  /\ \A i \in 1 .. HeaderWords(ver) : file.tokens[pos + i].t = "word"
  /\ pos' = pos + HeaderWords(ver)
  /\ pc' = "object"
  /\ UNCHANGED <<file, ver, m_unicode, heap, frames, refs, interns, val, m_code>>

LoseHeader ==
  /\ \/ pc = "open" /\ ~file.raw /\ ~AtEof /\ Tok.t # "word"
     \/ /\ pc = "header" /\ pos + HeaderWords(ver) =< Len(file.tokens)
        /\ \E i \in 1 .. HeaderWords(ver) : file.tokens[pos + i].t # "word"
  /\ Fail("outofstep")

\* mutant: getByte() returns EOF, which CreateObject does not know
EndReadsNull ==
  \/ /\ \/ pc = "open" /\ ~file.raw /\ AtEof
        \/ pc = "header" /\ pos + HeaderWords(ver) > Len(file.tokens)
     /\ Fail("exit")
  \/ /\ pc = "object" /\ AtEof
     /\ val' = Null /\ pc' = "value"
     /\ UNCHANGED <<file, pos, ver, m_unicode, heap, frames, refs, interns, m_code>>

\* getByte() at the end of the file
EndOfFile ==
  /\ \/ pc = "open" /\ ~file.raw /\ AtEof
     \/ pc = "header" /\ pos + HeaderWords(ver) > Len(file.tokens)
     \/ pc = "object" /\ AtEof
  /\ Fail("exit")

-----------------------------------------------------------------------------
(* LoadObject *)

Top == frames[Len(frames)]
InCode == frames # <<>> /\ heap[Top.obj].type \in CodeTypes
NextField == Fields[ver][Len(heap[Top.obj].elems) + 1]
WantsNumber == InCode /\ NextField.kind \in {"short", "word"}

\* LoadObject has read the head of an object
ReadHead == pc = "object" /\ ~AtEof /\ ~WantsNumber /\ pos' = pos + 1
Unread == UNCHANGED <<file, ver, m_unicode, m_code>>

\* LoadObject returns v
Return(v) == val' = v /\ pc' = "value"

\* refObject, before load(), of the object at id
Refer(id) == refs' = IF Tok.flag THEN Append(refs, id) ELSE refs

\* CreateObject of a class of its own
Create(obj) == heap' = Append(heap, obj) /\ Refer(Len(heap) + 1)
NewId == Len(heap) + 1

\* type == TYPE_OBREF is asked of the whole byte: with the flag it is a
\* type CreateObject does not know
IsRef == Tok.t = "OBREF" /\ ~Tok.flag
IsNull == ~IsNumber(Tok) /\ ~IsRef /\ Tok.t \notin Supported

\* mutant: load() is called for what getRef returns, too
ReadRefLoads ==
  /\ ReadHead /\ IsRef /\ Tok.n \in 0 .. Len(refs) - 1
  /\ LET id == refs[Tok.n + 1]
     IN  IF heap[id].type \in SequenceTypes \cup CodeTypes
         THEN frames' = Append(frames, [obj |-> id, key |-> Null]) /\ pc' = "object" /\ UNCHANGED val
         ELSE Return(id) /\ UNCHANGED frames
  /\ Unread /\ UNCHANGED <<heap, refs, interns>>

ReadRef ==
  /\ ReadHead /\ IsRef /\ Tok.n \in 0 .. Len(refs) - 1
  /\ Return(refs[Tok.n + 1])
  /\ Unread /\ UNCHANGED <<heap, frames, refs, interns>>

\* TYPE_NULL and the types CreateObject does not know, flagged or not
ReadNull ==
  /\ ReadHead /\ IsNull
  /\ Return(Null)
  /\ Unread /\ UNCHANGED <<heap, frames, refs, interns>>

ReadSingleton ==
  /\ ReadHead
  /\ \E i \in 1 .. 5 : Singletons[i] = Tok.t /\ Refer(i) /\ Return(i)
  /\ Unread /\ UNCHANGED <<heap, frames, interns>>

ReadNumber ==
  /\ ReadHead /\ Tok.t \in Numbers
  /\ Create(Object(Tok.t, Tok.n, 0)) /\ Return(NewId)
  /\ Unread /\ UNCHANGED <<frames, interns>>

\* PycString::load
GoodText == Tok.n >= 0 /\ ~(Tok.t \in AsciiText /\ Tok.n \in NonAscii)

ReadString ==
  /\ ReadHead /\ Tok.t \in StringTypes /\ GoodText
  /\ Create(Object(Tok.t, Tok.n, 0)) /\ Return(NewId)
  /\ interns' = IF Tok.t \in Interned THEN Append(interns, NewId) ELSE interns
  /\ Unread /\ UNCHANGED frames

ReadStringRefInterned ==
  /\ ReadHead /\ Tok.t = "STRINGREF" /\ Tok.n \in 0 .. Len(interns) - 1
  /\ LET str == heap[interns[Tok.n + 1]] IN Create(Object(str.type, str.n, 0))
  /\ Return(NewId)
  /\ interns' = Append(interns, NewId)
  /\ Unread /\ UNCHANGED frames

\* a new string with the type and the text of the interned one
ReadStringRef ==
  /\ ReadHead /\ Tok.t = "STRINGREF" /\ Tok.n \in 0 .. Len(interns) - 1
  /\ LET str == heap[interns[Tok.n + 1]] IN Create(Object(str.type, str.n, 0))
  /\ Return(NewId)
  /\ Unread /\ UNCHANGED <<frames, interns>>

\* load() of a container starts; dictionaries have no size
Enter(size) ==
  /\ Create(Object(Tok.t, 0, size))
  /\ frames' = Append(frames, [obj |-> NewId, key |-> Null])

OpenSequence ==
  /\ ReadHead /\ Tok.t \in SequenceTypes /\ Tok.n > 0
  /\ Enter(Tok.n) /\ pc' = "object"
  /\ Unread /\ UNCHANGED <<interns, val>>

EmptySequence ==
  /\ ReadHead /\ Tok.t \in SequenceTypes /\ Tok.n = 0
  /\ Create(Object(Tok.t, 0, 0)) /\ Return(NewId)
  /\ Unread /\ UNCHANGED <<frames, interns>>

OpenDict ==
  /\ ReadHead /\ Tok.t = "DICT"
  /\ Enter(0) /\ pc' = "object"
  /\ Unread /\ UNCHANGED <<interns, val>>

OpenCode ==
  /\ ReadHead /\ Tok.t \in CodeTypes
  /\ Enter(Len(Fields[ver])) /\ pc' = "object"
  /\ Unread /\ UNCHANGED <<interns, val>>

\* the exceptions of getRef, getIntern, the strings and the vectors
Refuse ==
  /\ pc = "object" /\ ~AtEof /\ ~WantsNumber
  /\ \/ /\ \/ IsRef /\ Tok.n \notin 0 .. Len(refs) - 1
           \/ Tok.t = "STRINGREF" /\ Tok.n \notin 0 .. Len(interns) - 1
        /\ Fail("out_of_range")
     \/ Tok.t \in StringTypes /\ Tok.n < 0 /\ Fail("bad_alloc")
     \/ Tok.t \in AsciiText /\ Tok.n \in NonAscii /\ Fail("runtime_error")
     \/ Tok.t \in SequenceTypes /\ Tok.n < 0 /\ Fail("length_error")
     \/ IsNumber(Tok) /\ Fail("outofstep")

-----------------------------------------------------------------------------
(* The load() under way takes what LoadObject returned *)

\* the frames when the object of the innermost one has what it needs
Give(elems) == heap' = [heap EXCEPT ![Top.obj].elems = @ \o elems]
Leave == frames' = SubSeq(frames, 1, Len(frames) - 1)
Kept == UNCHANGED <<file, pos, ver, m_unicode, refs, interns, m_code>>

Taking(types) == pc = "value" /\ frames # <<>> /\ heap[Top.obj].type \in types
IsLastButOne == Len(heap[Top.obj].elems) + 2 >= heap[Top.obj].size
IsLast == Len(heap[Top.obj].elems) + 1 = heap[Top.obj].size

\* m_values[i] = LoadObject(...), and the end of the loop
TakeElement ==
  /\ Taking(SequenceTypes) /\ Give(<<val>>)
  /\ IF IsLast THEN Leave /\ Return(Top.obj)
               ELSE pc' = "object" /\ UNCHANGED <<frames, val>>
  /\ Kept

\* a null key ends the dictionary
TakeKey ==
  /\ Taking({"DICT"}) /\ Top.key = Null
  /\ IF val = Null THEN Leave /\ Return(Top.obj)
                   ELSE /\ frames' = [frames EXCEPT ![Len(frames)].key = val]
                        /\ pc' = "object" /\ UNCHANGED val
  /\ UNCHANGED heap /\ Kept

TakeValue ==
  /\ Taking({"DICT"}) /\ Top.key # Null
  /\ Give(<<Top.key, val>>)
  /\ frames' = [frames EXCEPT ![Len(frames)].key = Null]
  /\ pc' = "object"
  /\ UNCHANGED val /\ Kept

\* m_argCount = stream->get16() and the other numbers
TakeNumber ==
  /\ pc = "object" /\ ~AtEof /\ WantsNumber /\ Tok.t = NextField.kind
  /\ ~(NextField.name = "flags" /\ FlagsRefused(ver, Tok.n))
  /\ Give(<<IF NextField.name = "flags" THEN Remapped(ver, Tok.n) ELSE Tok.n>>)
  /\ pos' = pos + 1
  /\ UNCHANGED <<file, ver, m_unicode, frames, refs, interns, val, m_code, pc>>

RefuseNumber ==
  /\ pc = "object" /\ ~AtEof /\ WantsNumber
  /\ IF Tok.t # NextField.kind THEN Fail("outofstep")
       ELSE NextField.name = "flags" /\ FlagsRefused(ver, Tok.n) /\ Fail("runtime_error")

TakeFieldUncast ==
  /\ Taking(CodeTypes) /\ val # Null
  /\ Give(<<val>>)
  /\ IF IsLast THEN Leave /\ Return(Top.obj)
               ELSE pc' = "object" /\ UNCHANGED <<frames, val>>
  /\ Kept

\* LoadObject(stream, mod).cast<PycString>() and cast<PycSequence>()
TakeField ==
  /\ Taking(CodeTypes) /\ IsA(val, NextField.kind)
  /\ Give(<<val>>)
  /\ IF IsLast THEN Leave /\ Return(Top.obj)
               ELSE pc' = "object" /\ UNCHANGED <<frames, val>>
  /\ Kept

\* m_code = LoadObject(...).cast<PycCode>() of the two entry points
Loaded ==
  /\ pc = "value" /\ frames = <<>> /\ IsA(val, "code")
  /\ m_code' = val /\ pc' = "done"
  /\ UNCHANGED <<file, pos, ver, m_unicode, heap, frames, refs, interns, val>>

BadCast ==
  /\ \/ Taking(CodeTypes) /\ ~IsA(val, NextField.kind)
     \/ pc = "value" /\ frames = <<>> /\ ~IsA(val, "code")
  /\ Fail("bad_cast")

-----------------------------------------------------------------------------
Stopped == pc \in {"done", "invalid"} \cup Faults
Stay == Stopped /\ UNCHANGED vars

Next ==
  \/ ReadMagic \/ TakeVersion \/ ReadHeader \/ LoseHeader \/ EndOfFile
  \/ ReadRef \/ ReadNull \/ ReadSingleton \/ ReadNumber \/ ReadString \/ ReadStringRef
  \/ OpenSequence \/ EmptySequence \/ OpenDict \/ OpenCode \/ Refuse
  \/ TakeElement \/ TakeKey \/ TakeValue \/ TakeNumber \/ RefuseNumber \/ TakeField
  \/ Loaded \/ BadCast
  \/ Stay

Spec == Init /\ [][Next]_vars

-----------------------------------------------------------------------------
(* Properties *)

ObjectType == [type : Supported, n : Int, size : Int, elems : Seq(Int)]
FrameType  == [obj : Nat, key : Nat]

\* Every name the loader keeps is the name of an object it has made, and
\* what it reads by version is read with one.
TypeOK ==
  /\ pos \in 0 .. Len(file.tokens)
  /\ pc \in {"open", "header", "object", "value", "done", "invalid"} \cup Faults
  /\ ver \in Int /\ m_unicode \in BOOLEAN
  /\ pc \in {"header", "object", "value", "done"} => ver \in Versions
  /\ heap \in Seq(ObjectType) /\ Len(heap) >= 5
  /\ frames \in Seq(FrameType)
  /\ \A i \in 1 .. Len(frames) : frames[i].obj \in 1 .. Len(heap) /\ frames[i].key \in 0 .. Len(heap)
  /\ refs \in Seq(Nat) /\ \A i \in 1 .. Len(refs) : refs[i] \in 1 .. Len(heap)
  /\ interns \in Seq(Nat) /\ \A i \in 1 .. Len(interns) : interns[i] \in 1 .. Len(heap)
  /\ val \in 0 .. Len(heap) /\ m_code \in 0 .. Len(heap)

IsFull(id) == Len(heap[id].elems) = heap[id].size
Growing(id) == heap[id].type \in SequenceTypes \cup CodeTypes
OnFrame(id) == \E i \in 1 .. Len(frames) : frames[i].obj = id

\* Whatever the file, a tuple, list, set or code object that lacks members
\* is one whose load() has not returned, and no load() runs twice on one
\* object: when the module has its code object, nothing in memory is half
\* loaded, not even what a reference reached while it was being filled.
HalfLoadedIsOnFrame ==
  /\ \A id \in 1 .. Len(heap) : Growing(id) => (IsFull(id) <=> ~OnFrame(id))
  /\ \A i, j \in 1 .. Len(frames) : frames[i].obj = frames[j].obj => i = j
  /\ pc \in {"done", "invalid"} => frames = <<>>

\* Whatever the file, the fields of every code object have the classes the
\* decompiler reads them with: strings, sequences, never null.  A string
\* read by reference, an object referred to from inside itself and an
\* unknown type do not get by.
FieldsOfClass ==
  \A id \in 1 .. Len(heap) : heap[id].type \in CodeTypes =>
    \A i \in 1 .. Len(heap[id].elems) :
      Fields[ver][i].kind \in {"string", "sequence"} => IsA(heap[id].elems[i], Fields[ver][i].kind)

\* what was there is still there, at the same places
Keeps(old, new) == Len(old) <= Len(new) /\ \A i \in 1 .. Len(old) : new[i] = old[i]

\* Whatever the file, an object is final when its load() has returned: no
\* later step changes it or starts to load it again, though references
\* reach it from anywhere.  One that is being loaded keeps the type, the
\* size and the members it has, and m_refs and m_interns keep their
\* entries, so that a number means the same object to the end of the file.
LoadedIsFinal ==
  [][/\ Keeps(refs, refs') /\ Keeps(interns, interns') /\ Len(heap) <= Len(heap')
     /\ \A id \in 1 .. Len(heap) :
          /\ heap'[id] = [heap[id] EXCEPT !.elems = heap'[id].elems]
          /\ Keeps(heap[id].elems, heap'[id].elems)
          /\ ~OnFrame(id) => heap'[id] = heap[id] /\ ~OnFrame(id)']_vars

\* the steps that are left at most: a token that is read opens one load()
\* or gives a value, and a value is taken or ends a load()
Remaining ==
  2 * (Len(file.tokens) - pos) + Len(frames)
    + (IF Stopped THEN 0 ELSE IF pc = "object" THEN 1 ELSE 2)

\* Whatever the file, each step brings the end nearer: the loops of the
\* load()s, one of which runs for a length that the file names and another
\* until a null key comes, and the LoadObject calls they make end after at
\* most twice as many steps as the file has tokens, and two.
Advances == [][Remaining' < Remaining]_vars
=============================================================================
