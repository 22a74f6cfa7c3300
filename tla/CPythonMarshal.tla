---------------------------- MODULE CPythonMarshal ----------------------------
(***************************************************************************)
(* External: what CPython writes into a compiled file, by version.         *)
(*                                                                         *)
(* An object graph is a sequence of nodes, the code object first.  A node  *)
(* is [k |-> kind, n |-> value, kids |-> nodes it holds]; a code object    *)
(* has instead of kids the nodes and numbers of its attributes, by the     *)
(* names pycdc gives them.  Two occurrences of one node are one Python     *)
(* object.                                                                 *)
(***************************************************************************)
EXTENDS Integers, Sequences

LOCAL INSTANCE FiniteSets
LOCAL INSTANCE SequencesExt

\* the object types of marshal.c; text and name differ in being interned,
\* the u kinds are not ASCII, the long ones have more than 255 characters
HeadType(v, k) ==
  CASE k = "none"      -> "NONE"
    [] k = "true"      -> "TRUE"
    [] k = "ellipsis"  -> "ELLIPSIS"
    [] k = "int"       -> "INT"
    [] k = "bigint"    -> IF v \in 105 .. 207 THEN "INT64" ELSE "LONG"
    [] k = "float"     -> IF v < 205 THEN "FLOAT" ELSE "BINARY_FLOAT"
    [] k = "complex"   -> IF v < 205 THEN "COMPLEX" ELSE "BINARY_COMPLEX"
    [] k = "bytes"     -> "STRING"
    [] k \in {"text", "name", "longtext", "longname"} /\ v < 300 ->
         IF k \in {"name", "longname"} /\ v >= 204 THEN "INTERNED" ELSE "STRING"
    [] k = "utext" /\ v < 300 -> "UNICODE"
    [] k \in {"text", "name", "longtext", "longname", "utext", "uname"} /\ v \in 300 .. 303 -> "UNICODE"
    [] k = "text"      -> "SHORT_ASCII"
    [] k = "name"      -> "SHORT_ASCII_INTERNED"
    [] k = "longtext"  -> "ASCII"
    [] k = "longname"  -> "ASCII_INTERNED"
    [] k = "utext"     -> "UNICODE"
    [] k = "uname"     -> "INTERNED"
    [] k = "tuple"     -> IF v < 304 THEN "TUPLE" ELSE "SMALL_TUPLE"
    [] k = "frozenset" -> "FROZENSET"
    [] k = "slice"     -> "SLICE"      \* 3.14; start, stop and step follow
    [] k = "code"      -> IF v < 103 THEN "CODE2" ELSE "CODE"

\* the simple constants a compiler of version v can produce
ConstKinds(v) ==
  {"none", "int", "float", "text"}
    \cup (IF v >= 104 THEN {"complex"} ELSE {})
    \cup (IF v >= 105 THEN {"bigint"} ELSE {})
    \cup (IF v >= 106 THEN {"utext"} ELSE {})
    \cup (IF v >= 203 THEN {"true"} ELSE {})
    \cup (IF v >= 300 THEN {"ellipsis", "bytes"} ELSE {})
    \cup (IF v >= 304 THEN {"longtext", "longname", "uname"} ELSE {})

\* the attributes of a code object in the order they are written; those of
\* Short are two bytes, those of Long four, the others objects
CodeLayout(v) ==
  IF v < 103 THEN <<"code", "consts", "names", "fileName", "name">>
  ELSE IF v < 105 THEN <<"argCount", "numLocals", "flags",
    "code", "consts", "names", "localNames", "fileName", "name">>
  ELSE IF v < 201 THEN <<"argCount", "numLocals", "stackSize", "flags",
    "code", "consts", "names", "localNames", "fileName", "name", "firstLine", "lnTable">>
  ELSE IF v < 300 THEN <<"argCount", "numLocals", "stackSize", "flags",
    "code", "consts", "names", "localNames", "freeVars", "cellVars", "fileName", "name",
    "firstLine", "lnTable">>
  ELSE IF v < 308 THEN <<"argCount", "kwOnlyArgCount", "numLocals", "stackSize", "flags",
    "code", "consts", "names", "localNames", "freeVars", "cellVars", "fileName", "name",
    "firstLine", "lnTable">>
  ELSE IF v < 311 THEN <<"argCount", "posOnlyArgCount", "kwOnlyArgCount", "numLocals",
    "stackSize", "flags", "code", "consts", "names", "localNames", "freeVars", "cellVars",
    "fileName", "name", "firstLine", "lnTable">>
  ELSE <<"argCount", "posOnlyArgCount", "kwOnlyArgCount", "stackSize", "flags",
    "code", "consts", "names", "localNames", "localKinds", "fileName", "name", "qualName",
    "firstLine", "lnTable", "exceptTable">>

NumberAttributes == {"argCount", "posOnlyArgCount", "kwOnlyArgCount", "numLocals",
                     "stackSize", "flags", "firstLine"}

\* CO_FUTURE_UNICODE_LITERALS, the one flag these code objects may have
UnicodeLiterals(v) == IF v < 308 THEN 2^17 ELSE 2^21

\* the nodes a node holds, as they are written
Members(v, node) ==
  IF node.k = "code"
    THEN LET objects == SelectSeq(CodeLayout(v), LAMBDA a : a \notin NumberAttributes)
         IN [i \in DOMAIN objects |-> node.attr[objects[i]]]
    ELSE node.kids

\* the nodes with more than one reference
Uses(v, g, id) ==
  {p \in (DOMAIN g) \X (1 .. 12) :
     p[2] \in DOMAIN Members(v, g[p[1]]) /\ Members(v, g[p[1]])[p[2]] = id}
Shared(v, g) == {id \in DOMAIN g : Cardinality(Uses(v, g, id)) > 1}

-----------------------------------------------------------------------------
(* w_object: the tokens of MarshalLoader.  From 3.4 on an object with more *)
(* than one reference, those of held, is flagged and later named by its    *)
(* place among the flagged ones; from 2.4 to 2.7 an interned string is     *)
(* named by its place among the interned ones.                             *)
Token(t, flag, n) == [t |-> t, flag |-> flag, n |-> n]
NotRefs == {"none", "true", "ellipsis"}
Place(s, id) == SelectInSeq(s, LAMBDA x : x = id) - 1

Number(v, n) == [node |-> 0, token |-> Token(IF v < 203 THEN "short" ELSE "word", FALSE, n)]
Obj(id)    == [node |-> id]

\* what is written after the head of a node
Parts(v, node) ==
  IF node.k = "code"
    THEN [i \in DOMAIN CodeLayout(v) |->
            LET a == CodeLayout(v)[i]
            IN IF a \in NumberAttributes THEN Number(v, node.attr[a]) ELSE Obj(node.attr[a])]
    ELSE [i \in DOMAIN node.kids |-> Obj(node.kids[i])]

\* one more object or number of those still to be written
WriteNext(v, g, held, st) ==
  LET id      == st.todo[1].node
      node    == g[id]
      type    == HeadType(v, node.k)
      flagged == v >= 304 /\ id \in held /\ node.k \notin NotRefs
      numbered == v \in 204 .. 207 /\ type = "INTERNED"
      rest(parts, tok) == [st EXCEPT !.todo = parts \o Tail(@), !.out = Append(@, tok)]
  IN IF id = 0 THEN rest(<<>>, st.todo[1].token)
     ELSE IF flagged /\ Contains(st.refs, id)
       THEN rest(<<>>, Token("OBREF", FALSE, Place(st.refs, id)))
     ELSE IF numbered /\ Contains(st.interned, id)
       THEN rest(<<>>, Token("STRINGREF", FALSE, Place(st.interned, id)))
     ELSE [rest(Parts(v, node),
                Token(type, flagged, IF node.k \in {"tuple", "frozenset"} THEN Len(node.kids) ELSE node.n))
             EXCEPT !.refs = IF flagged THEN Append(@, id) ELSE @,
                    !.interned = IF numbered THEN Append(@, id) ELSE @]

RECURSIVE WriteAll(_, _, _, _)
WriteAll(v, g, held, st) ==
  IF st.todo = <<>> THEN st.out ELSE WriteAll(v, g, held, WriteNext(v, g, held, st))

\* header: magic number, flags from 3.7 on, timestamp or checksum
Magic(v) == 10 * v + (IF v \in {300, 301} THEN 1 ELSE 0)
HeaderLength(v) == IF v < 303 THEN 1 ELSE IF v < 307 THEN 2 ELSE 3

FileOf(v, g, held) ==
  <<Token("word", FALSE, Magic(v))>>
    \o [i \in 1 .. HeaderLength(v) |-> Token("word", FALSE, 0)]
    \o WriteAll(v, g, held, [todo |-> <<Obj(1)>>, out |-> <<>>, refs |-> <<>>, interned |-> <<>>])
=============================================================================
