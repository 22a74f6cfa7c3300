------------------------------ MODULE MCMarshal ------------------------------
(***************************************************************************)
(* MarshalLoader on files CPython writes and on arbitrary ones.            *)
(***************************************************************************)
EXTENDS MarshalLoader, CPythonMarshal

CONSTANT WrittenBy     \* the CPython versions whose files are read

-----------------------------------------------------------------------------
(* Object graphs: a module with two constants, which may be a container or *)
(* a nested code object; the two code objects share the file name, their   *)
(* names and their empty tuples.                                           *)
Leaf(kind, n) == [k |-> kind, n |-> n, kids |-> <<>>]
Group(kind, kids) == [k |-> kind, n |-> 0, kids |-> kids]
CodeNode(v, consts, names) ==
  [k |-> "code", n |-> 0, kids |-> <<>>,
   attr |-> [argCount |-> 1, posOnlyArgCount |-> 2, kwOnlyArgCount |-> 3, numLocals |-> 4,
             stackSize |-> 5, flags |-> 3 + UnicodeLiterals(v), firstLine |-> 7,
             code |-> 2, consts |-> consts, names |-> names,
             localNames |-> 5, freeVars |-> 5, cellVars |-> 5, localKinds |-> 9,
             fileName |-> 6, name |-> 7, qualName |-> 8, lnTable |-> 9, exceptTable |-> 2]]

ConstNodes(v) ==
  {Leaf(kind, IF kind \in {"utext", "uname"} THEN 900 ELSE 31) : kind \in ConstKinds(v)}
    \cup {Group("tuple", <<8, 12>>), Group("tuple", <<12, 13>>), CodeNode(v, 13, 4), CodeNode(v, 4, 5)}
    \cup (IF v >= 207 THEN {Group("frozenset", <<12, 8>>)} ELSE {})

Graph(v, c1, c2) ==
  <<CodeNode(v, 3, 4), Leaf("bytes", 21), Group("tuple", <<10, 11>>), Group("tuple", <<7, 8>>),
    Group("tuple", <<>>), Leaf("text", 22), Leaf("name", 23), Leaf("name", 24), Leaf("bytes", 25),
    c1, c2, Leaf("name", 26), Group("tuple", <<12, 7, 12>>)>>

Sources == UNION {{[v |-> v, c1 |-> c1, c2 |-> c2] : c1, c2 \in ConstNodes(v)} : v \in WrittenBy}
GraphOf(src) == Graph(src.v, src.c1, src.c2)
NoSource == [v |-> 0]

\* what has references from elsewhere too: nothing or everything
Held(src) ==
  IF src.v < 304 THEN {{}} ELSE {Shared(src.v, GraphOf(src)), 2 .. 13}

Written ==
  UNION {{[raw |-> FALSE, ver |-> 0, source |-> src, tokens |-> FileOf(src.v, GraphOf(src), held)] :
            held \in Held(src)} : src \in Sources}

-----------------------------------------------------------------------------
(* Other files: a code object of Python 1.0, which is five objects, with   *)
(* anything in its constants; other starts and headers.                    *)
T(t, n) == Token(t, FALSE, n)
TF(t, n) == Token(t, TRUE, n)

Free == {TF("ELLIPSIS", 0), T("INTERNED", 31), T("STRINGREF", 0), T("OBREF", 0), T("OBREF", 1),
         TF("OBREF", 0), TF("TUPLE", 1), TF("LIST", 2), TF("DICT", 0), TF("CODE2", 0)}

Streams ==
  {<<T("CODE2", 0), T("STRING", 21)>> \o s \o <<T("STRING", 22), T("STRING", 23)>> : s \in [1 .. 4 -> Free]}

W(n) == T("word", n)
Starts ==
  {<<T("INT", 1)>>, <<T("short", 1)>>, <<T("TUPLE", -1)>>, <<T("STRING", -1)>>, <<T("SHORT_ASCII", 900)>>,
   <<TF("SET", 0)>>, <<T("STRINGREF", -1)>>, <<T("CODE2", 0), T("word", 1)>>}

Headers ==
  {<<>>, <<W(10)>>, <<W(3000)>>, <<W(3001)>>, <<W(3051)>>, <<W(2071)>>, <<W(1020)>>, <<W(3110), W(1)>>,
   <<W(3070), W(0), W(0), T("short", 0)>>, <<T("NONE", 0)>>}
CodeStarts ==
  {<<T("CODE", 0)>> \o s : s \in {<<T("short", 1), T("short", 1), T("short", 2^28)>>, <<W(1)>>, <<T("short", 1)>>,
     <<T("short", 1), T("short", 1), T("short", 3), T("STRING", 1), T("STRING", 1)>>}}

Others ==
  {[raw |-> TRUE, ver |-> 100, source |-> NoSource, tokens |-> s] : s \in Streams \cup Starts}
    \cup {[raw |-> TRUE, ver |-> 103, source |-> NoSource, tokens |-> s] : s \in CodeStarts}
    \cup {[raw |-> FALSE, ver |-> 0, source |-> NoSource, tokens |-> s] : s \in Headers}
    \cup {[raw |-> TRUE, ver |-> v, source |-> NoSource, tokens |-> <<>>] : v \in {107, 208, 315, 314}}

AllFiles == Written \cup Others

\* f[1:2] compiled by 3.14, where the slice is a constant
SliceSource == [v |-> 314, c1 |-> Group("slice", <<11, 11, 11>>), c2 |-> Leaf("int", 31)]
SliceFile ==
  {[raw |-> FALSE, ver |-> 0, source |-> SliceSource,
    tokens |-> FileOf(314, GraphOf(SliceSource), 2 .. 13)]}

-----------------------------------------------------------------------------
(* Properties of the files CPython writes *)

FromCPython == file.source # NoSource

\* A file written by a supported CPython is read to its last byte without an
\* exception, with the version that wrote it: the order and the width of
\* the fields of code objects and the numbering of references are CPython's.
CPythonFilesLoad ==
  FromCPython =>
    /\ pc \notin Faults \cup {"invalid"}
    /\ pc \notin {"open"} => ver = file.source.v
    /\ pc = "done" => pos = Len(file.tokens)

\* the node and object pairs that reading made out of the code object
PairsOf(p) ==
  LET node == GraphOf(file.source)[p[1]]
      obj  == heap[p[2]]
  IN IF node.k = "code"
       THEN {<<node.attr[Fields[ver][i].name], obj.elems[i]>> :
               i \in {j \in DOMAIN obj.elems : Fields[ver][j].kind \in {"string", "sequence"}}}
       ELSE {<<node.kids[i], obj.elems[i]>> : i \in DOMAIN obj.elems \cap DOMAIN node.kids}

RECURSIVE Reach(_, _)
Reach(seen, new) ==
  IF new = {} THEN seen
  ELSE LET next == UNION {PairsOf(p) : p \in new} \ (seen \cup new) IN Reach(seen \cup new, next)

SameNode(p) ==
  LET node == GraphOf(file.source)[p[1]]
      obj  == heap[p[2]]
  IN /\ obj.type = HeadType(ver, node.k)
     /\ node.k \notin NotRefs \cup {"tuple", "frozenset", "code"} => obj.n = node.n
     /\ node.k \in {"tuple", "frozenset"} => Len(obj.elems) = Len(node.kids)
     /\ node.k = "code" =>
          \A i \in DOMAIN obj.elems :
            Fields[ver][i].kind \in {"short", "word"} =>
              obj.elems[i] = (IF Fields[ver][i].name = "flags" THEN 3 + 2^21
                                                               ELSE node.attr[Fields[ver][i].name])

\* What is loaded is what was written: the same objects in the same places,
\* with their values, whether written out, by a reference or by the number
\* of an interned string; from 3.4 on also shared where they were shared.
\* The flags are the ones of 3.8 whatever the version.
SameGraph ==
  FromCPython /\ pc = "done" =>
    LET pairs == Reach({}, {<<1, m_code>>})
    IN /\ \A p \in pairs : SameNode(p)
       /\ \A p, q \in pairs : p[2] = q[2] /\ p[2] > 5 => p[1] = q[1]
       /\ ver >= 304 => \A p, q \in pairs : p[1] = q[1] => p[2] = q[2]
=============================================================================
