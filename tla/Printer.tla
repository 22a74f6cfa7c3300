------------------------------- MODULE Printer -------------------------------
(***************************************************************************)
(* The printer of ASTree.cpp: decompyle() cleans the list of statements    *)
(* that BuildFromCode returned and print_src() writes it, calling itself   *)
(* for every child and decompyle() for every nested code object.  The      *)
(* recursion is a list of what remains to be written: a call replaces its  *)
(* own entry by the entries of its body, in the order of the code.         *)
(*                                                                         *)
(* A code object is a record: name, the counts and names of its            *)
(* parameters, const0 (its first constant is a string), globals (the names *)
(* BuildFromCode marked), and what BuildFromCode made of it: the list      *)
(* nodes, and built, the value it left in cleanBuild.  A word of the text  *)
(* is a token; a line is its indentation and its tokens.                   *)
(***************************************************************************)
EXTENDS Integers, Sequences, FiniteSets, SequencesExt, Precedence

CONSTANTS
  Sources,     \* the code objects of the modules that are printed
  Nodes        \* the nodes in their lists, and the nodes in those

VARIABLES
  module,                    \* the code object of the file
  todo,                      \* what remains to be written, the next entry first
  out,                       \* the lines written; the last one is open
  cur_indent, inLambda, cleanBuild, printDocstringAndGlobals, printClassDocstring,
  threw                      \* the printer left by an exception

vars == <<module, todo, out, cur_indent, inLambda, cleanBuild,
          printDocstringAndGlobals, printClassDocstring, threw>>

Null == [k |-> "null"]
Name(id) == [k |-> "name", id |-> id]      \* a name, or a constant that is no code object
Pass == [k |-> "keyword", word |-> "pass"]
NodeList(nodes) == [k |-> "nodelist", nodes |-> nodes]
Code(c) == [k |-> "code", code |-> c]

(***************************************************************************)
(* The entries of todo.                                                    *)
(***************************************************************************)
Text(t) == <<[do |-> "text", token |-> t]>>
PrintSrc(n) == <<[do |-> "print", node |-> n]>>
StartLine(deeper) == <<[do |-> "start", deeper |-> deeper]>>   \* at cur_indent + deeper
EndLine == <<[do |-> "end"]>>                                  \* nothing in a lambda
NewLine == <<[do |-> "newline"]>>                              \* "\n" in any case
Indent(by) == <<[do |-> "indent", by |-> by]>>
Printed == <<[do |-> "printed"]>>                              \* the end of print_src
InLambda(on) == <<[do |-> "lambda", on |-> on]>>
LambdaBody(c, on) == <<[do |-> "body", code |-> c, on |-> on]>>
OfFunction == <<[do |-> "function"]>>
OfClass == <<[do |-> "class"]>>
Warning(part1clean) == <<[do |-> "warning", part1clean |-> part1clean]>>
Crash == <<[do |-> "crash"]>>

Each(nodes) == [i \in DOMAIN nodes |-> PrintSrc(nodes[i])]
Opt(condition, entries) == IF condition THEN entries ELSE <<>>

\* The parts with a separator between them
Joined(parts, separator) ==
  FlattenSeq([i \in DOMAIN parts |-> Opt(i > 1, separator) \o parts[i]])
Commas(parts) == Joined(parts, Text(","))

Blank == [ind |-> 0, toks |-> <<>>]

Init ==
  /\ module \in Sources
  /\ todo = PrintSrc(Code(module))
  /\ out = <<Blank>>
  /\ cur_indent = -1
  /\ inLambda = FALSE
  /\ cleanBuild = FALSE
  /\ printDocstringAndGlobals = FALSE
  /\ printClassDocstring = TRUE
  /\ threw = FALSE

Doing(what) == todo # <<>> /\ Head(todo).do = what
entry == Head(todo)
Keeps(them) == UNCHANGED <<module, threw>> /\ UNCHANGED them

(***************************************************************************)
(* Text, lines and the globals.                                            *)
(***************************************************************************)
flags == <<inLambda, cleanBuild, printDocstringAndGlobals, printClassDocstring>>

Write(tokens) == [out EXCEPT ![Len(out)].toks = @ \o tokens]
Margin(n) == IF Last(out).toks # <<>> \/ n < 0 THEN out ELSE [out EXCEPT ![Len(out)].ind = @ + n]

Emit ==
  \/ /\ Doing("text")
     /\ out' = Write(<<entry.token>>)
     /\ todo' = Tail(todo)
     /\ Keeps(<<cur_indent, flags>>)
  \/ /\ Doing("start")
     /\ out' = IF inLambda THEN out ELSE Margin(cur_indent + entry.deeper)
     /\ todo' = Tail(todo)
     /\ Keeps(<<cur_indent, flags>>)
  \/ /\ Doing("end")
     /\ out' = IF inLambda THEN out ELSE Append(out, Blank)
     /\ todo' = Tail(todo)
     /\ Keeps(<<cur_indent, flags>>)
  \/ /\ Doing("newline")
     /\ out' = Append(out, Blank)
     /\ todo' = Tail(todo)
     /\ Keeps(<<cur_indent, flags>>)

SetIndent ==
  /\ Doing("indent")
  /\ cur_indent' = cur_indent + entry.by
  /\ todo' = Tail(todo)
  /\ Keeps(<<out, flags>>)

SetClean ==
  /\ Doing("printed")
  /\ cleanBuild' = TRUE
  /\ todo' = Tail(todo)
  /\ Keeps(<<out, cur_indent, inLambda, printDocstringAndGlobals, printClassDocstring>>)

SetInLambda ==
  /\ Doing("lambda")
  /\ inLambda' = entry.on
  /\ todo' = Tail(todo)
  /\ Keeps(<<out, cur_indent, cleanBuild, printDocstringAndGlobals, printClassDocstring>>)

\* A mutant: preLambda is not put back
EnterBodyForgets ==
  /\ Doing("body")
  /\ inLambda' = (inLambda \/ entry.on)
  /\ todo' = PrintSrc(Code(entry.code)) \o Tail(todo)
  /\ Keeps(<<out, cur_indent, cleanBuild, printDocstringAndGlobals, printClassDocstring>>)

\* preLambda is read where the assignment's code is about to be printed
EnterBody ==
  /\ Doing("body")
  /\ inLambda' = (inLambda \/ entry.on)
  /\ todo' = PrintSrc(Code(entry.code)) \o InLambda(inLambda) \o Tail(todo)
  /\ Keeps(<<out, cur_indent, cleanBuild, printDocstringAndGlobals, printClassDocstring>>)

SetFunction ==
  /\ Doing("function")
  /\ printDocstringAndGlobals' = TRUE
  /\ todo' = Tail(todo)
  /\ Keeps(<<out, cur_indent, inLambda, cleanBuild, printClassDocstring>>)

SetClass ==
  /\ Doing("class")
  /\ printClassDocstring' = TRUE
  /\ todo' = Tail(todo)
  /\ Keeps(<<out, cur_indent, inLambda, cleanBuild, printDocstringAndGlobals>>)

\* A mutant: the exception is swallowed and the call made again
ThrowSwallowed ==
  /\ Doing("crash")
  /\ threw' = TRUE
  /\ UNCHANGED <<module, todo, out, cur_indent, flags>>

\* std::out_of_range from a local name, or an iterator past the defaults' end
Throw ==
  /\ Doing("crash")
  /\ threw' = TRUE
  /\ todo' = <<>>
  /\ UNCHANGED <<module, out, cur_indent, flags>>

(***************************************************************************)
(* print_src: one action per case of its switch, each followed by the end  *)
(* of the function.                                                        *)
(***************************************************************************)
node == entry.node
Printing(k) == Doing("print") /\ node.k = k
Become(entries) ==
  /\ todo' = entries \o Printed \o Tail(todo)
  /\ Keeps(<<out, cur_indent, flags>>)

PrintOrdered(parent, right, child) ==
  IF child.k \in {"binary", "compare", "unary"} /\ CmpPrec(parent, right, child) > 0
    THEN Text("(") \o PrintSrc(child) \o Text(")")
    ELSE PrintSrc(child)

PrintNull == Printing("null") /\ Become(Text("None"))

PrintBinary ==
  /\ Printing("binary") \/ Printing("compare")
  /\ Become(PrintOrdered(node, FALSE, node.l) \o Text(node.op) \o PrintOrdered(node, TRUE, node.r))

PrintUnary == Printing("unary") /\ Become(Text(node.op) \o PrintOrdered(node, FALSE, node.e))

Keywords(pairs) == [i \in DOMAIN pairs |-> Text(pairs[i][1]) \o Text("=") \o PrintSrc(pairs[i][2])]
Starred(stars, nodes) == [i \in DOMAIN nodes |-> Text(stars) \o PrintSrc(nodes[i])]

PrintCall ==
  /\ Printing("call")
  /\ Become(PrintSrc(node.func) \o Text("(")
            \o Commas(Each(node.pparams) \o Keywords(node.kwparams)
                      \o Starred("*", node.var) \o Starred("**", node.kw)) \o Text(")"))

PrintDelete == Printing("delete") /\ Become(Text("del") \o PrintSrc(node.e))
PrintRaise == Printing("raise") /\ Become(Text("raise") \o Commas(Each(node.params)))
PrintKeyword == Printing("keyword") /\ Become(Text(node.word))
PrintName == Printing("name") /\ Become(Text(node.id))

PrintPrint ==
  /\ Printing("print")
  /\ Become(Text("print") \o Commas(Starred(">>", node.stream) \o Each(node.values))
            \o Opt(~node.eol, Text(",")))

\* exec s in g, l: the locals are left out when they are the globals
PrintExec ==
  /\ Printing("exec")
  /\ Become(Text("exec") \o PrintSrc(node.statement)
            \o Opt(node.globals # Null,
                   Text("in") \o PrintSrc(node.globals)
                   \o Opt(node.locals \notin {Null, node.globals}, Text(",") \o PrintSrc(node.locals))))

\* The elements of a list, a set or a map, each on a line of its own
Lines(parts) ==
  Indent(1)
  \o FlattenSeq([i \in DOMAIN parts |->
       Opt(i > 1, Text(",")) \o NewLine \o StartLine(0) \o parts[i]])
  \o Indent(-1)

Brackets == [list |-> <<"[", "]">>, set |-> <<"{", "}">>]

PrintListOrSet ==
  /\ Printing("list") \/ Printing("set")
  /\ Become(Text(Brackets[node.k][1]) \o Lines(Each(node.values)) \o Text(Brackets[node.k][2]))

Entries(pairs) == [i \in DOMAIN pairs |-> PrintSrc(pairs[i][1]) \o Text(":") \o PrintSrc(pairs[i][2])]

PrintMap == Printing("map") /\ Become(Text("{") \o Lines(Entries(node.values)) \o Text("}"))

\* BUILD_CONST_KEY_MAP: the values are taken from the back, as they were popped
PrintConstMap ==
  /\ Printing("const_map")
  /\ Become(PrintSrc([k |-> "map",
                   values |-> [i \in DOMAIN node.keys |-> <<node.keys[i], Reverse(node.values)[i]>>]]))

Generators(gens) ==
  FlattenSeq([i \in DOMAIN gens |->
    Text("for") \o PrintSrc(gens[i].index) \o Text("in") \o PrintSrc(gens[i].iter)
    \o Opt(gens[i].condition # Null, Text("if") \o PrintSrc(gens[i].condition))])

PrintComprehension ==
  /\ Printing("comprehension")
  /\ Become(Text("[") \o PrintSrc(node.result) \o Generators(node.generators) \o Text("]"))

PrintSubscr ==
  Printing("subscr") /\ Become(PrintSrc(node.name) \o Text("[") \o PrintSrc(node.key) \o Text("]"))

\* SLICE1 and SLICE2 say which of the two bounds are there
PrintSlice ==
  /\ Printing("slice")
  /\ Become(Opt(node.l # Null, PrintSrc(node.l)) \o Text(":") \o Opt(node.r # Null, PrintSrc(node.r)))

PrintTuple ==
  /\ Printing("tuple")
  /\ Become(Opt(node.parens, Text("(")) \o Commas(Each(node.values))
            \o Opt(Len(node.values) = 1, Text(",")) \o Opt(node.parens, Text(")")))

PrintTernary ==
  /\ Printing("ternary")
  /\ Become(PrintSrc(node.if_expr) \o Text("if") \o Opt(node.negative, Text("not"))
            \o PrintSrc(node.cond) \o Text("else") \o PrintSrc(node.else_expr))

ReturnWords == [return |-> "return", yield |-> "yield", yield_from |-> "yield from"]

\* The word is left out in a lambda, whichever it is
PrintReturn ==
  /\ Printing("return")
  /\ IF ~inLambda /\ node.rettype = "yield_from" /\ node.value.k = "awaitable"
       THEN Become(Text("await") \o PrintSrc(node.value.expression))
       ELSE Become(Opt(~inLambda, Text(ReturnWords[node.rettype])) \o PrintSrc(node.value))

PrintAnnotated ==
  Printing("annotated_var") /\ Become(Text(node.name) \o Text(":") \o PrintSrc(node.annotation))

\* A node type print_src has no case for, on its own: an awaitable is printed by
\* the return, a class by the assignment it stands in.  The end of the function,
\* where cleanBuild is set again, is not reached.
NoCase == {"unsupported", "awaitable", "class"}

PrintUnsupported ==
  /\ Doing("print") /\ node.k \in NoCase
  /\ out' = Write(<<"<NODE>">>)
  /\ cleanBuild' = FALSE
  /\ todo' = Tail(todo)
  /\ Keeps(<<cur_indent, inLambda, printDocstringAndGlobals, printClassDocstring>>)

(***************************************************************************)
(* Statement lists, blocks and assignments.                                *)
(***************************************************************************)
PrintNodeList ==
  /\ Printing("nodelist")
  /\ Become(Indent(1)
            \o FlattenSeq([i \in DOMAIN node.nodes |->
                 Opt(node.nodes[i].k # "nodelist", StartLine(0)) \o PrintSrc(node.nodes[i]) \o EndLine])
            \o Indent(-1))

PrintBlock(nodes) ==
  IF nodes = <<>>
    THEN StartLine(0) \o PrintSrc(Pass)
    ELSE Joined([i \in DOMAIN nodes |->
                   Opt(nodes[i].k # "nodelist", StartLine(0)) \o PrintSrc(nodes[i])], EndLine)

\* What stands between the block's word and its colon
BlockHead(b) ==
  CASE b.blktype \in {"if", "elif", "while"} -> Opt(b.negative, Text("not")) \o PrintSrc(b.cond)
    [] b.blktype \in {"for", "async for"} -> PrintSrc(b.index) \o Text("in") \o PrintSrc(b.iter)
    [] b.blktype = "except" /\ b.cond # Null ->
         PrintSrc(b.cond) \o Opt(b.exceptAs # Null, Text("as") \o PrintSrc(b.exceptAs))
    [] b.blktype = "with" -> PrintSrc(b.expr) \o Opt(b.var # Null, Text("as") \o PrintSrc(b.var))
    [] OTHER -> <<>>

PrintNoElse == Printing("block") /\ node.blktype = "else" /\ node.nodes = <<>> /\ Become(<<>>)

PrintContainer ==
  /\ Printing("block")
  /\ node.blktype = "container"
  /\ Become(EndLine \o PrintBlock(node.nodes) \o EndLine)

PrintSuite ==
  /\ Printing("block")
  /\ node.blktype # "container"
  /\ ~(node.blktype = "else" /\ node.nodes = <<>>)
  /\ Become(Text(node.blktype) \o BlockHead(node) \o Text(":") \o NewLine
            \o Indent(1) \o PrintBlock(node.nodes) \o Indent(-1))

\* A mutant: off by one, the first default is left out
HasDefaultLate(i, n, defaults) == n - (i - 1) < Len(defaults)

\* Whether the default of the i-th of n parameters is written, and which it is
HasDefault(i, n, defaults) == n - (i - 1) <= Len(defaults)
Default(c, i, count, n, defaults) ==
  LET taken == Cardinality({j \in 1 .. i : HasDefault(j, n, defaults)}) IN
  IF ~HasDefault(i, n, defaults) THEN <<>>
  ELSE IF taken \in DOMAIN defaults THEN Text("=") \o PrintSrc(defaults[taken]) ELSE Crash

Local(c, i) == IF i \in DOMAIN c.localNames THEN Text(c.localNames[i]) ELSE Crash

\* The loop over count parameters from the local name after the first `from` on;
\* n is the number the defaults are aligned with.
Params(c, from, count, n, defaults) ==
  [i \in 1 .. count |-> Local(c, from + i) \o Default(c, i, count, n, defaults)]

KwOnly(c, count, defaults) ==
  Opt(c.kwOnlyArgCount # 0, <<Text("*")>> \o Params(c, c.argCount, count, c.kwOnlyArgCount, defaults))

\* Both loops run as often as there are positional parameters
PrintFunction ==
  /\ Printing("function")
  /\ LET c == node.code IN
       Become(Text("(") \o Text("lambda")
              \o Commas(Params(c, 0, c.argCount, c.argCount, node.defargs)
                        \o KwOnly(c, c.argCount, node.kwdefargs))
              \o Text(":") \o InLambda(TRUE) \o PrintSrc(Code(c)) \o InLambda(FALSE) \o Text(")"))

Signature(f) ==
  LET c == f.code
      named == c.argCount + c.kwOnlyArgCount IN
  Commas(Params(c, 0, c.argCount, c.argCount, f.defargs)
         \o KwOnly(c, c.kwOnlyArgCount, f.kwdefargs)
         \o Opt(c.varargs, <<Text("*") \o Local(c, named + 1)>>)
         \o Opt(c.varkeywords, <<Text("**") \o Local(c, named + 1 + IF c.varargs THEN 1 ELSE 0)>>))

StoreFunction ==
  /\ Printing("store")
  /\ node.src.k = "function"
  /\ LET c == node.src.code IN
       Become(NewLine \o StartLine(0)
              \o IF c.name = "<lambda>"
                   THEN PrintSrc(node.dest) \o Text("=") \o Text("lambda") \o Signature(node.src)
                        \o Text(":") \o LambdaBody(c, TRUE)
                   ELSE Opt(c.coroutine, Text("async")) \o Text("def") \o PrintSrc(node.dest)
                        \o Text("(") \o Signature(node.src) \o Text(")") \o Text(":") \o NewLine
                        \o OfFunction \o LambdaBody(c, FALSE))

StoreClass ==
  /\ Printing("store")
  /\ node.src.k = "class"
  /\ Become(NewLine \o StartLine(0) \o Text("class") \o PrintSrc(node.dest)
            \o Opt(node.src.bases # <<>>, Text("(") \o Commas(Each(node.src.bases)) \o Text(")"))
            \o Text(":") \o NewLine \o OfClass \o PrintSrc(Code(node.src.code)))

StoreValue ==
  /\ Printing("store")
  /\ node.src.k \notin {"function", "class", "import"}
  /\ IF node.src.k = "binary" /\ node.src.op \in ToSet(InplaceOps)
       THEN Become(PrintSrc(node.src))
       ELSE Become(PrintSrc(node.dest) \o Text("=") \o PrintSrc(node.src))

PrintChainStore ==
  /\ Printing("chainstore")
  /\ Become(FlattenSeq([i \in DOMAIN node.dests |-> PrintSrc(node.dests[i]) \o Text("=")])
            \o PrintSrc(node.src))

\* from name import src as dest, ...
PrintImport ==
  /\ Printing("import")
  /\ IF node.stores = <<>>
       THEN Become(Text("import") \o Text(node.name))
       ELSE Become(Text("from") \o Text(node.name) \o Text("import")
                   \o Commas([i \in DOMAIN node.stores |->
                        Text(node.stores[i].src)
                        \o Opt(node.stores[i].src # node.stores[i].dest,
                               Text("as") \o Text(node.stores[i].dest))]))

\* import name as dest, or from name import the names of fromlist
StoreImport ==
  /\ Printing("store")
  /\ node.src.k = "import"
  /\ IF node.src.fromlist # <<>>
       THEN Become(Text("from") \o Text(node.src.name) \o Text("import")
                   \o Commas([i \in DOMAIN node.src.fromlist |-> Text(node.src.fromlist[i])]))
       ELSE Become(Text("import") \o Text(node.src.name)
                   \o Opt(node.dest.id # node.src.name, Text("as") \o PrintSrc(node.dest)))

(***************************************************************************)
(* decompyle: BuildFromCode sets cleanBuild; a list built cleanly loses    *)
(* what the compiler added to it.                                          *)
(***************************************************************************)
Stores(n, dest) == n.k = "store" /\ n.dest = Name(dest) /\ n.src.k = "name"

\* __module__ = __name__, then __qualname__ = '...', at the head of a class
WithoutNames(nodes) ==
  LET rest == IF Stores(nodes[1], "__module__") /\ nodes[1].src = Name("__name__")
                THEN Tail(nodes) ELSE nodes
  IN IF Stores(rest[1], "__qualname__") THEN Tail(rest) ELSE rest

IsDocstring(n) == Stores(n, "__doc__") /\ n.src = Name("doc")

\* return None, return locals(): always extraneous
IsExtraneous(n) == n.k = "return" /\ n.value.k = "name" /\ n.value.id \in {"None", "locals()"}
WithoutReturn(nodes) == IF IsExtraneous(Last(nodes)) THEN Front(nodes) ELSE nodes

DocstringLine(deeper) == StartLine(deeper) \o Text("doc") \o NewLine

\* A mutant: the flag is reset only where a global declaration is written
TakeFlagsWithGlobals ==
  /\ printClassDocstring' = FALSE
  /\ printDocstringAndGlobals' = (printDocstringAndGlobals /\ node.code.globals = <<>>)

\* Both flags are for the first code object printed after they are set
TakeFlags == printClassDocstring' = FALSE /\ printDocstringAndGlobals' = FALSE

Decompyle ==
  /\ Printing("code")
  /\ LET c == node.code
         named == WithoutNames(c.nodes)
         classDoc == c.built /\ printClassDocstring /\ IsDocstring(named[1])
         clean == IF c.built THEN WithoutReturn(IF classDoc THEN Tail(named) ELSE named) ELSE c.nodes
         body == IF clean = <<>> /\ c # module THEN <<Pass>> ELSE clean
     IN /\ cleanBuild' = c.built
        /\ todo' = Opt(classDoc, DocstringLine(IF c.name = "<module>" THEN 0 ELSE 1))
                   \o Opt(printDocstringAndGlobals,
                          Opt(c.const0, DocstringLine(1))
                          \o Opt(c.globals # <<>>,
                                 StartLine(1) \o Text("global")
                                 \o Commas([i \in DOMAIN c.globals |-> Text(c.globals[i])]) \o NewLine))
                   \o PrintSrc(NodeList(body)) \o Warning(c.built) \o Printed \o Tail(todo)
  /\ TakeFlags
  /\ Keeps(<<out, cur_indent, inLambda>>)

Warn ==
  /\ Doing("warning")
  /\ todo' = IF cleanBuild /\ entry.part1clean THEN Tail(todo)
             ELSE StartLine(0) \o Text("# WARNING") \o NewLine \o Tail(todo)
  /\ Keeps(<<out, cur_indent, flags>>)

(***************************************************************************)
(* What the code objects and nodes are.                                    *)
(***************************************************************************)
HeadStore(n) == Stores(n, "__module__") \/ Stores(n, "__qualname__") \/ IsDocstring(n)

\* A list that was built cleanly has more than what is taken from its head:
\* front() and back() of an empty list are undefined.
IsCode(c) ==
  /\ c.argCount \in Nat /\ c.kwOnlyArgCount \in Nat
  /\ c.globals \in Seq(STRING)
  /\ c.nodes \in Seq(Nodes)
  /\ c.built \in BOOLEAN
  /\ c.built => c.nodes # <<>> /\ ~HeadStore(Last(c.nodes))

Generator(g) == g.index \in Nodes /\ g.iter \in Nodes /\ g.condition \in Nodes

WellFormed(n) ==
  /\ n.k \in {"binary", "compare", "slice"} => n.l \in Nodes /\ n.r \in Nodes
  /\ n.k \in {"unary", "delete"} => n.e \in Nodes
  /\ n.k = "call" =>
       /\ n.func \in Nodes
       /\ n.pparams \in Seq(Nodes) /\ n.kwparams \in Seq(STRING \X Nodes)
       /\ n.var \in Seq(Nodes) /\ n.kw \in Seq(Nodes)
  /\ n.k = "raise" => n.params \in Seq(Nodes)
  /\ n.k = "print" => n.stream \in Seq(Nodes) /\ n.values \in Seq(Nodes)
  /\ n.k = "exec" => n.statement \in Nodes /\ n.globals \in Nodes /\ n.locals \in Nodes
  /\ n.k \in {"list", "set", "tuple"} => n.values \in Seq(Nodes)
  /\ n.k = "map" => n.values \in Seq(Nodes \X Nodes)
  /\ n.k = "const_map" =>
       n.keys \in Seq(Nodes) /\ n.values \in Seq(Nodes) /\ Len(n.keys) <= Len(n.values)
  /\ n.k = "comprehension" =>
       /\ n.result \in Nodes
       /\ n.generators \in Seq({n.generators[i] : i \in DOMAIN n.generators})
       /\ \A i \in DOMAIN n.generators : Generator(n.generators[i])
  /\ n.k = "subscr" => n.name \in Nodes /\ n.key \in Nodes
  /\ n.k = "ternary" => n.if_expr \in Nodes /\ n.cond \in Nodes /\ n.else_expr \in Nodes
  /\ n.k = "return" => n.value \in Nodes
  /\ n.k = "awaitable" => n.expression \in Nodes
  /\ n.k = "annotated_var" => n.annotation \in Nodes
  /\ n.k = "nodelist" => n.nodes \in Seq(Nodes \cup {Pass})
  /\ n.k = "block" =>
       /\ n.nodes \in Seq(Nodes)
       /\ n.blktype \in {"if", "elif", "while"} => n.cond \in Nodes
       /\ n.blktype \in {"for", "async for"} => n.index \in Nodes /\ n.iter \in Nodes
       /\ n.blktype = "except" => n.cond \in Nodes /\ n.exceptAs \in Nodes
       /\ n.blktype = "with" => n.expr \in Nodes /\ n.var \in Nodes
  /\ n.k = "function" =>
       IsCode(n.code) /\ n.defargs \in Seq(Nodes) /\ n.kwdefargs \in Seq(Nodes)
  /\ n.k = "class" => IsCode(n.code) /\ n.bases \in Seq(Nodes)
  /\ n.k = "store" => n.src \in Nodes /\ n.dest \in Nodes
  /\ n.k = "chainstore" => n.dests \in Seq(Nodes) /\ n.src \in Nodes
  /\ n.k = "import" =>
       n.stores \in Seq([src : STRING, dest : STRING]) /\ n.fromlist \in Seq(STRING)
  /\ n.k = "code" => IsCode(n.code)

ASSUME NodesAssumption ==
  /\ \A c \in Sources : IsCode(c)
  /\ \A n \in Nodes : WellFormed(n)

-----------------------------------------------------------------------------
PrintExpression ==
  \/ PrintNull \/ PrintBinary \/ PrintUnary \/ PrintCall \/ PrintName \/ PrintListOrSet
  \/ PrintMap \/ PrintConstMap \/ PrintComprehension \/ PrintSubscr \/ PrintSlice \/ PrintTuple
  \/ PrintTernary \/ PrintFunction \/ PrintUnsupported

PrintStatement ==
  \/ PrintDelete \/ PrintRaise \/ PrintKeyword \/ PrintPrint \/ PrintExec \/ PrintReturn
  \/ PrintAnnotated \/ PrintNodeList \/ PrintNoElse \/ PrintContainer \/ PrintSuite
  \/ StoreFunction \/ StoreClass \/ StoreValue \/ StoreImport \/ PrintChainStore \/ PrintImport

Next ==
  \/ Emit \/ SetIndent \/ SetClean \/ SetInLambda \/ EnterBody \/ SetFunction \/ SetClass \/ Throw
  \/ PrintExpression \/ PrintStatement \/ Decompyle \/ Warn

Spec == Init /\ [][Next]_vars

\* print_src and decompyle are plain function calls on one thread: they run on
FairSpec == Spec /\ WF_vars(Next)

-----------------------------------------------------------------------------
(* The flags set by the header of a function or class reach that code      *)
(* object: nothing else is decompiled or written in between.               *)
FlagsArrive ==
  /\ printDocstringAndGlobals => todo # <<>> /\ (Printing("code") \/ Doing("body"))
  /\ printClassDocstring => todo # <<>> /\ Printing("code")

(* When decompyle of the module has returned, whatever nested bodies were  *)
(* printed: the indentation, inLambda and printDocstringAndGlobals are as  *)
(* they were found.  printClassDocstring, TRUE at first for the module's   *)
(* own docstring, is FALSE: it was taken, and so was every later one.      *)
(* cleanBuild, FALSE at first, is TRUE: the end of print_src of the list   *)
(* sets it, also when a node without a case inside had cleared it.         *)
GlobalsAtEnd ==
  todo = <<>> /\ ~threw =>
    /\ cur_indent = -1 /\ ~inLambda
    /\ ~printDocstringAndGlobals /\ ~printClassDocstring
    /\ cleanBuild
=============================================================================
