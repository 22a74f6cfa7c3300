------------------------------ MODULE MCPrinter ------------------------------
(***************************************************************************)
(* The printer on the expressions in which one operator stands under       *)
(* another, and on nested statements, functions, classes and lambdas.  The *)
(* text it writes is read as Python reads it (PythonText) and compared     *)
(* with what the nodes mean.                                               *)
(***************************************************************************)
EXTENDS Printer

Py == INSTANCE PythonText

(***************************************************************************)
(* What nodes mean.                                                        *)
(***************************************************************************)
RECURSIVE Expr(_), Operands(_, _), Statements(_), OfCode(_)

Exprs(ns) == [i \in DOMAIN ns |-> Expr(ns[i])]
ExprPairs(ps) == [i \in DOMAIN ps |-> <<Expr(ps[i][1]), Expr(ps[i][2])>>]
Statement(head, body) == <<[head |-> head, body |-> body]>>
Negated(negative, e) == IF negative THEN Py!Unary("not", e) ELSE e

\* and, or: (a and b) and c is a and (b and c)
Operands(n, op) ==
  IF n.k = "binary" /\ n.op = op THEN Operands(n.l, op) \o Operands(n.r, op) ELSE <<Expr(n)>>

\* The parameters of a signature, their defaults aligned at the end
Aligned(c, from, count, defaults) ==
  [i \in 1 .. count |->
     LET name == c.localNames[from + i]
         d == i - (count - Len(defaults))
     IN IF d > 0 THEN Py!Item("", name, Expr(defaults[d])) ELSE Py!Item("", "", Name(name))]

Parameters(f) ==
  LET c == f.code
      named == c.argCount + c.kwOnlyArgCount IN
  Aligned(c, 0, c.argCount, f.defargs)
  \o Opt(c.varargs, <<Py!Item("*", "", Name(c.localNames[named + 1]))>>)
  \o Opt(~c.varargs /\ c.kwOnlyArgCount > 0, <<Py!Item("*", "", Null)>>)
  \o Aligned(c, c.argCount, c.kwOnlyArgCount, f.kwdefargs)
  \o Opt(c.varkeywords, <<Py!Item("**", "", Name(c.localNames[named + 1 + IF c.varargs THEN 1 ELSE 0]))>>)

Arguments(n) ==
  LET items(star, ns) == [i \in DOMAIN ns |-> Py!Item(star, "", Expr(ns[i]))] IN
  items("", n.pparams) \o [i \in DOMAIN n.kwparams |-> Py!Item("", n.kwparams[i][1], Expr(n.kwparams[i][2]))]
  \o items("*", n.var) \o items("**", n.kw)

Lambda(f) ==
  [k |-> "lambda", params |-> Parameters(f), body |-> Expr(f.code.nodes[1].value)]

Expr(n) ==
  CASE n.k = "null" -> Name("None")
    [] n.k = "binary" ->
         IF IsLogical(n) THEN FoldLeft(LAMBDA l, r : Py!Binary(n.op, l, r), Operands(n, n.op)[1], Tail(Operands(n, n.op)))
         ELSE Py!Binary(n.op, Expr(n.l), Expr(n.r))
    [] n.k = "compare" -> [n EXCEPT !.l = Expr(@), !.r = Expr(@)]
    [] n.k = "unary" -> [n EXCEPT !.e = Expr(@)]
    [] n.k = "call" -> [k |-> "call", func |-> Expr(n.func), items |-> Arguments(n)]
    [] n.k \in {"list", "set"} -> [n EXCEPT !.values = Exprs(@)]
    [] n.k = "tuple" -> [k |-> "tuple", values |-> Exprs(n.values)]
    [] n.k = "map" -> [n EXCEPT !.values = ExprPairs(@)]
    [] n.k = "const_map" ->
         [k |-> "map", values |-> [i \in DOMAIN n.keys |->
                                     <<Expr(n.keys[i]), Expr(n.values[Len(n.values) + 1 - i])>>]]
    [] n.k = "comprehension" ->
         [k |-> n.k, result |-> Expr(n.result),
          generators |-> [i \in DOMAIN n.generators |->
            LET g == n.generators[i] IN
            [index |-> Expr(g.index), iter |-> Expr(g.iter),
             condition |-> IF g.condition = Null THEN Null ELSE Expr(g.condition)]]]
    [] n.k = "subscr" -> [n EXCEPT !.name = Expr(@), !.key = Expr(@)]
    [] n.k = "slice" -> [k |-> "slice", l |-> IF n.l = Null THEN Null ELSE Expr(n.l),
                                        r |-> IF n.r = Null THEN Null ELSE Expr(n.r)]
    [] n.k = "ternary" -> [k |-> "ternary", if_expr |-> Expr(n.if_expr),
                           cond |-> Negated(n.negative, Expr(n.cond)), else_expr |-> Expr(n.else_expr)]
    [] n.k = "function" -> Lambda(n)
    [] OTHER -> n

OfBlock(b) ==
  LET as(var) == IF var = Null THEN Null ELSE Expr(var)
      body == IF Statements(b.nodes) = <<>> THEN Statement([k |-> "pass"], <<>>) ELSE Statements(b.nodes)
      word == b.blktype
  IN CASE word = "container" -> Statements(b.nodes)
       [] word = "else" /\ b.nodes = <<>> -> <<>>
       [] word \in {"if", "elif", "while"} -> Statement([k |-> word, e |-> Negated(b.negative, Expr(b.cond))], body)
       [] word = "for" -> Statement([k |-> word, e |-> <<Expr(b.index), Expr(b.iter)>>], body)
       [] word = "except" ->
            Statement([k |-> word, e |-> [e |-> as(b.cond), as |-> as(b.exceptAs)]], body)
       [] word = "with" -> Statement([k |-> word, e |-> [e |-> Expr(b.expr), as |-> as(b.var)]], body)
       [] OTHER -> Statement([k |-> word, e |-> Null], body)

\* The line that follows the text of a code object built with an error
Remark(c) == IF c.built THEN <<>> ELSE Statement([k |-> "warning"], <<>>)

OfStore(n) ==
  LET def == [k |-> "def", name |-> n.dest.id, items |-> Parameters(n.src)]
      bases == [i \in DOMAIN n.src.bases |-> Py!Item("", "", Expr(n.src.bases[i]))] IN
  CASE n.src.k = "function" /\ n.src.code.name # "<lambda>" ->
         Statement(IF n.src.code.coroutine THEN [k |-> "async", e |-> def] ELSE def, OfCode(n.src.code)) \o Remark(n.src.code)
    [] n.src.k = "class" -> Statement([k |-> "class", name |-> n.dest.id, items |-> bases], OfCode(n.src.code)) \o Remark(n.src.code)
    [] n.src.k = "import" /\ n.src.fromlist # <<>> ->
         Statement([k |-> "from", name |-> n.src.name,
                    names |-> [i \in DOMAIN n.src.fromlist |-> [src |-> n.src.fromlist[i], dest |-> n.src.fromlist[i]]]], <<>>)
    [] n.src.k = "import" /\ n.src.fromlist = <<>> ->
         Statement([k |-> "import", names |-> <<[src |-> n.src.name, dest |-> n.dest.id]>>], <<>>)
    [] n.src.k = "binary" /\ n.src.op \in Py!Augmented ->
         Statement([k |-> "augmented", op |-> n.src.op, l |-> Expr(n.src.l), r |-> Expr(n.src.r)], <<>>)
    [] OTHER -> Statement([k |-> "assign", dests |-> <<Expr(n.dest)>>, e |-> Expr(n.src)], <<>>)
                \o IF n.src.k = "function" THEN Remark(n.src.code) ELSE <<>>

OfReturn(n) ==
  IF n.rettype = "yield_from" /\ n.value.k = "awaitable"
    THEN [k |-> "await", e |-> Expr(n.value.expression)]
    ELSE [k |-> [return |-> "return", yield |-> "yield", yield_from |-> "yield from"][n.rettype],
          e |-> Expr(n.value)]

OfNode(n) ==
  CASE n.k = "block" -> OfBlock(n)
    [] n.k = "store" -> OfStore(n)
    [] n.k = "return" -> Statement(OfReturn(n), <<>>)
    [] n.k = "delete" -> Statement([k |-> "del", e |-> Expr(n.e)], <<>>)
    [] n.k = "raise" -> Statement([k |-> "raise", e |-> Exprs(n.params)], <<>>)
    [] n.k = "keyword" -> Statement([k |-> n.word], <<>>)
    [] n.k = "print" -> Statement([k |-> "print", to |-> n.stream # <<>>, eol |-> n.eol,
                                   e |-> Exprs(n.stream \o n.values)], <<>>)
    [] n.k = "exec" -> Statement([k |-> "exec", e |-> Expr(n.statement),
                                  in |-> Opt(n.globals # Null, <<Expr(n.globals)>>)
                                         \o Opt(n.locals \notin {Null, n.globals}, <<Expr(n.locals)>>)], <<>>)
    [] n.k = "import" /\ n.stores # <<>> -> Statement([k |-> "from", name |-> n.name, names |-> n.stores], <<>>)
    [] n.k = "import" /\ n.stores = <<>> -> Statement([k |-> "import", names |-> <<[src |-> n.name, dest |-> n.name]>>], <<>>)
    [] n.k = "annotated_var" -> Statement([k |-> "annotated", l |-> Name(n.name), r |-> Expr(n.annotation)], <<>>)
    [] n.k = "chainstore" -> Statement([k |-> "assign", dests |-> Exprs(n.dests), e |-> Expr(n.src)], <<>>)
    [] OTHER -> Statement([k |-> "expression", e |-> Expr(n)], <<>>)

Statements(ns) == FlattenSeq([i \in DOMAIN ns |-> OfNode(ns[i])])

\* The statements the source of a code object had: those the compiler adds are
\* left out where the list is known to be good.
OfCode(c) ==
  LET kept == IF c.built THEN SelectSeq(c.nodes, LAMBDA n : ~(n.k = "store" /\ n.dest \in {Name("__module__"), Name("__qualname__")}))
              ELSE c.nodes
      ends == c.built /\ Last(kept).k = "return" /\ Expr(Last(kept).value) \in {Name("None"), Name("locals()")}
      said == Statements(IF ends THEN Front(kept) ELSE kept)
      hasDoc == c.built /\ said # <<>> /\ said[1].head.k = "assign" /\ said[1].head.dests = <<Name("__doc__")>>
      doc == Statement([k |-> "expression", e |-> Name("doc")], <<>>)
      rest == IF hasDoc THEN Tail(said) ELSE said
  IN Opt(hasDoc \/ c.const0, doc)
     \o Opt(c.globals # <<>>, Statement([k |-> "global", names |-> c.globals], <<>>))
     \o IF rest = <<>> /\ c # module THEN Statement([k |-> "pass"], <<>>) ELSE rest

(***************************************************************************)
(* Nodes.                                                                  *)
(***************************************************************************)
A == Name("a")
B == Name("b")
C == Name("c")

Bin(op, l, r) == [k |-> IF op \in ToSet(CmpOps) THEN "compare" ELSE "binary", op |-> op, l |-> l, r |-> r]
Un(op, e) == [k |-> "unary", op |-> op, e |-> e]
If_else(a, negative, c, b) ==
  [k |-> "ternary", if_expr |-> a, negative |-> negative, cond |-> c, else_expr |-> b]
CallOf(f, args) == [k |-> "call", func |-> f, pparams |-> args, kwparams |-> <<>>, var |-> <<>>, kw |-> <<>>]
ItemOf(e, key) == [k |-> "subscr", name |-> e, key |-> key]
Tuple_(values, parens) == [k |-> "tuple", values |-> values, parens |-> parens]
Store(dest, src) == [k |-> "store", dest |-> dest, src |-> src]
Return_(e) == [k |-> "return", rettype |-> "return", value |-> e]
End == Return_(Name("None"))

\* A code object; how it was built and what it declares are given
CodeOf(name, nodes, built, doc, globals) ==
  [name |-> name, argCount |-> 0, kwOnlyArgCount |-> 0, varargs |-> FALSE, varkeywords |-> FALSE,
   coroutine |-> FALSE, localNames |-> <<"x", "y", "z", "w", "v", "u">>, const0 |-> doc, globals |-> globals,
   nodes |-> nodes, built |-> built]
Plain(name, nodes) == CodeOf(name, nodes, TRUE, FALSE, <<>>)
Function(c) == [k |-> "function", code |-> c, defargs |-> <<>>, kwdefargs |-> <<>>]
Class(c, bases) == [k |-> "class", code |-> c, bases |-> bases]
LambdaOf(e) == Function(Plain("<lambda>", <<Return_(e)>>))

Block(type, nodes) == [k |-> "block", blktype |-> type, nodes |-> nodes]
If(type, negative, cond, nodes) ==
  [k |-> "block", blktype |-> type, negative |-> negative, cond |-> cond, nodes |-> nodes]
Except(cond, as, nodes) == [k |-> "block", blktype |-> "except", cond |-> cond, exceptAs |-> as, nodes |-> nodes]
For(index, nodes) == [k |-> "block", blktype |-> "for", index |-> index, iter |-> C, nodes |-> nodes]
With(var, nodes) == [k |-> "block", blktype |-> "with", expr |-> A, var |-> var, nodes |-> nodes]

Module(nodes) == Plain("<module>", nodes)

(***************************************************************************)
(* Expressions: every operator under every other, on either side, and      *)
(* chains of three of a few.                                               *)
(***************************************************************************)
AllOps == ToSet(BinOps) \ {"."}
Compares == {"<", "==", "is not"}

Over(ops, operand) == {Bin(op, operand, C) : op \in ops} \union {Bin(op, C, operand) : op \in ops}
Unders == {Bin(op, A, B) : op \in AllOps \union Compares} \union {Un(op, A) : op \in ToSet(UnOps)}
          \union {Bin(".", A, B), CallOf(A, <<B>>), ItemOf(A, B), LambdaOf(A), Tuple_(<<A, B>>, TRUE), If_else(A, FALSE, B, C)}

Pairs ==
  UNION {Over(AllOps \union Compares, u) \union {Un(op, u) : op \in ToSet(UnOps)}
         \union {CallOf(A, <<u>>), ItemOf(A, u), If_else(u, FALSE, A, B),
                        If_else(A, FALSE, u, B), If_else(A, FALSE, B, u), If_else(A, TRUE, u, B), Bin(".", u, B)} : u \in Unders}

Few == {"-", "*", "**", "and", "<", "|"}
Triples ==
  LET twice == UNION {Over(Few, u) \union {Un("not", u), Un("-", u)} :
                      u \in {Bin(op, A, B) : op \in Few} \union {Un("not", A), Un("-", A)}}
  IN UNION {Over(Few, u) \union {Un("not", u), Un("-", u)} : u \in twice}

(***************************************************************************)
(* The nodes that are written without the parentheses they need: an        *)
(* operand of its parent's level on the wrong side, where the enum has it  *)
(* first or where it is the same; the left operand of @, which the enum    *)
(* has last; a power of a power; a comparison in a comparison that the     *)
(* enum has no later; the object of an attribute, a call or a subscript; a *)
(* conditional expression, and a condition under the not of a branch.      *)
(***************************************************************************)
Level(op) == CHOOSE i \in 1 .. 12 : op \in (Py!Levels \o <<{}, {"**"}>>)[i]
Compound == {"binary", "compare", "unary", "ternary"}
IsOperator(n) == n.k \in {"binary", "compare"} /\ n.op # "."
Operand(n) == n.k \in Compound /\ ~(n.k = "binary" /\ n.op = ".")

WrongRight(p, c) ==
  /\ IsOperator(p) /\ IsOperator(c) /\ p.k = "binary" /\ c.k = "binary"
  /\ \/ Level(p.op) = Level(c.op) /\ p.op \notin {"**", "and", "or"}
        /\ BinRank(c.op) <= BinRank(p.op) /\ <<p.op, c.op>> \notin {<<"-", "+">>, <<"/", "*">>}
     \/ p.op = "@" /\ Level(c.op) <= Level("@")

WrongLeft(p, c) ==
  /\ IsOperator(p) /\ IsOperator(c) /\ p.k = "binary" /\ c.k = "binary"
  /\ \/ p.op = "**" /\ c.op = "**"
     \/ p.op = "@" /\ Level(c.op) < Level("@")

WrongCompare(p, c) == p.k = "compare" /\ c.k = "compare" /\ Rank(CmpOps, c.op) <= Rank(CmpOps, p.op)

RECURSIVE Misprinted(_)
Misprinted(n) ==
  CASE n.k \in {"binary", "compare"} ->
         \/ WrongLeft(n, n.l) \/ WrongRight(n, n.r) \/ WrongCompare(n, n.l) \/ WrongCompare(n, n.r)
         \/ n.op = "." /\ n.l.k = "unary" /\ ~IsNot(n.l)
         \/ "ternary" \in {n.l.k, n.r.k}
         \/ Misprinted(n.l) \/ Misprinted(n.r)
    [] n.k = "unary" -> n.e.k = "ternary" \/ Misprinted(n.e)
    [] n.k = "call" -> Operand(n.func) \/ \E i \in DOMAIN n.pparams : Misprinted(n.pparams[i])
    [] n.k = "subscr" -> Operand(n.name) \/ Misprinted(n.name) \/ Misprinted(n.key)
    [] n.k = "ternary" ->
         \/ "ternary" \in {n.if_expr.k, n.cond.k}
         \/ n.negative /\ n.cond.k = "binary" /\ IsLogical(n.cond)
         \/ Misprinted(n.if_expr) \/ Misprinted(n.cond) \/ Misprinted(n.else_expr)
    [] OTHER -> FALSE

Expressions == {e \in Pairs \union Triples : ~Misprinted(e)}

(***************************************************************************)
(* Statements.                                                             *)
(***************************************************************************)
F == Name("f")
Sum == Bin("+", A, B)
ListOf(values) == [k |-> "list", values |-> values]
Imported(fromlist) == [k |-> "import", name |-> "m", fromlist |-> fromlist, stores |-> <<>>]
FromImport(stores) == [k |-> "import", name |-> "m", fromlist |-> <<>>, stores |-> stores]
Renamed(src, dest) == [src |-> src, dest |-> dest]
Chained(dests) == [k |-> "chainstore", dests |-> dests, src |-> Sum]
PrintOf(stream, values, eol) == [k |-> "print", stream |-> stream, values |-> values, eol |-> eol]
ExecIn(globals, locals) == [k |-> "exec", statement |-> A, globals |-> globals, locals |-> locals]
Clause(index, condition) == [index |-> index, iter |-> C, condition |-> condition]
Displays ==
  {ListOf(<<>>), ListOf(<<A>>), ListOf(<<ListOf(<<A, LambdaOf(Sum)>>), B>>), [k |-> "set", values |-> <<A, B>>],
   [k |-> "map", values |-> <<>>], [k |-> "map", values |-> <<<<A, B>>, <<B, LambdaOf(C)>>>>],
   [k |-> "const_map", keys |-> <<A, B>>, values |-> <<C, Sum>>],
   [k |-> "comprehension", result |-> Sum,
    generators |-> <<Clause(A, Sum), Clause(Tuple_(<<A, B>>, TRUE), Null)>>],
   Tuple_(<<>>, TRUE), Tuple_(<<A>>, TRUE), Tuple_(<<Sum, ListOf(<<A, B>>)>>, TRUE),
   ItemOf(A, Tuple_(<<A, B>>, FALSE)), LambdaOf(LambdaOf(A)), LambdaOf(ListOf(<<A, LambdaOf(B), C>>)),
   [CallOf(F, <<A>>) EXCEPT !.kwparams = <<<<"x", Sum>>>>, !.var = <<B>>, !.kw = <<C>>]}
  \union {ItemOf(A, [k |-> "slice", l |-> l, r |-> r]) : l \in {Null, B}, r \in {Null, Sum}}

Simples ==
  Displays \union {Store(A, d) : d \in Displays} \union
  {Null, Store(A, Sum), Store(Tuple_(<<A, B>>, FALSE), C), Store(A, Bin("+=", A, Sum)), Store(ItemOf(A, B), LambdaOf(C)),
   Store(A, Imported(<<>>)), Store(Name("m"), Imported(<<>>)), Store(A, Imported(<<"x", "y">>)),
   FromImport(<<>>), FromImport(<<Renamed("x", "x")>>), FromImport(<<Renamed("x", "y"), Renamed("z", "z")>>),
   Chained(<<A, B>>), [k |-> "delete", e |-> ItemOf(A, B)], [k |-> "raise", params |-> <<A, B>>],
   [k |-> "annotated_var", name |-> "a", annotation |-> B],
   PrintOf(<<>>, <<A, Sum>>, TRUE), PrintOf(<<B>>, <<A>>, FALSE), PrintOf(<<>>, <<>>, TRUE),
   ExecIn(Null, Null), ExecIn(B, B), ExecIn(B, C)}

\* Every signature of up to two positional and two keyword-only parameters,
\* where the printer writes the parameters Python had: not a * or ** of a
\* lambda in an expression, nor its keyword-only parameters unless there are
\* as many positional ones; not *args together with keyword-only parameters.
Signed(name, n, kwonly, star, starstar) ==
  [Plain(name, <<Return_(Sum)>>) EXCEPT !.argCount = n, !.kwOnlyArgCount = kwonly, !.varargs = star,
                                        !.varkeywords = starstar]
Defaults(n) == SubSeq(<<LambdaOf(A), Sum>>, 1, n)
Functions(name) ==
  {[k |-> "function", code |-> Signed(name, n, kwonly, star, starstar), defargs |-> Defaults(d),
    kwdefargs |-> Defaults(kd)] :
   n \in 0 .. 2, kwonly \in 0 .. 2, star \in BOOLEAN, starstar \in BOOLEAN, d \in 0 .. 2, kd \in 0 .. 2}
Sound(f) == Len(f.defargs) <= f.code.argCount /\ Len(f.kwdefargs) <= f.code.kwOnlyArgCount
Printable(f) == Sound(f) /\ ~(f.code.varargs /\ f.code.kwOnlyArgCount > 0)
PrintableInside(f) ==
  Sound(f) /\ ~f.code.varargs /\ ~f.code.varkeywords /\ f.code.kwOnlyArgCount \in {0, f.code.argCount}

Signatures ==
  {Store(F, f) : f \in {g \in Functions("f") \union Functions("<lambda>") : Printable(g)}}
  \union {CallOf(F, <<f>>) : f \in {g \in Functions("<lambda>") : PrintableInside(g)}}

(***************************************************************************)
(* Suites in suites.  A function's or a class's list may end with the      *)
(* return the compiler adds, be built with an error, have a docstring or   *)
(* declare globals.                                                        *)
(***************************************************************************)
Def(nodes, built, doc, globals) == Store(F, Function(CodeOf("f", nodes, built, doc, globals)))
ClassDoc == Store(Name("__doc__"), Name("doc"))
Names == <<Store(Name("__module__"), Name("__name__")), Store(Name("__qualname__"), Name("C"))>>
ClassOf(nodes, built) ==
  Store(Name("C"), Class(CodeOf("C", Names \o nodes \o <<Return_(Name("locals()"))>>, built, FALSE, <<>>), <<>>))

Compounds(body) ==
  {If("if", TRUE, A, body), Block("container", <<Block("try", body), Except(Null, Null, body)>>),
   For(A, body), With(B, body),
   Def(body \o <<End>>, TRUE, FALSE, <<>>), Def(<<Return_(A)>> \o body, FALSE, TRUE, <<"x", "y">>),
   Def(body \o <<[Return_(A) EXCEPT !.rettype = "yield"], End>>, TRUE, TRUE, <<"x">>),
   ClassOf(body, TRUE), ClassOf(<<ClassDoc>> \o body, TRUE), ClassOf(body, FALSE)}

Once ==
  Compounds(<<>>) \union Compounds(<<Store(A, LambdaOf(B))>>)
  \union {If("while", FALSE, Sum, <<[k |-> "keyword", word |-> "break"]>>), With(Null, <<A>>),
          Block("container", <<Block("try", <<A>>), Except(A, B, <<>>), Except(Null, Null, <<A>>), Block("else", <<>>)>>),
          Block("container", <<Block("try", <<A>>), Except(A, Null, <<B>>), Block("else", <<C>>), Block("finally", <<A>>)>>)}
Twice == UNION {Compounds(<<s>>) \union Compounds(<<A, s, B>>) : s \in Once}
Thrice == UNION {{Def(<<s, End>>, TRUE, TRUE, <<"x">>), ClassOf(<<s>>, TRUE), If("while", FALSE, A, <<s>>)} : s \in Twice}

\* Nodes print_src has no case for; a lambda whose keyword-only parameter is
\* looked for past the local names
NotPrinted == {[k |-> "unsupported"], [k |-> "awaitable", expression |-> A], Class(Plain("C", <<End>>), <<A>>)}
Missing == Function([Signed("<lambda>", 2, 1, FALSE, FALSE) EXCEPT !.localNames = <<"x", "y", "z">>])

Awaited == [Return_([k |-> "awaitable", expression |-> A]) EXCEPT !.rettype = "yield_from"]
Coroutine == [CodeOf("f", <<Awaited, [Return_(Sum) EXCEPT !.rettype = "yield_from"]>>, TRUE, FALSE, <<>>)
              EXCEPT !.coroutine = TRUE]

Modules ==
  {Module(<<e, End>>) : e \in {e \in Pairs \union Triples : ~Misprinted(e)}}
  \union {Module(<<s, End>>) : s \in Simples \union Signatures}
  \union {Module(<<Store(F, Function(Coroutine)), End>>)}
  \union {CodeOf("<module>", <<If("if", FALSE, A, <<B>>), If("elif", TRUE, B, <<s>>), Block("else", <<A>>)>>,
                 built, FALSE, <<>>) : s \in Once, built \in BOOLEAN}
  \union {Module(<<ClassDoc, s, A, End>>) : s \in Thrice}
  \union {Module(<<Store(A, Function(CodeOf("<lambda>", <<Return_(B)>>, FALSE, FALSE, <<>>))), B, End>>),
          Module(<<CallOf(F, <<Missing>>), End>>)}
  \union {Module(<<n, A, End>>) : n \in NotPrinted}

\* a - (b - c)
Difference == {Module(<<Bin("-", A, Bin("-", B, C)), End>>)}

(***************************************************************************)
(* All the nodes in them.                                                  *)
(***************************************************************************)
InAll(fields, n) == UNION {ToSet(n[f]) : f \in fields}

Children(n) ==
  CASE n.k \in {"binary", "compare", "slice"} -> {n.l, n.r}
    [] n.k \in {"unary", "delete"} -> {n.e}
    [] n.k = "call" -> {n.func} \union InAll({"pparams", "var", "kw"}, n) \union {p[2] : p \in ToSet(n.kwparams)}
    [] n.k = "raise" -> ToSet(n.params)
    [] n.k = "print" -> InAll({"stream", "values"}, n)
    [] n.k = "exec" -> {n.statement, n.globals, n.locals}
    [] n.k \in {"list", "set", "tuple"} -> ToSet(n.values)
    [] n.k = "map" -> UNION {{p[1], p[2]} : p \in ToSet(n.values)}
    [] n.k = "const_map" -> InAll({"keys", "values"}, n)
    [] n.k = "comprehension" -> {n.result} \union UNION {{g.index, g.iter, g.condition} : g \in ToSet(n.generators)}
    [] n.k = "subscr" -> {n.name, n.key}
    [] n.k = "ternary" -> {n.if_expr, n.cond, n.else_expr}
    [] n.k = "return" -> {n.value}
    [] n.k = "awaitable" -> {n.expression}
    [] n.k = "annotated_var" -> {n.annotation}
    [] n.k = "block" ->
         ToSet(n.nodes) \union {n[f] : f \in DOMAIN n \intersect {"cond", "index", "iter", "exceptAs", "expr", "var"}}
    [] n.k = "function" -> InAll({"nodes"}, n.code) \union InAll({"defargs", "kwdefargs"}, n)
    [] n.k = "class" -> InAll({"nodes"}, n.code) \union ToSet(n.bases)
    [] n.k = "store" -> {n.src, n.dest}
    [] n.k = "chainstore" -> {n.src} \union ToSet(n.dests)
    [] n.k = "code" -> ToSet(n.code.nodes)
    [] OTHER -> {}

RECURSIVE Under(_)
Under(ns) == IF ns = {} THEN {} ELSE ns \union Under(UNION {Children(n) : n \in ns})
NodesOf(modules) == Under(UNION {ToSet(c.nodes) : c \in modules})
UnderModules == NodesOf(Modules)
ModuleNodes == UnderModules      \* TLC evaluates a constant's definition at each use
DifferenceNodes == NodesOf(Difference)

(***************************************************************************)
(* Properties.                                                             *)
(***************************************************************************)
Done == todo = <<>> /\ ~threw
Meaning == OfCode(module) \o Remark(module)
Written(token) == \E i \in DOMAIN out : token \in ToSet(out[i].toks)

\* The text read as Python says what the nodes say: the same expressions, the
\* same statements under the same headers, no suite empty, every docstring and
\* global declaration in the function or class it belongs to, and a warning
\* after exactly those code objects that were built with an error.
ReadsBack == Done /\ ~Written("<NODE>") => Py!Read(out) = Meaning

\* Whatever is printed comes to an end
Finishes == <>(todo = <<>>)
=============================================================================
