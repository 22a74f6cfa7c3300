----------------------------- MODULE PythonText -----------------------------
(***************************************************************************)
(* How Python reads a text (the language reference: lexical analysis of    *)
(* lines and indentation, the precedence of operators, signatures).        *)
(* Nothing here is the program's: it is what its output is read with.      *)
(***************************************************************************)
LOCAL INSTANCE Integers
LOCAL INSTANCE Sequences
LOCAL INSTANCE FiniteSets
LOCAL INSTANCE SequencesExt
LOCAL INSTANCE Functions

None == [k |-> "null"]
Error == [k |-> "error"]
Id(id) == [k |-> "name", id |-> id]
Binary(op, l, r) == [k |-> "binary", op |-> op, l |-> l, r |-> r]
Unary(op, e) == [k |-> "unary", op |-> op, e |-> e]
Item(star, key, e) == [star |-> star, key |-> key, e |-> e]

(***************************************************************************)
(* Expressions.  The binary operators by level, loosest first; above them  *)
(* the levels of a sign, a power and a primary.                            *)
(***************************************************************************)
Comparisons == {"<", "<=", "==", "!=", ">", ">=", "in", "not in", "is", "is not"}
Levels == <<{"or"}, {"and"}, {"not"}, Comparisons, {"|"}, {"^"}, {"&"}, {"<<", ">>"}, {"+", "-"},
            {"*", "/", "//", "%", "@"}, {"sign"}, {"**"}>>
Test == 0
Not == 3
Compare == 4
Operand == 5      \* tighter than a comparison: the target of a for
Sign == 11
Power == 12
Primary == 13

Closers == {")", "]", "}", ":", "=", ",", "if", "else", "for", "in", "as", ""}
NoAtoms == Closers \union {"lambda", "not", "and", "or", "return", "yield", "pass", "*", "**", ".", "<NODE>"}

\* One expression; one, or a tuple without parentheses; and sequences
Productions == {"expr", "list", "operands", "many", "items", "entries", "generators", "trailers",
                "assigned"}

\* What is done to a primary: attribute, call, subscript
Applied(e, trailer) ==
  CASE trailer.k = "." -> Binary(".", e, trailer.of)
    [] trailer.k = "(" -> [k |-> "call", func |-> e, items |-> trailer.of]
    [] OTHER -> [k |-> "subscr", name |-> e, key |-> trailer.of]

(***************************************************************************)
(* A reading is what was read, e, and the place after it.  The parser of   *)
(* tokens maps what, n, i to the reading of the production what from place *)
(* i on, its expressions at level n; what cannot be read is an Error that  *)
(* reaches to the end.                                                     *)
(***************************************************************************)
Parser(ts) ==
  LET Tok(i) == IF i \in DOMAIN ts THEN ts[i] ELSE ""
      Got(e, at) == [e |-> e, at |-> at]
      Wrong == Got(Error, Len(ts) + 1)
      Upto(r, token, e) == IF Tok(r.at) = token THEN Got(e, r.at + 1) ELSE Wrong
      parse[what \in Productions, n \in 0 .. Primary, i \in Nat] ==
        LET expr(level, at) == parse["expr", level, at]
            Listed(level, at) == parse["list", level, at]
            OrNone(level, at) == IF Tok(at) \in Closers THEN Got(None, at) ELSE expr(level, at)
            Then(r, production) ==     \* r first, and more of the production after a comma
              LET more == parse[production, n, r.at + 1] IN
              IF Tok(r.at) = "," THEN Got(<<r.e>> \o more.e, more.at) ELSE Got(<<r.e>>, r.at)
            Atom ==
              LET one == Listed(Test, i + 1)
                  first == expr(Test, i + 1)
                  all == parse["many", Test, i + 1]
                  pairs == parse["entries", Test, i + 1]
                  gens == parse["generators", Test, first.at]
              IN CASE Tok(i) = "(" /\ Tok(i + 1) = ")" -> Got([k |-> "tuple", values |-> <<>>], i + 2)
                   [] Tok(i) = "(" /\ Tok(i + 1) # ")" -> Upto(one, ")", one.e)
                   [] Tok(i) = "[" /\ Tok(first.at) = "for" ->
                        Upto(gens, "]", [k |-> "comprehension", result |-> first.e, generators |-> gens.e])
                   [] Tok(i) = "[" /\ Tok(first.at) # "for" -> Upto(all, "]", [k |-> "list", values |-> all.e])
                   [] Tok(i) = "{" /\ (Tok(i + 1) = "}" \/ Tok(first.at) = ":") ->
                        Upto(pairs, "}", [k |-> "map", values |-> pairs.e])
                   [] Tok(i) = "{" /\ ~(Tok(i + 1) = "}" \/ Tok(first.at) = ":") ->
                        Upto(all, "}", [k |-> "set", values |-> all.e])
                   [] Tok(i) \in NoAtoms -> Wrong
                   [] OTHER -> Got(Id(Tok(i)), i + 1)
            Lambda ==
              LET params == parse["items", Test, i + 1]
                  body == expr(Test, Upto(params, ":", None).at)
              IN Got([k |-> "lambda", params |-> params.e, body |-> body.e], body.at)
            Conditional ==
              LET r == expr(1, i)
                  cond == expr(1, r.at + 1)
                  other == expr(Test, Upto(cond, "else", None).at)
              IN IF Tok(r.at) # "if" THEN r
                 ELSE Got([k |-> "ternary", if_expr |-> r.e, cond |-> cond.e, else_expr |-> other.e], other.at)
            Comparison ==              \* a < b < c is neither (a < b) < c nor a < (b < c)
              LET l == expr(Operand, i)
                  r == expr(Operand, l.at + 1)
              IN CASE Tok(l.at) \notin Comparisons -> l
                   [] Tok(l.at) \in Comparisons /\ Tok(r.at) \in Comparisons -> Wrong
                   [] OTHER -> Got([k |-> "compare", op |-> Tok(l.at), l |-> l.e, r |-> r.e], r.at)
            PowerOf ==
              LET l == expr(Primary, i)
                  r == expr(Sign, l.at + 1)
              IN IF Tok(l.at) = "**" THEN Got(Binary("**", l.e, r.e), r.at) ELSE l
            Chain ==                   \* operands of one level, from the left
              LET l == expr(n + 1, i)
                  more == parse["operands", n, l.at]
              IN Got(FoldLeft(LAMBDA e, o : Binary(o.op, e, o.e), l.e, more.e), more.at)
            Prefix == LET r == expr(n, i + 1) IN Got(Unary(Tok(i), r.e), r.at)
            Trailer ==
              LET items == parse["items", Test, i + 1]
                  index == IF Tok(i + 1) = ":" THEN Got(None, i + 1) ELSE Listed(Test, i + 1)
                  to == OrNone(Test, index.at + 1)
              IN CASE Tok(i) = "." -> Got([k |-> ".", of |-> Id(Tok(i + 1))], i + 2)
                   [] Tok(i) = "(" -> Upto(items, ")", [k |-> "(", of |-> items.e])
                   [] Tok(i) = "[" /\ Tok(index.at) = ":" ->
                        Upto(to, "]", [k |-> "[", of |-> [k |-> "slice", l |-> index.e, r |-> to.e]])
                   [] OTHER -> Upto(index, "]", [k |-> "[", of |-> index.e])
            ItemAt ==                  \* e, key = e, *e, **e, and a * alone
              LET star == IF Tok(i) \in {"*", "**"} THEN Tok(i) ELSE ""
                  keyed == star = "" /\ Tok(i + 1) = "="
                  r == OrNone(Test, IF keyed THEN i + 2 ELSE IF star = "" THEN i ELSE i + 1)
              IN Got(Item(star, IF keyed THEN Tok(i) ELSE "", r.e), r.at)
            Entry ==
              LET key == expr(Test, i)
                  value == expr(Test, Upto(key, ":", None).at)
              IN Got(<<key.e, value.e>>, value.at)
        IN CASE what = "list" ->
                  LET r == expr(n, i)
                      all == parse["many", n, i]
                  IN IF Tok(r.at) = "," THEN Got([k |-> "tuple", values |-> all.e], all.at) ELSE r
             [] what = "many" -> IF Tok(i) \in Closers THEN Got(<<>>, i) ELSE Then(expr(n, i), what)
             [] what = "items" -> IF Tok(i) \in Closers THEN Got(<<>>, i) ELSE Then(ItemAt, what)
             [] what = "entries" -> IF Tok(i) \in Closers THEN Got(<<>>, i) ELSE Then(Entry, what)
             [] what = "operands" ->
                  LET r == expr(n + 1, i + 1)
                      more == parse[what, n, r.at]
                  IN IF Tok(i) \notin Levels[n] THEN Got(<<>>, i)
                     ELSE Got(<<[op |-> Tok(i), e |-> r.e]>> \o more.e, more.at)
             [] what = "trailers" ->
                  LET more == parse[what, n, Trailer.at] IN
                  IF Tok(i) \notin {".", "(", "["} THEN Got(<<>>, i)
                  ELSE Got(<<Trailer.e>> \o more.e, more.at)
             [] what = "generators" ->
                  LET index == Listed(Operand, i + 1)
                      iter == expr(1, Upto(index, "in", None).at)
                      cond == IF Tok(iter.at) = "if" THEN expr(1, iter.at + 1) ELSE Got(None, iter.at)
                      more == parse[what, n, cond.at]
                  IN IF Tok(i) # "for" THEN Got(<<>>, i)
                     ELSE Got(<<[index |-> index.e, iter |-> iter.e, condition |-> cond.e]>> \o more.e, more.at)
             [] what = "assigned" ->
                  LET r == Listed(n, i)
                      more == parse[what, n, r.at + 1]
                  IN IF Tok(r.at) = "=" THEN Got(<<r.e>> \o more.e, more.at) ELSE Got(<<r.e>>, r.at)
             [] what = "expr" /\ n = Test -> IF Tok(i) = "lambda" THEN Lambda ELSE Conditional
             [] what = "expr" /\ n = Not -> IF Tok(i) = "not" THEN Prefix ELSE expr(n + 1, i)
             [] what = "expr" /\ n = Compare -> Comparison
             [] what = "expr" /\ n = Sign -> IF Tok(i) \in {"+", "-", "~"} THEN Prefix ELSE expr(n + 1, i)
             [] what = "expr" /\ n = Power -> PowerOf
             [] what = "expr" /\ n = Primary ->
                  LET more == parse["trailers", n, Atom.at] IN Got(FoldLeft(Applied, Atom.e, more.e), more.at)
             [] OTHER -> Chain
  IN parse

(***************************************************************************)
(* Lines and statements.  Inside brackets an end of line says nothing; a   *)
(* comment ends its line; a line without words is no line.                 *)
(***************************************************************************)
Comment == "# WARNING"
Spoken(line) == SelectSeq(line.toks, LAMBDA t : t # Comment)
Depth(toks) ==
  Cardinality({i \in DOMAIN toks : toks[i] \in {"(", "[", "{"}})
  - Cardinality({i \in DOMAIN toks : toks[i] \in {")", "]", "}"}})

\* A comment outside of brackets is kept as a line of its own: it is a warning
LogicalLines(lines) ==
  LET line(l, toks) == IF toks = <<>> THEN <<>> ELSE <<[ind |-> l.ind, toks |-> toks]>>
      remark(l) == IF Comment \in Range(l.toks) /\ Depth(l.toks) = 0 THEN <<Comment>> ELSE <<>>
  IN FoldLeft(LAMBDA so, l :
                IF so # <<>> /\ Depth(Last(so).toks) > 0
                  THEN [so EXCEPT ![Len(so)].toks = @ \o Spoken(l)]
                  ELSE so \o line(l, Spoken(l)) \o line(l, remark(l)),
              <<>>, lines)

\* A production from place i on, which must reach the end of the tokens
WholeFrom(ts, p, what, i) ==
  LET r == p[what, Test, i] IN IF r.at = Len(ts) + 1 THEN r.e ELSE Error
At(ts, i) == IF i \in DOMAIN ts THEN ts[i] ELSE ""

\* import or from: a as b, c from place i on
Names(ts, i) ==
  LET starts == SetToSortSeq({j \in i .. Len(ts) : j = i \/ ts[j - 1] = ","}, <)
  IN [n \in DOMAIN starts |->
        LET j == starts[n] IN [src |-> ts[j], dest |-> IF At(ts, j + 1) = "as" THEN At(ts, j + 2) ELSE ts[j]]]

\* An expression and its name: e, e as name
Named(ts, p) ==
  LET r == p["list", Test, 2]
      named == At(ts, r.at) = "as"
  IN [e |-> IF Len(ts) = 1 THEN None ELSE IF named \/ r.at = Len(ts) + 1 THEN r.e ELSE Error,
      as |-> IF named THEN WholeFrom(ts, p, "list", r.at + 1) ELSE None]

\* A def and its parameters or a class and its bases, its word at place i
Signature(ts, p, i) ==
  LET r == p["items", Test, i + 3]
      closed == At(ts, i + 2) = "(" /\ At(ts, r.at) = ")" /\ r.at = Len(ts)
  IN [k |-> ts[i], name |-> At(ts, i + 1),
      items |-> IF closed THEN r.e ELSE IF Len(ts) = i + 1 THEN <<>> ELSE <<Error>>]

ForIn(ts, p) ==
  LET target == p["list", Operand, 2] IN
  <<target.e, IF At(ts, target.at) = "in" THEN WholeFrom(ts, p, "list", target.at + 1) ELSE Error>>

\* The head of a compound statement, without its colon
Header(ts, p) ==
  LET word == ts[1] IN
  CASE word \in {"if", "elif", "while"} -> [k |-> word, e |-> WholeFrom(ts, p, "list", 2)]
    [] word = "for" -> [k |-> word, e |-> ForIn(ts, p)]
    [] word \in {"except", "with"} -> [k |-> word, e |-> Named(ts, p)]
    [] word \in {"else", "try", "finally"} -> [k |-> word, e |-> IF Len(ts) = 1 THEN None ELSE Error]
    [] word = "async" -> [k |-> word, e |-> Signature(ts, p, 2)]
    [] OTHER -> Signature(ts, p, 1)

Augmented == {"+=", "-=", "*=", "/=", "%=", "**=", "<<=", ">>=", "&=", "^=", "|=", "//=", "@="}

Assignment(ts, p) ==
  LET r == p["assigned", Test, 1]
      value == IF r.at = Len(ts) + 1 THEN Last(r.e) ELSE Error
  IN IF Len(r.e) = 1 THEN [k |-> "expression", e |-> value]
     ELSE [k |-> "assign", dests |-> Front(r.e), e |-> value]

PrintTo(ts, p) ==
  LET to == At(ts, 2) = ">>"
      r == p["many", Test, IF to THEN 3 ELSE 2]
  IN [k |-> "print", to |-> to, e |-> IF r.at = Len(ts) + 1 THEN r.e ELSE <<Error>>, eol |-> Last(ts) # ","]

ExecIn(ts, p) ==
  LET r == p["list", Operand, 2] IN
  [k |-> "exec", e |-> r.e, in |-> IF At(ts, r.at) = "in" THEN WholeFrom(ts, p, "many", r.at + 1) ELSE <<>>]

Simple(ts, p) ==
  LET word == ts[1]
      l == p["list", Test, 1]
      r == WholeFrom(ts, p, "list", l.at + 1)
  IN CASE word \in {"return", "yield", "yield from", "await", "del"} ->
            [k |-> word, e |-> WholeFrom(ts, p, "list", 2)]
       [] word = "raise" -> [k |-> word, e |-> WholeFrom(ts, p, "many", 2)]
       [] word = "print" -> PrintTo(ts, p)
       [] word = "exec" -> ExecIn(ts, p)
       [] word = "from" -> [k |-> word, name |-> ts[2], names |-> Names(ts, 4)]
       [] word = "import" -> [k |-> word, names |-> Names(ts, 2)]
       [] word = "global" -> [k |-> word, names |-> SelectSeq(Tail(ts), LAMBDA t : t # ",")]
       [] word = Comment -> [k |-> "warning"]
       [] word \in {"pass", "break", "continue"} -> [k |-> IF Len(ts) = 1 THEN word ELSE "error"]
       [] At(ts, l.at) \in Augmented -> [k |-> "augmented", op |-> ts[l.at], l |-> l.e, r |-> r]
       [] At(ts, l.at) = ":" -> [k |-> "annotated", l |-> l.e, r |-> r]
       [] OTHER -> Assignment(ts, p)

Compound == {"if", "elif", "else", "while", "for", "try", "except", "finally", "with", "async",
             "def", "class"}

HeadOf(ts, opens, p) == IF opens THEN Header(ts, p) ELSE Simple(ts, p)

\* suite[i, ind]: the statements from line i on as long as they are indented by ind
Read(lines) ==
  LET ls == LogicalLines(lines)
      Ind(i) == IF i \in DOMAIN ls THEN ls[i].ind ELSE -1
      suite[i \in 1 .. Len(ls) + 1, ind \in Nat] ==
        LET toks == ls[i].toks
            opens == toks[1] \in Compound /\ Last(toks) = ":"
            below == IF opens /\ Ind(i + 1) > ind THEN suite[i + 1, Ind(i + 1)] ELSE [e |-> <<>>, at |-> i + 1]
            body == IF opens /\ below.e = <<>> THEN <<Error>> ELSE below.e
            said == IF opens THEN Front(toks) ELSE toks
            head == IF Ind(i) > ind THEN Error ELSE HeadOf(said, opens, Parser(said))
            more == suite[below.at, ind]
        IN IF Ind(i) < ind THEN [e |-> <<>>, at |-> i]
           ELSE [e |-> <<[head |-> head, body |-> body]>> \o more.e, at |-> more.at]
  IN suite[1, 0].e
=============================================================================
