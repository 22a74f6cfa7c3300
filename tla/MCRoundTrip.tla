---------------------------- MODULE MCRoundTrip ----------------------------
(***************************************************************************)
(* BuildFromCode on what CPython 2.7 and 3.14 compile: does the decompiler *)
(* find the statements, nested as they were?                               *)
(***************************************************************************)
EXTENDS BuildFromCode, CPython27
Py314 == INSTANCE CPython314

-----------------------------------------------------------------------------
(* The source programs: every compound statement, with bodies that hold    *)
(* another one, alone or with a plain statement before or after it.        *)
A == [s |-> "assign"]
X == [s |-> "call"]
Break_   == [s |-> "break"]
Continue == [s |-> "continue"]
IfExp    == [s |-> "ifexp"]

If(c, body, orelse)    == [s |-> "if", cond |-> c, body |-> body, orelse |-> orelse]
While(c, body, orelse) == [s |-> "while", cond |-> c, body |-> body, orelse |-> orelse]
For(body, orelse)      == [s |-> "for", body |-> body, orelse |-> orelse]
TryExcept(c, body, handler, orelse) ==
  [s |-> "tryexcept", cond |-> c, body |-> body, handler |-> handler, orelse |-> orelse]
TryFinally(body, final) == [s |-> "tryfinally", body |-> body, final |-> final]
With(c, body) == [s |-> "with", cond |-> c, body |-> body]

\* the compound statements with x as one of the bodies and plain ones beside it
Around(x) ==
  {If(c, x, y) : c \in {"c", "and", "or", "not"}, y \in {<<>>, <<A>>}}
    \cup {If("c", <<A>>, x), While("c", x, <<>>), For(x, <<>>), For(x, <<A>>)}
    \cup {TryExcept(c, x, <<A>>, <<>>) : c \in {"bare", "typed"}}
    \cup {TryExcept(c, <<A>>, x, <<>>) : c \in {"bare", "typed"}}
    \cup {TryFinally(x, <<A>>), TryFinally(<<A>>, x)}
    \cup {With(c, x) : c \in {"as", "none"}}
    \cup {IfExp}

Simple == Around(<<A>>)
Bodies == UNION {{<<x>>, <<A, x>>, <<x, X>>} : x \in Simple}
Leaving == {<<If("c", <<A, x>>, <<>>), X>> : x \in {Break_, Continue}}
Nested == UNION {Around(x) : x \in Bodies}
            \cup {While("c", x, <<>>) : x \in Leaving} \cup {For(x, <<>>) : x \in Leaving}

-----------------------------------------------------------------------------
(* What comes back unchanged.  where says which body of which statement    *)
(* the statements are.  Left out are                                       *)
(*   - an if or a try ... except that ends a loop's body: the jump to its  *)
(*     end has become the loop's own jump back, read as a continue;        *)
(*   - a try ... except that ends a body left by a jump;                   *)
(*   - an if that is all of an if's body: read as one condition;           *)
(*   - an else that starts with an if and goes on, or with a conditional   *)
(*     expression: read as an elif;                                        *)
(*   - an else in a finally, a with followed by a statement in a handler   *)
(*     or a finally, and a statement after a try ... except inside a       *)
(*     try ... finally.                                                    *)
RECURSIVE Kept(_, _)
Kept(where, body) ==
  \A i \in DOMAIN body :
    LET st    == body[i]
        last  == i = Len(body)
        alone == Len(body) = 1
    IN CASE st.s = "if" ->
              /\ Kept("then", st.body) /\ Kept("else", st.orelse)
              /\ ~(where = "loop" /\ last)
              /\ ~(where = "then" /\ alone /\ st.orelse = <<>> /\ st.cond # "or")
              /\ ~(where = "else" /\ i = 1 /\ ~alone)
              /\ ~(where = "finally" /\ st.orelse # <<>>)
         [] st.s = "ifexp" -> ~(where = "else" /\ i = 1)
         [] st.s \in {"while", "for"} -> Kept("loop", st.body) /\ Kept("loopelse", st.orelse)
         [] st.s = "tryexcept" ->
              /\ Kept("try", st.body) /\ Kept("handler", st.handler)
              /\ ~(where \in {"loop", "then", "handler"} /\ last)
              /\ ~(where = "guarded" /\ ~last)
         [] st.s = "tryfinally" -> Kept("guarded", st.body) /\ Kept("finally", st.final)
         [] st.s = "with" ->
              /\ Kept("with", st.body)
              /\ ~(where \in {"handler", "finally"} /\ ~last)
         [] OTHER -> TRUE

Sources == {x \in {<<y>> : y \in Simple \cup Nested} \cup {<<y, A>> : y \in Simple \cup Nested} :
              Kept("module", x)}

-----------------------------------------------------------------------------
(* Functions with try and for statements, for 3.14.  Left out are          *)
(*   - every if: the code it skips is taken to end before the cache of the *)
(*     jump, so its last statement is found outside;                       *)
(*   - a try inside the body of another one, which is found beside it.     *)
Clauses == {"bare", "typed", "as"}
Try(c, body, handler) == TryExcept(c, body, handler, <<>>)
Loop(body) == For(body, <<>>)

Sides(x) == {<<x>>, <<A, x>>, <<x, X>>, <<A, x, A>>}
Tries == {Try(c, <<A>>, <<X>>) : c \in Clauses}
Loops == UNION {Sides(Loop(<<A>>)), Sides(Loop(<<Loop(<<X>>)>>)), Sides(Loop(<<Loop(<<A>>), X>>))}
Guards == {Try(c, body, <<A>>) : c \in Clauses, body \in Loops}
            \cup {Try(c, <<A>>, handler) : c \in Clauses, handler \in Loops}
Looped == {Loop(body) : body \in UNION {Sides(x) : x \in Tries \cup {Loop(y) : y \in UNION {Sides(z) : z \in Tries}}}}
Sources314 ==
  UNION {Sides(x) : x \in Guards \cup Looped}
    \cup {<<x, y>> : x \in Tries, y \in Tries} \cup {<<x, A, y, z>> : x \in Tries, y \in Tries, z \in Tries}

Compilations == << {Compiled(x) : x \in Sources}, {Py314!Compiled314(x) : x \in Sources314} >>

-----------------------------------------------------------------------------
(* The tree found, in the form the compiler model gives the expected one:  *)
(* containers and empty elses are not printed.                             *)
RECURSIVE Plain(_)
Plain(n) == Node(n.kind, n.id, [i \in DOMAIN n.args |-> Plain(n.args[i])])

Expr(bs, n) ==
  IF n.kind = "store" /\ n.args[1].kind = "ternary"
  THEN LET t == n.args[1]
       IN StoreNode([clause |-> "ifexp", neg |-> bs.heap[t.id].neg, expr |-> Plain(bs.heap[t.id].expr),
                     then |-> Plain(t.args[1]), else |-> Plain(t.args[2])], Plain(n.args[2]))
  ELSE Plain(n)

RECURSIVE View(_, _)
View(bs, ns) ==
  IF ns = <<>> THEN <<>>
  ELSE LET n     == ns[1]
           blk   == bs.heap[n.id]
           shown == IF n.kind # "block" THEN <<Expr(bs, n)>>
                    ELSE IF blk.type = "CONTAINER" THEN View(bs, blk.nodes)
                    ELSE IF blk.type = "ELSE" /\ blk.nodes = <<>> THEN <<>>
                    ELSE <<Clause(blk.type, blk.neg, Plain(blk.expr), Plain(blk.var), View(bs, blk.nodes))>>
       IN shown \o View(bs, Tail(ns))

Found == View(b, b.heap[MAIN].nodes)
Expected == Append(prog.tree, Node("return", 0, <<Null>>))

(* Decompiling what was compiled gives the source's statements back: the   *)
(* same clauses with the same conditions, each statement in the clause it  *)
(* was in and in the same order.                                           *)
RoundTrip == pc = "done" => Found = Expected
=============================================================================
