----------------------------- MODULE CPython27 -----------------------------
(***************************************************************************)
(* What CPython 2.7 compiles a small source language to: the input         *)
(* BuildFromCode is written for.  External: modelled after the bytecode of *)
(* the repository's tests/compiled/*.2.7.pyc.                              *)
(*                                                                         *)
(* A statement is a record whose field s says which; a body is a sequence  *)
(* of statements.  Asm gives the instructions of a body placed at an       *)
(* offset together with the tree the decompiler should find: a sequence of *)
(* statement nodes and of clauses [clause, neg, expr, var, body].  Names   *)
(* and constants are numbered by the offset that uses them, so that no two *)
(* statements are alike.                                                   *)
(***************************************************************************)
LOCAL INSTANCE AstBlocks

I(op, arg) == [op |-> op, arg |-> arg]

Clause(kind, neg, expr, var, body) ==
  [clause |-> kind, neg |-> neg, expr |-> expr, var |-> var, body |-> body]

Const(at) == Node("object", at + 2, <<>>)

\* a condition placed at an offset: c, not c, c and d, c or d
CondCode(c, at, then, else) ==
  LET jump(o, t) == I(o, t)
      first == I("LOAD_NAME", at + 1)
      second == I("LOAD_NAME", at + 3)
  IN CASE c = "c"   -> <<first, jump("POP_JUMP_IF_FALSE", else)>>
       [] c = "not" -> <<first, jump("POP_JUMP_IF_TRUE", else)>>
       [] c = "and" -> <<first, jump("POP_JUMP_IF_FALSE", else),
                         second, jump("POP_JUMP_IF_FALSE", else)>>
       [] c = "or"  -> <<first, jump("POP_JUMP_IF_TRUE", then),
                         second, jump("POP_JUMP_IF_FALSE", else)>>

CondLen(c) == IF c \in {"c", "not"} THEN 2 ELSE 4

CondTree(c, at) ==
  LET x == NameNode(at + 1)
      y == NameNode(at + 3)
  IN CASE c = "and" -> LogAnd(x, y)
       [] c = "or"  -> LogOr(x, y)
       [] OTHER     -> x

EndsInReturn(body) == body # <<>> /\ body[Len(body)].s = "return"

RECURSIVE Asm(_, _, _)

\* loop is the offset a continue jumps to
AsmStmt(st, at, loop) ==
  CASE st.s = "assign" ->
         [code |-> <<I("LOAD_CONST", at + 2), I("STORE_NAME", at + 1)>>,
          tree |-> <<StoreNode(Const(at), NameNode(at + 1))>>]
    [] st.s = "call" ->
         [code |-> <<I("LOAD_NAME", at + 1), I("CALL_FUNCTION", 0), I("POP_TOP", 0)>>,
          tree |-> <<Node("call", 0, <<NameNode(at + 1)>>)>>]
    [] st.s = "return" ->
         [code |-> <<I("LOAD_CONST", at + 2), I("RETURN_VALUE", 0)>>,
          tree |-> <<Node("return", 0, <<Const(at)>>)>>]
    [] st.s = "break"    -> [code |-> <<I("BREAK_LOOP", 0)>>, tree |-> <<Keyword(KW_BREAK)>>]
    [] st.s = "continue" -> [code |-> <<I("JUMP_ABSOLUTE", loop)>>, tree |-> <<Keyword(KW_CONTINUE)>>]
    [] st.s = "ifexp" ->     \* x = a if c else b
         [code |-> <<I("LOAD_NAME", at + 1), I("POP_JUMP_IF_FALSE", at + 4),
                     I("LOAD_CONST", at + 2), I("JUMP_FORWARD", 1),
                     I("LOAD_CONST", at + 3), I("STORE_NAME", at + 4)>>,
          tree |-> <<StoreNode([clause |-> "ifexp", neg |-> FALSE, expr |-> NameNode(at + 1),
                                then |-> Node("object", at + 2, <<>>),
                                else |-> Node("object", at + 3, <<>>)], NameNode(at + 4))>>]
    [] st.s = "if" ->
         LET n     == CondLen(st.cond)
             then  == Asm(st.body, at + n, loop)
             jump  == at + n + Len(then.code)
             skips == ~EndsInReturn(st.body)
             else  == IF skips THEN jump + 1 ELSE jump
             other == Asm(st.orelse, else, loop)
         IN [code |-> CondCode(st.cond, at, at + n, else) \o then.code
                      \o (IF skips THEN <<I("JUMP_FORWARD", Len(other.code))>> ELSE <<>>)
                      \o other.code,
             tree |-> <<Clause("IF", st.cond = "not", CondTree(st.cond, at), Null, then.tree)>>
                      \o (IF st.orelse = <<>> THEN <<>>
                          ELSE IF Len(st.orelse) = 1 /\ st.orelse[1].s = "if"
                          THEN <<[other.tree[1] EXCEPT !.clause = "ELIF"]>> \o Tail(other.tree)
                          ELSE <<Clause("ELSE", FALSE, Null, Null, other.tree)>>)]
    [] st.s = "while" ->
         LET n      == CondLen(st.cond)
             start  == at + 1
             body   == Asm(st.body, start + n, start)
             anchor == start + n + Len(body.code) + 1
             other  == Asm(st.orelse, anchor + 1, loop)
         IN [code |-> <<I("SETUP_LOOP", anchor - at + Len(other.code))>>
                      \o CondCode(st.cond, start, start + n, anchor) \o body.code
                      \o <<I("JUMP_ABSOLUTE", start), I("POP_BLOCK", 0)>> \o other.code,
             tree |-> <<Clause("WHILE", st.cond = "not", CondTree(st.cond, start), Null, body.tree)>>
                      \o (IF st.orelse = <<>> THEN <<>>
                          ELSE <<Clause("ELSE", FALSE, Null, Null, other.tree)>>)]
    [] st.s = "for" ->
         LET start  == at + 3
             body   == Asm(st.body, start + 2, start)
             anchor == start + 3 + Len(body.code)
             other  == Asm(st.orelse, anchor + 1, loop)
         IN [code |-> <<I("SETUP_LOOP", anchor - at + Len(other.code)),
                        I("LOAD_NAME", at + 1), I("GET_ITER", 0),
                        I("FOR_ITER", anchor - start - 1), I("STORE_NAME", at + 2)>>
                      \o body.code
                      \o <<I("JUMP_ABSOLUTE", start), I("POP_BLOCK", 0)>> \o other.code,
             tree |-> <<Clause("FOR", FALSE, NameNode(at + 1), NameNode(at + 2), body.tree)>>
                      \o (IF st.orelse = <<>> THEN <<>>
                          ELSE <<Clause("ELSE", FALSE, Null, Null, other.tree)>>)]
    [] st.s = "tryexcept" ->    \* cond: "bare" or "typed"
         LET body  == Asm(st.body, at + 1, loop)
             h     == at + 3 + Len(body.code)
             typed == st.cond = "typed"
             n     == IF typed THEN 7 ELSE 3
             hand  == Asm(st.handler, h + n, loop)
             fin   == h + n + Len(hand.code) + 1
             other == Asm(st.orelse, fin + 1, loop)
             pops  == <<I("POP_TOP", 0), I("POP_TOP", 0), I("POP_TOP", 0)>>
         IN [code |-> <<I("SETUP_EXCEPT", h - at - 1)>> \o body.code
                      \o <<I("POP_BLOCK", 0), I("JUMP_FORWARD", fin + 1 - h)>>
                      \o (IF typed
                          THEN <<I("DUP_TOP", 0), I("LOAD_NAME", h + 1), I("COMPARE_OP", CMP_EXCEPTION),
                                 I("POP_JUMP_IF_FALSE", fin)>> ELSE <<>>)
                      \o pops \o hand.code
                      \o <<I("JUMP_FORWARD", 1 + Len(other.code)), I("END_FINALLY", 0)>>
                      \o other.code,
             tree |-> <<Clause("TRY", FALSE, Null, Null, body.tree),
                        Clause("EXCEPT", FALSE, IF typed THEN NameNode(h + 1) ELSE Null, Null, hand.tree)>>
                      \o (IF st.orelse = <<>> THEN <<>>
                          ELSE <<Clause("ELSE", FALSE, Null, Null, other.tree)>>)]
    [] st.s = "tryfinally" ->
         LET body == Asm(st.body, at + 1, loop)
             f    == at + 3 + Len(body.code)
             fin  == Asm(st.final, f, loop)
             inner == Len(st.body) = 1 /\ st.body[1].s = "tryexcept"
         IN [code |-> <<I("SETUP_FINALLY", f - at - 1)>> \o body.code
                      \o <<I("POP_BLOCK", 0), I("LOAD_CONST", 0)>> \o fin.code \o <<I("END_FINALLY", 0)>>,
             tree |-> (IF inner THEN body.tree
                       ELSE <<Clause("TRY", FALSE, Null, Null, body.tree)>>)
                      \o <<Clause("FINALLY", FALSE, Null, Null, fin.tree)>>]
    [] st.s = "with" ->
         LET body == Asm(st.body, at + 3, loop)
             h    == at + 5 + Len(body.code)
         IN [code |-> <<I("LOAD_NAME", at + 1), I("SETUP_WITH", h - at - 2)>>
                      \o (IF st.cond = "as" THEN <<I("STORE_NAME", at + 2)>> ELSE <<I("POP_TOP", 0)>>)
                      \o body.code
                      \o <<I("POP_BLOCK", 0), I("LOAD_CONST", 0), I("WITH_CLEANUP", 0), I("END_FINALLY", 0)>>,
             tree |-> <<Clause("WITH", FALSE, NameNode(at + 1),
                               IF st.cond = "as" THEN NameNode(at + 2) ELSE Null, body.tree)>>]

Asm(body, at, loop) ==
  IF body = <<>> THEN [code |-> <<>>, tree |-> <<>>]
  ELSE LET first == AsmStmt(body[1], at, loop)
           rest  == Asm(Tail(body), at + Len(first.code), loop)
       IN [code |-> first.code \o rest.code, tree |-> first.tree \o rest.tree]

-----------------------------------------------------------------------------
(* The peephole pass: a jump to an unconditional jump goes on to the       *)
(* target of that one, and a forward jump becomes an absolute one.         *)
Relative == {"JUMP_FORWARD", "FOR_ITER", "SETUP_LOOP", "SETUP_EXCEPT", "SETUP_FINALLY", "SETUP_WITH"}
Jumps    == Relative \cup {"JUMP_ABSOLUTE", "POP_JUMP_IF_FALSE", "POP_JUMP_IF_TRUE"}
Always   == {"JUMP_FORWARD", "JUMP_ABSOLUTE"}

Target(code, i) == IF code[i].op \in Relative THEN i + code[i].arg ELSE code[i].arg

RECURSIVE Threaded(_, _)
Threaded(code, i) ==     \* instruction i, 1-based, is at offset i - 1
  IF i > Len(code) THEN code
  ELSE LET t   == Target(code, i)
           tt  == Target(code, t + 1)
           op  == IF code[i].op = "JUMP_FORWARD" THEN "JUMP_ABSOLUTE" ELSE code[i].op
           arg == IF op \in Relative THEN tt - i ELSE tt
       IN Threaded(IF code[i].op \in Jumps /\ code[t + 1].op \in Always /\ arg >= 0
                   THEN [code EXCEPT ![i] = I(op, arg)] ELSE code, i + 1)

\* a module: its body, and the return None every code object ends with
Compiled(body) ==
  LET m == Asm(body, 0, 0)
  IN [code |-> Threaded(m.code \o <<I("LOAD_CONST", 0), I("RETURN_VALUE", 0)>>, 1),
      ver |-> 207, table |-> {}, listcomp |-> FALSE, tree |-> m.tree]
=============================================================================
