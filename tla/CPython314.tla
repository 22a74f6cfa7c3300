----------------------------- MODULE CPython314 -----------------------------
(***************************************************************************)
(* What CPython 3.14 compiles functions with try statements to.  External: *)
(* modelled after tests/compiled/except_as.3.14.pyc, and after what the    *)
(* comments of BuildFromCode say of the layout.                            *)
(*                                                                         *)
(* The code of the statements comes first, that of all handlers after the  *)
(* last return.  A handler goes on with a copy of the code that follows    *)
(* its try statement if that is short and returns, else it jumps back to   *)
(* it.  Which handler protects an instruction is said by the exception     *)
(* table alone.  Jumps are counted from the end of an instruction's inline *)
(* caches, which BuildFromCode reads as instructions of their own.         *)
(*                                                                         *)
(* Statements are those of CPython27.  Code is first put together from     *)
(* instructions that jump to labels (to) and are protected by the handler  *)
(* at a label (exc), and from the labels themselves.                       *)
(***************************************************************************)
EXTENDS Integers, Sequences, FiniteSets
LOCAL INSTANCE SequencesExt
LOCAL INSTANCE AstBlocks

Nowhere == <<0, "">>
Ins(op, arg)  == [op |-> op, arg |-> arg, to |-> Nowhere, exc |-> Nowhere]
Jump(op, to)  == [Ins(op, 0) EXCEPT !.to = to]
Label(name)   == Jump("LABEL", name)

\* what is not protected by a handler further in is protected by this one
Guarded(code, handler) ==
  [i \in DOMAIN code |-> IF code[i].exc = Nowhere THEN [code[i] EXCEPT !.exc = handler] ELSE code[i]]

Global(n)  == Ins("LOAD_GLOBAL", 2 * n)
None       == Ins("LOAD_CONST", 0)
Return     == <<None, Ins("RETURN_VALUE", 0)>>
Shown(kind, expr, var, body) == [clause |-> kind, neg |-> FALSE, expr |-> expr, var |-> var, body |-> body]

Number(n)     == Node("int", n, <<>>)
AsName(at) == at + 400
Cond(at)   == Node("compare", CMP_IN, <<NameNode(at), NameNode(at + 1)>>)
CondCode(at, else) ==
  <<Global(at), Global(at + 1), Ins("CONTAINS_OP", 0), Jump("POP_JUMP_IF_FALSE", else), Ins("NOT_TAKEN", 0)>>

Assign(at) == <<Ins("LOAD_SMALL_INT", at), Ins("STORE_FAST", at)>>

\* the start of a handler up to its statements
ClauseCode(st, at) ==
  IF st.cond = "bare" THEN <<Ins("POP_TOP", 0)>>
  ELSE <<Global(at), Ins("CHECK_EXC_MATCH", 0), Jump("POP_JUMP_IF_FALSE", <<at, "reraise">>), Ins("NOT_TAKEN", 0),
         IF st.cond = "as" THEN Ins("STORE_FAST", AsName(at)) ELSE Ins("POP_TOP", 0)>>

ClearName(at) == <<None, Ins("STORE_FAST", AsName(at)), Ins("DELETE_FAST", AsName(at))>>

Reraise == Ins("RERAISE", 0)

\* the handler of the statement at, its body being code, next what comes after it
HandlerCode(st, at, code, next) ==
  LET cleanup == <<at, "cleanup">>
      named   == st.cond = "as"
  IN <<Label(<<at, "handler">>)>>
     \o Guarded(<<Ins("PUSH_EXC_INFO", 0)>> \o ClauseCode(st, at)
                  \o (IF named THEN Guarded(code, <<at, "named">>) ELSE code), cleanup)
     \o <<Ins("POP_EXCEPT", 0)>> \o (IF named THEN ClearName(at) ELSE <<>>) \o next
     \o (IF named THEN <<Label(<<at, "named">>)>> \o Guarded(Append(ClearName(at), Reraise), cleanup) ELSE <<>>)
     \o (IF st.cond = "bare" THEN <<>>
         ELSE <<Label(<<at, "reraise">>)>> \o Guarded(<<Reraise>>, cleanup))
     \o <<Label(cleanup), Ins("COPY", 3), Ins("POP_EXCEPT", 0), Reraise>>

RECURSIVE Asm(_, _, _)

\* hot is the code in its place, cold what goes after the last return; exit
\* is the rest of the function if that is short enough to be copied
AsmStmt(st, at, exit) ==
  CASE st.s = "assign" ->
         [hot |-> Assign(at), cold |-> <<>>, tree |-> <<StoreNode(Number(at), NameNode(at))>>]
    [] st.s = "call" ->
         [hot |-> <<Ins("LOAD_GLOBAL", 2 * at + 1), Ins("CALL", 0), Ins("POP_TOP", 0)>>, cold |-> <<>>,
          tree |-> <<Node("call", 0, <<NameNode(at)>>)>>]
    [] st.s = "if" ->
         LET body == Asm(st.body, 9 * at + 1, exit)
         IN [hot  |-> CondCode(at, <<at, "else">>) \o body.hot \o <<Label(<<at, "else">>)>>,
             cold |-> body.cold,
             tree |-> <<Shown("IF", Cond(at), Null, body.tree)>>]
    [] st.s = "for" ->
         LET body == Asm(st.body, 9 * at + 1, <<>>)
         IN [hot  |-> <<Global(at), Ins("GET_ITER", 0), Label(<<at, "next">>),
                        Jump("FOR_ITER", <<at, "end">>), Ins("STORE_FAST", at)>>
                      \o body.hot
                      \o <<Jump("JUMP_BACKWARD", <<at, "next">>), Label(<<at, "end">>),
                           Ins("END_FOR", 0), Ins("POP_ITER", 0)>>,
             cold |-> body.cold,
             tree |-> <<Shown("FOR", NameNode(at), NameNode(at), body.tree)>>]
    [] st.s = "tryexcept" ->     \* cond: "bare", "typed" or "as"
         LET body == Asm(st.body, 9 * at + 1, <<>>)
             hand == Asm(st.handler, 9 * at + 5, <<>>)
             next == IF exit # <<>> THEN exit ELSE <<Jump("JUMP_BACKWARD_NO_INTERRUPT", <<at, "end">>)>>
             handler == <<at, "handler">>
         IN [hot  |-> <<Ins("NOP", 0)>> \o Guarded(body.hot, handler) \o <<Label(<<at, "end">>)>>,
             cold |-> Guarded(body.cold, handler) \o HandlerCode(st, at, hand.hot \o hand.cold, next),
             tree |-> <<Shown("TRY", Null, Null, body.tree),
                        Shown("EXCEPT", IF st.cond = "bare" THEN Null ELSE NameNode(at),
                              IF st.cond = "as" THEN NameNode(AsName(at)) ELSE Null, hand.tree)>>]

Short(code) == Len(code) <= 4

\* the statements of body, numbered from at on
Asm(body, at, exit) ==
  IF body = <<>> THEN [hot |-> <<>>, cold |-> <<>>, tree |-> <<>>]
  ELSE LET rest  == Asm(Tail(body), at + 1, exit)
           plain == \A i \in 2 .. Len(body) : body[i].s \in {"assign", "call"}
           after == IF exit # <<>> /\ plain /\ Short(rest.hot \o exit) THEN rest.hot \o exit ELSE <<>>
           first == AsmStmt(body[1], at, after)
       IN [hot |-> first.hot \o rest.hot, cold |-> first.cold \o rest.cold, tree |-> first.tree \o rest.tree]

-----------------------------------------------------------------------------
\* the entries of inline cache after an instruction
Caches(op) ==
  CASE op = "LOAD_GLOBAL" -> 4
    [] op = "CALL"        -> 3
    [] op \in {"CONTAINS_OP", "POP_JUMP_IF_FALSE", "FOR_ITER", "JUMP_BACKWARD"} -> 1
    [] OTHER              -> 0

\* offsets for labels, and the exception table: an entry for each run of
\* instructions with the same handler
Assembled(code) ==
  LET isLabel(x) == x.op = "LABEL"
      all == FlattenSeq([i \in DOMAIN code |-> <<code[i]>> \o [j \in 1 .. Caches(code[i].op) |->
                                                              [Ins("CACHE", 0) EXCEPT !.exc = code[i].exc]]])
      ins == SelectSeq(all, LAMBDA x : ~isLabel(x))
      At(label) ==
        LET n == CHOOSE i \in DOMAIN all : isLabel(all[i]) /\ all[i].to = label
        IN Cardinality({i \in 1 .. n : ~isLabel(all[i])})
      arg(i) == CASE ins[i].to = Nowhere -> ins[i].arg
                  [] ins[i].op \in {"JUMP_BACKWARD", "JUMP_BACKWARD_NO_INTERRUPT"} ->
                       i + Caches(ins[i].op) - At(ins[i].to)
                  [] OTHER -> At(ins[i].to) - i - Caches(ins[i].op)
      starts == {i \in DOMAIN ins : ins[i].exc # Nowhere /\ (i = 1 \/ ins[i - 1].exc # ins[i].exc)}
      end(s) == CHOOSE e \in s .. Len(ins) :
                  /\ \A i \in s .. e : ins[i].exc = ins[s].exc
                  /\ e = Len(ins) \/ ins[e + 1].exc # ins[s].exc
  IN [code  |-> [i \in DOMAIN ins |-> [op |-> ins[i].op, arg |-> arg(i)]],
      table |-> {<<s - 1, end(s), At(ins[s].exc)>> : s \in starts}]

\* a function without arguments whose last statement is followed by its return
Compiled314(body) ==
  LET f   == Asm(body, 1, Return)
      asm == Assembled(<<Ins("RESUME", 0)>> \o f.hot \o Return \o f.cold)
  IN [code |-> asm.code, table |-> asm.table, ver |-> 314, listcomp |-> FALSE, tree |-> f.tree]
=============================================================================
