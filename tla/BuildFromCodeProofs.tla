------------------------- MODULE BuildFromCodeProofs --------------------------
(***************************************************************************)
(* BuildFromCode, continued from BuilderProofs: the handlers that open and *)
(* close blocks, the exceptions, the head and the end of the loop, and the *)
(* theorems.                                                               *)
(***************************************************************************)
EXTENDS BuilderProofs

-----------------------------------------------------------------------------
(* Block openers                                                           *)

\* a state that only operands were moved in
LEMMA StaysGoes ==
  ASSUME IInv, pc = "exec", NEW nb, Stays(Handlers, b, nb)
  PROVE  /\ Goes(Handlers, b, nb) /\ Leads(Handlers, b, nb) /\ Good(Handlers, nb)
         /\ nb.blocks # <<>> /\ nb.blocks = b.blocks /\ nb.cur = b.cur
BY Start, LeadsStays DEF Stays, Leads

\* a handler that opens one block
LEMMA OpenStep ==
  ASSUME IInv, pc = "exec", NEW nb, Stays(Handlers, b, nb), NEW blk, NewBlock(Handlers, blk),
         BreakAt(Open(nb, blk), pos)
  PROVE  StepOK
BY StaysGoes, OpenGoes, GoesStep

LEMMA OpSetupLoop == ASSUME IInv, SetupLoop PROVE StepOK
<1> DEFINE blk == CondBlock("WHILE", pos + ins.arg, UNINITED, Null, FALSE)
<1>1. pc = "exec" /\ BreakAt(Open(b, blk), pos)  BY DEF SetupLoop, On, Break
<1>2. NewBlock(Handlers, blk)  BY CondBlockNew
<1> HIDE DEF blk
<1> QED  BY <1>1, <1>2, Start, OpenStep

LEMMA OpSetupWith == ASSUME IInv, SetupWith PROVE StepOK
<1> DEFINE blk == Block("WITH", pos + ins.arg, UNINITED)
<1>1. pc = "exec" /\ BreakAt(Open(b, blk), pos)  BY DEF SetupWith, On, Break
<1>2. NewBlock(Handlers, blk)  BY CondBlockNew
<1> HIDE DEF blk
<1> QED  BY <1>1, <1>2, Start, OpenStep

LEMMA ContainerNew ==
  ASSUME NEW H, NEW fin, NEW exc, H = {} \/ exc \in H
  PROVE  /\ NewBlock(H, ContainerBlock(fin, exc))
         /\ NewBlock(H, [ContainerBlock(fin, exc) EXCEPT !.inited = 1])
BY DEF NewBlock, ContainerBlock, Block, BlockFields

LEMMA OpSetupFinally == ASSUME IInv, SetupFinally PROVE StepOK
<1> DEFINE blk == ContainerBlock(pos + ins.arg, 0)
<1>1. pc = "exec" /\ BreakAt(Open(b, blk), pos) /\ ins.op = "SETUP_FINALLY"
  BY DEF SetupFinally, On
<1>2. NewBlock(Handlers, blk)  BY <1>1, ContainerNew DEF IInv, InsOK
<1> HIDE DEF blk
<1> QED  BY <1>1, <1>2, Start, OpenStep

LEMMA OpSetupExcept == ASSUME IInv, SetupExcept PROVE StepOK
<1> DEFINE c1  == [b EXCEPT !.heap[b.cur].exc = pos + ins.arg]
           c2  == PushBlock(b, ContainerBlock(0, pos + ins.arg))
           blk == Block("TRY", pos + ins.arg, 1)
<1>1. pc = "exec" /\ ins.op = "SETUP_EXCEPT"  BY DEF SetupExcept, On
<1>2. BreakAt(Open(SaveStack(c1), blk), pos) \/ BreakAt(Open(SaveStack(c2), blk), pos)
  BY DEF SetupExcept
<1>3. Handlers = {}  BY <1>1 DEF IInv, InsOK
<1>4. NewBlock(Handlers, blk) /\ NewBlock(Handlers, ContainerBlock(0, pos + ins.arg))
  BY <1>3, CondBlockNew, ContainerNew
<1>5. Stays(Handlers, b, c1)
  BY <1>1, <1>3, Start, FieldsStay DEF CurOpen
<1>6. Leads(Handlers, b, c2) /\ c2.blocks # <<>>  BY <1>1, <1>4, Start, PushLeads
<1> HIDE DEF c1, c2, blk
<1>7. Stays(Handlers, b, SaveStack(c1))  BY <1>5, SaveStays
<1>8. Stays(Handlers, c2, SaveStack(c2))  BY <1>6, StaysSelf, SaveStays DEF Leads
<1>9. Leads(Handlers, b, SaveStack(c2)) /\ SaveStack(c2).blocks # <<>>
  BY <1>6, <1>8, LeadsStays DEF Stays
<1>10. Goes(Handlers, b, Open(SaveStack(c2), blk))  BY <1>4, <1>9, OpenGoes
<1> QED  BY <1>1, <1>2, <1>4, <1>7, <1>10, OpenStep, GoesStep

\* z is y but for its operands
Beside(y, z) ==
  /\ z.heap = y.heap /\ z.blocks = y.blocks /\ z.cur = y.cur /\ z.zce = y.zce
  /\ z.fault = "none" => y.fault = "none"

LEMMA BesideLeads ==
  ASSUME NEW H, NEW x, NEW y, Leads(H, x, y), NEW z, Beside(y, z), DOMAIN z = BuilderFields,
         OperandsOK(z.stack, z.hist)
  PROVE  Leads(H, x, z) /\ (Goes(H, x, y) => Goes(H, x, z))
<1>1. SameHandlers(y.zce, z.zce)  BY SameHandlersSelf DEF Leads, Beside
<1>2. OperandMove(y, z)  BY <1>1 DEF OperandMove, Beside
<1>3. Stays(H, y, z)  BY <1>2, StaysSelf, OperandStays DEF Leads
<1> QED  BY <1>3, LeadsStays

LEMMA BesideMoves ==
  ASSUME NEW H, NEW y, Good(H, y)
  PROVE  /\ Beside(y, Pop(y)) /\ Beside(y, SaveStack(y))
         /\ Beside(y, ForgetStack(y)) /\ Beside(y, RestoreStack(y))
         /\ \A n : Beside(y, Push(y, n)) /\ Beside(y, Drop(y, n))
         /\ \A what : what # "none" => Beside(y, Crash(y, what))
BY DEF Good, BuilderFields, Beside, Pop, SaveStack, ForgetStack, RestoreStack, Push, Drop, WithHist, Crash

\* operands moved after the blocks
LEMMA OperandMoves ==
  ASSUME NEW H, NEW x, NEW y, Leads(H, x, y)
  PROVE  /\ Leads(H, x, Pop(y)) /\ (Goes(H, x, y) => Goes(H, x, Pop(y)))
         /\ Leads(H, x, SaveStack(y)) /\ (Goes(H, x, y) => Goes(H, x, SaveStack(y)))
         /\ Leads(H, x, ForgetStack(y)) /\ (Goes(H, x, y) => Goes(H, x, ForgetStack(y)))
         /\ Leads(H, x, RestoreStack(y)) /\ (Goes(H, x, y) => Goes(H, x, RestoreStack(y)))
         /\ \A n : Plain(n) => Leads(H, x, Push(y, n)) /\ (Goes(H, x, y) => Goes(H, x, Push(y, n)))
<1>1. Stays(H, y, y)  BY StaysSelf DEF Leads
<1>2. /\ Stays(H, y, Pop(y)) /\ Stays(H, y, SaveStack(y)) /\ Stays(H, y, ForgetStack(y))
      /\ Stays(H, y, RestoreStack(y)) /\ \A n : Plain(n) => Stays(H, y, Push(y, n))
  BY <1>1, PopStays, SaveStays, ForgetStays, RestoreStays, PushStays
<1> QED  BY <1>2, LeadsStays

\* the current block, which is not the module's, is popped
LEMMA PopOpen ==
  ASSUME NEW H, NEW x, NEW y, Goes(H, x, y), y.fault = "none" => Cur(y).type # "MAIN"
  PROVE  /\ Leads(H, x, PopBlock(y))
         /\ PopBlock(y).fault = "none" =>
              /\ y.fault = "none" /\ PopBlock(y).blocks # <<>> /\ Loose(H, PopBlock(y), y.cur)
              /\ PopBlock(y) = [y EXCEPT !.blocks = PopFrom(y.blocks)]
<1>1. Leads(H, x, y) /\ Good(H, y)  BY DEF Goes, Leads
<1>2. CASE y.fault = "none"
  <2>1. Settled(y) /\ 2 <= Len(y.blocks) /\ y.cur = TopId(y)
    BY <1>1, <1>2, NotMain DEF Goes, Cur, Settled
  <2>2. Len(y.blocks) \in Nat  BY <1>1 DEF Good, NestedIn, IsSeq
  <2>3. /\ Leads(H, x, PopBlock(y))
        /\ PopBlock(y).fault = "none" =>
              /\ y.fault = "none" /\ Loose(H, PopBlock(y), TopId(y))
              /\ Len(PopBlock(y).blocks) = Len(y.blocks) - 1
              /\ PopBlock(y) = [y EXCEPT !.blocks = PopFrom(y.blocks)]
    BY <1>1, PopAny
  <2>4. Good(H, PopBlock(y))  BY <2>3 DEF Leads
  <2>5. Len(PopBlock(y).blocks) = Len(y.blocks) - 1 => PopBlock(y).blocks # <<>>
    BY <2>1, <2>2, <2>4, NoBlocks
  <2> QED  BY <2>1, <2>3, <2>5
<1>3. CASE y.fault # "none"  BY <1>1, <1>3, PopAny
<1> QED  BY <1>2, <1>3

-----------------------------------------------------------------------------
(* Loops                                                                   *)

LEMMA IterNew ==
  ASSUME NEW H, NEW type, type # "MAIN", type # "CONTAINER", NEW start, NEW end, NEW iter, NEW comp
  PROVE  NewBlock(H, IterBlock(type, start, end, iter, comp))
BY DEF NewBlock, IterBlock, Block, BlockFields

LEMMA OpenForGoes ==
  ASSUME IInv, pc = "exec", NEW bs, Stays(Handlers, b, bs), NEW type, type # "MAIN", type # "CONTAINER"
  PROVE  Goes(Handlers, b, OpenFor(bs, type))
<1> DEFINE setup == TopBlock(bs).type = "WHILE"
           blk   == IterBlock(type, curpos, TopBlock(bs).end,
                              Arg(b, IF ins.op = "FOR_LOOP" THEN 2 ELSE 1), ~setup)
           from  == IF setup THEN PopBlock(bs) ELSE bs
<1>1. Goes(Handlers, b, bs) /\ Leads(Handlers, b, bs) /\ bs.blocks # <<>>  BY StaysGoes
<1>2. NewBlock(Handlers, blk)  BY IterNew
<1>3. bs.fault = "none" => TopBlock(bs) = Cur(bs)  BY <1>1 DEF Goes, Settled, TopBlock, Cur
<1>4. setup /\ bs.fault = "none" => Cur(bs).type # "MAIN"  BY <1>3
<1>5. setup => /\ Leads(Handlers, b, PopBlock(bs))
               /\ PopBlock(bs).fault = "none" => PopBlock(bs).blocks # <<>>
  BY <1>1, <1>4, PopOpen
<1>6. OpenFor(bs, type) = Open(from, blk)  BY DEF OpenFor
<1>7. Leads(Handlers, b, from) /\ (from.fault = "none" => from.blocks # <<>>)
  BY <1>1, <1>5
<1> HIDE DEF from, blk
<1> QED  BY <1>2, <1>6, <1>7, OpenGoes

LEMMA OpForIter == ASSUME IInv, ForIter PROVE StepOK
<1> DEFINE blk == IterBlock("FOR", curpos, pos + ins.arg, Arg(b, 1), prog.listcomp)
           b1  == Open(Pop(b), blk)
           b2  == OpenFor(Pop(b), "FOR")
<1>1. pc = "exec"  BY DEF ForIter, On
<1>2. BreakAt(Push(b1, Null), pos) \/ BreakAt(Push(b2, Null), pos)  BY DEF ForIter, Break
<1>3. NewBlock(Handlers, blk)  BY IterNew
<1> HIDE DEF blk
<1>4. Stays(Handlers, b, Pop(b))  BY <1>1, Start, PopStays
<1>5. Goes(Handlers, b, b1)  BY <1>1, <1>3, <1>4, StaysGoes, OpenGoes
<1>6. Goes(Handlers, b, b2)  BY <1>1, <1>4, OpenForGoes
<1> HIDE DEF b1, b2
<1>7. Goes(Handlers, b, Push(b1, Null)) /\ Goes(Handlers, b, Push(b2, Null))
  BY <1>5, <1>6, OperandMoves, NullPlain DEF Goes
<1> QED  BY <1>1, <1>2, <1>7, GoesStep

LEMMA OpForLoop == ASSUME IInv, ForLoop PROVE StepOK
<1> DEFINE bs == OpenFor(Drop(b, 2), "FOR")
           b1 == Push(bs, Arg(b, 2))
           b2 == Push(b1, Arg(b, 1))
<1>1. pc = "exec" /\ BreakAt(Push(b2, Null), pos)  BY DEF ForLoop, On, Break
<1>2. Stays(Handlers, b, Drop(b, 2)) /\ Plain(Arg(b, 1)) /\ Plain(Arg(b, 2))
  BY <1>1, Start, DropStays, ArgPlain
<1>3. Goes(Handlers, b, bs)  BY <1>1, <1>2, OpenForGoes
<1> HIDE DEF bs
<1>4. Goes(Handlers, b, b1)  BY <1>2, <1>3, OperandMoves DEF Goes
<1> HIDE DEF b1
<1>5. Goes(Handlers, b, b2)  BY <1>2, <1>4, OperandMoves DEF Goes
<1> HIDE DEF b2
<1>6. Goes(Handlers, b, Push(b2, Null))  BY <1>5, NullPlain, OperandMoves DEF Goes
<1> QED  BY <1>1, <1>6, GoesStep

LEMMA OpGetAiter == ASSUME IInv, GetAiter PROVE StepOK
<1> DEFINE bs == OpenFor(Pop(b), "ASYNCFOR")
<1>1. pc = "exec" /\ (BreakAt(Push(bs, Null), pos) \/ BreakAt(Pop(b), pos))
  BY DEF GetAiter, On, Break
<1>2. Stays(Handlers, b, Pop(b))  BY <1>1, Start, PopStays
<1>3. Goes(Handlers, b, bs)  BY <1>1, <1>2, OpenForGoes
<1> HIDE DEF bs
<1>4. Goes(Handlers, b, Push(bs, Null))  BY <1>3, NullPlain, OperandMoves DEF Goes
<1> QED  BY <1>1, <1>2, <1>4, GoesStep, StaysStep

LEMMA OpEndFor == ASSUME IInv, EndFor PROVE StepOK
<1> DEFINE n  == IF Ver = 312 THEN 2 ELSE 1
           bs == Drop(b, n)
<1>1. pc = "exec" /\ (BreakAt(CloseCur(bs), pos) \/ BreakAt(bs, pos))  BY DEF EndFor, On, Break
<1>2. n \in Int  OBVIOUS
<1> HIDE DEF n
<1>3. Stays(Handlers, b, bs)  BY <1>1, <1>2, Start, DropStays
<1> HIDE DEF bs
<1>4. Goes(Handlers, b, CloseCur(bs))  BY <1>1, <1>3, StaysGoes, CloseCurGoes
<1> QED  BY <1>1, <1>3, <1>4, GoesStep, StaysStep

-----------------------------------------------------------------------------
(* Conditional jumps                                                       *)

LEMMA ForgetSecondMoves ==
  ASSUME NEW H, NEW x, NEW y, Leads(H, x, y)
  PROVE  /\ Leads(H, x, ForgetSecond(y)) /\ Beside(y, ForgetSecond(y))
         /\ Goes(H, x, y) => Goes(H, x, ForgetSecond(y))
<1> DEFINE n == Len(y.hist)
           front == SubSeq(y.hist, 1, n - 2)
           h == Append(front, y.hist[n])
<1>1. Good(H, y) /\ PlainSeq(y.stack) /\ IsSeq(y.hist) /\ n \in Nat
      /\ \A i \in 1 .. n : PlainSeq(y.hist[i])
  BY DEF Leads, Good, OperandsOK, IsSeq
<1>2. CASE n < 2
  <2>1. ForgetSecond(y) = Crash(y, "ub")  BY <1>2 DEF ForgetSecond
  <2> QED  BY <1>1, <2>1, CrashGoes, BesideMoves DEF Goes
<1>3. CASE ~(n < 2)
  <2>1. n - 2 \in 0 .. n  BY <1>1, <1>3
  <2>2. IsSeq(front) /\ Len(front) = n - 2 /\ \A i \in 1 .. n - 2 : front[i] = y.hist[i]
    BY <1>1, <2>1, SubSeqSeq
  <2>3. ForgetSecond(y) = [y EXCEPT !.hist = h]  BY <1>3 DEF ForgetSecond
  <2> HIDE DEF front
  <2>4. /\ IsSeq(h) /\ Len(h) = n - 2 + 1 /\ h[n - 2 + 1] = y.hist[n]
        /\ \A i \in 1 .. n - 2 : h[i] = front[i]
    BY <2>2, AppendSeq
  <2> HIDE DEF h
  <2>5. \A i \in 1 .. Len(h) : PlainSeq(h[i])  BY <1>1, <1>3, <2>2, <2>4
  <2>6. Beside(y, ForgetSecond(y)) /\ DOMAIN ForgetSecond(y) = BuilderFields
        /\ ForgetSecond(y).stack = y.stack /\ ForgetSecond(y).hist = h
    BY <1>1, <2>3 DEF Good, Beside, BuilderFields
  <2>7. OperandsOK(ForgetSecond(y).stack, ForgetSecond(y).hist)
    BY <1>1, <2>4, <2>5, <2>6 DEF OperandsOK
  <2> QED  BY <2>6, <2>7, BesideLeads
<1> QED  BY <1>2, <1>3

\* the current block is replaced by a new one
LEMMA ReplaceGoes ==
  ASSUME NEW H, NEW x, NEW y, Goes(H, x, y), y.fault = "none" => Cur(y).type # "MAIN",
         NEW blk, NewBlock(H, blk)
  PROVE  /\ Goes(H, x, Open(RestoreStack(PopBlock(y)), blk))
         /\ Goes(H, x, Open(ForgetStack(PopBlock(y)), blk))
         /\ Goes(H, x, Open(ForgetSecond(PopBlock(y)), blk))
         /\ Goes(H, x, Open(ForgetStack(ToTop(PopBlock(y))), blk))
<1> DEFINE p == PopBlock(y)
           t == ToTop(p)
<1>1. Leads(H, x, p) /\ (p.fault = "none" => p.blocks # <<>>)  BY PopOpen
<1> HIDE DEF p
<1>2. Leads(H, x, t) /\ (t.fault = "none" => t.blocks # <<>>)
  <2>1. Goes(H, x, t)  BY <1>1, ToTopGoes
  <2>2. Good(H, t)  BY <2>1 DEF Goes, Leads
  <2> QED  BY <2>1, <2>2, NoBlocks DEF Goes
<1> HIDE DEF t
<1>3. ASSUME NEW u, Leads(H, x, u), u.fault = "none" => u.blocks # <<>>
      PROVE  \A z \in {RestoreStack(u), ForgetStack(u), ForgetSecond(u)} : Goes(H, x, Open(z, blk))
  <2>1. Leads(H, x, RestoreStack(u)) /\ Leads(H, x, ForgetStack(u))  BY <1>3, OperandMoves
  <2>2. Leads(H, x, ForgetSecond(u)) /\ Beside(u, ForgetSecond(u))  BY <1>3, ForgetSecondMoves
  <2>3. Beside(u, RestoreStack(u)) /\ Beside(u, ForgetStack(u))  BY <1>3, BesideMoves DEF Leads
  <2>4. \A z : Leads(H, x, z) /\ Beside(u, z) => Goes(H, x, Open(z, blk))
    BY <1>3, OpenGoes DEF Beside
  <2> QED  BY <2>1, <2>2, <2>3, <2>4
<1> QED  BY <1>1, <1>2, <1>3 DEF p, t

LEMMA CondJumpStays ==
  ASSUME NEW H, NEW x, NEW bs, Stays(H, x, bs), NEW op
  PROVE  Stays(H, x, AtCondJump(bs, op)) /\ AtCondJump(bs, op).heap = bs.heap
<1>1. Stays(H, x, SaveStack(bs)) /\ Stays(H, x, Pop(bs))  BY SaveStays, PopStays
<1>2. Stays(H, x, SaveStack(Pop(bs))) /\ Stays(H, x, Pop(SaveStack(bs)))
  BY <1>1, SaveStays, PopStays
<1>3. DOMAIN bs = BuilderFields  BY StaysGood DEF Good
<1>4. /\ SaveStack(Pop(bs)).heap = bs.heap /\ Pop(SaveStack(bs)).heap = bs.heap
      /\ SaveStack(bs).heap = bs.heap
  BY <1>3 DEF SaveStack, Pop, BuilderFields
<1> QED  BY <1>1, <1>2, <1>4 DEF AtCondJump

LEMMA OpCondJump == ASSUME IInv, CondJump PROVE StepOK
<1> DEFINE cond  == Arg(b, 1)
           neg   == Negated(ins.op)
           blk   == Cur(b)
           b1    == AtCondJump(b, ins.op)
           joined == IF blk.end = JumpTarget \/ (blk.end = curpos /\ ~blk.neg)
                     THEN LogAnd(blk.expr, cond) ELSE LogOr(blk.expr, cond)
           New(type, expr, n) == CondBlock(type, JumpTarget, Popped(ins.op), expr, n)
           filtered == [b1 EXCEPT !.heap[b.cur].filter = cond]
<1>1. pc = "exec"  BY DEF CondJump, On
<1>2. \/ BreakAt(Open(b1, New("EXCEPT", cond.args[2], FALSE)), pos)
      \/ /\ blk.type = "EXCEPT"
         /\ BreakAt(Open(ForgetStack(ToTop(PopBlock(b1))), New("EXCEPT", cond.args[2], FALSE)), pos)
      \/ blk.type = "ELSE" /\ BreakAt(Open(RestoreStack(PopBlock(b1)), New("ELIF", cond, neg)), pos)
      \/ blk.type = "WHILE" /\ BreakAt(Open(ForgetStack(PopBlock(b1)), New("WHILE", cond, neg)), pos)
      \/ /\ blk.type = "WHILE"
         /\ BreakAt(Open(ForgetStack(PopBlock(b1)), New(blk.type, joined, neg)), pos)
      \/ /\ blk.type \in {"IF", "ELIF"}
         /\ BreakAt(Open(ForgetSecond(PopBlock(b1)), New(blk.type, joined, neg)), pos)
      \/ BreakAt(ForgetStack(filtered), pos)
      \/ BreakAt(Open(b1, New("IF", cond, neg)), pos)
  BY DEF CondJump, Break
<1>3. Stays(Handlers, b, b1) /\ b1.heap = b.heap  BY <1>1, Start, CondJumpStays
<1>4. \A type, expr, n : type # "MAIN" /\ type # "CONTAINER" => NewBlock(Handlers, New(type, expr, n))
  BY CondBlockNew
<1> HIDE DEF b1, New, joined, cond, neg
<1>5. Goes(Handlers, b, b1) /\ b1.cur = b.cur  BY <1>1, <1>3, StaysGoes
<1>6. Cur(b1) = blk  BY <1>3, <1>5 DEF Cur
<1>7. Stays(Handlers, b, filtered)
  <2>1. b.cur \in OpenOf(b1.blocks)  BY <1>1, <1>3, Start DEF Stays, CurOpen
  <2> QED  BY <1>3, <2>1, FieldsStay
<1> HIDE DEF filtered, blk
<1>8. Stays(Handlers, b, ForgetStack(filtered))  BY <1>7, ForgetStays
<1>9. blk.type # "MAIN" => \A nb : NewBlock(Handlers, nb) =>
         /\ Goes(Handlers, b, Open(RestoreStack(PopBlock(b1)), nb))
         /\ Goes(Handlers, b, Open(ForgetStack(PopBlock(b1)), nb))
         /\ Goes(Handlers, b, Open(ForgetSecond(PopBlock(b1)), nb))
         /\ Goes(Handlers, b, Open(ForgetStack(ToTop(PopBlock(b1))), nb))
  BY <1>5, <1>6, ReplaceGoes
<1>10. \A nb : NewBlock(Handlers, nb) /\ BreakAt(Open(b1, nb), pos) => StepOK
  BY <1>1, <1>3, OpenStep
<1>11. \A nb : NewBlock(Handlers, nb) /\ blk.type # "MAIN" =>
         /\ BreakAt(Open(RestoreStack(PopBlock(b1)), nb), pos) => StepOK
         /\ BreakAt(Open(ForgetStack(PopBlock(b1)), nb), pos) => StepOK
         /\ BreakAt(Open(ForgetSecond(PopBlock(b1)), nb), pos) => StepOK
         /\ BreakAt(Open(ForgetStack(ToTop(PopBlock(b1))), nb), pos) => StepOK
  BY <1>1, <1>9, GoesStep
<1>12. BreakAt(ForgetStack(filtered), pos) => StepOK  BY <1>1, <1>8, StaysStep
<1>13. /\ NewBlock(Handlers, New("EXCEPT", cond.args[2], FALSE)) /\ NewBlock(Handlers, New("ELIF", cond, neg))
       /\ NewBlock(Handlers, New("WHILE", cond, neg)) /\ NewBlock(Handlers, New("IF", cond, neg))
       /\ blk.type \in {"WHILE", "IF", "ELIF"} => NewBlock(Handlers, New(blk.type, joined, neg))
  BY <1>4
<1> QED  BY <1>2, <1>10, <1>11, <1>12, <1>13

-----------------------------------------------------------------------------
(* Backward jumps                                                          *)

LEMMA CloseElseGoes ==
  ASSUME NEW H, NEW x, NEW y, Goes(H, x, y)
  PROVE  Goes(H, x, CloseElse(y))
<1> DEFINE c == CloseCur(RestoreStack(y))
<1>1. Goes(H, x, RestoreStack(y))  BY OperandMoves DEF Goes
<1>2. Goes(H, x, c)  BY <1>1, CloseCurGoes
<1>3. CloseElse(y) \in {c, CloseCur(c)}  BY DEF CloseElse
<1> HIDE DEF c
<1> QED  BY <1>2, <1>3, CloseCurGoes

LEMMA EndOfForGoes ==
  ASSUME IInv, pc = "exec", Cur(b).type = "FOR", NEW offs
  PROVE  Goes(Handlers, b, EndOfFor(offs))
<1> DEFINE join == Node("comprehension", 0, Append(Arg(b, 1).args, BlockNode(b.cur)))
           b1   == IF Arg(b, 1).kind = "comprehension" THEN Push(Pop(b), join) ELSE b
<1>1. EndOfFor(offs) \in {CloseCur(b1), ToTop(PopBlock(b1)), b}  BY DEF EndOfFor
<1>2. Plain(join)  BY NodePlain
<1>3. Stays(Handlers, b, Pop(b)) /\ Good(Handlers, b)  BY Start, PopStays
<1> HIDE DEF join
<1>4. Stays(Handlers, b, Push(Pop(b), join))  BY <1>2, <1>3, PushStays
<1>5. DOMAIN b = BuilderFields  BY <1>3 DEF Good
<1>6. Push(Pop(b), join).heap = b.heap  BY <1>5 DEF Push, Pop, BuilderFields
<1>7. Stays(Handlers, b, b1) /\ b1.heap = b.heap  BY <1>4, <1>6, Start
<1> HIDE DEF b1
<1>8. Goes(Handlers, b, b1) /\ Cur(b1).type = "FOR"  BY <1>7, StaysGoes DEF Cur
<1>9. Goes(Handlers, b, ToTop(PopBlock(b1)))  BY <1>8, PopOpen, ToTopGoes
<1>10. Goes(Handlers, b, CloseCur(b1))  BY <1>8, CloseCurGoes
<1> QED  BY <1>1, <1>9, <1>10, Start

LEMMA LoopBackStep ==
  ASSUME IInv, pc = "exec", NEW offs, LoopBack(offs)
  PROVE  StepOK
<1> DEFINE n == Keyword(KW_CONTINUE)
<1>1. \/ Cur(b).type = "FOR" /\ BreakAt(EndOfFor(offs), pos)
      \/ BreakAt(CloseElse(b), pos)
      \/ BreakAt(Emit(b, n), pos)
  BY DEF LoopBack, Break
<1>2. n.kind # "block"  BY DEF Keyword, Node
<1> HIDE DEF n
<1>3. Cur(b).type = "FOR" /\ BreakAt(EndOfFor(offs), pos) => StepOK  BY EndOfForGoes, GoesStep
<1>4. BreakAt(CloseElse(b), pos) => StepOK  BY Start, CloseElseGoes, GoesStep
<1>5. BreakAt(Emit(b, n), pos) => StepOK  BY <1>2, Start, EmitStep
<1> QED  BY <1>1, <1>3, <1>4, <1>5

LEMMA OpJumpBacks == ASSUME IInv, JumpBack \/ JumpBackward PROVE StepOK
BY LoopBackStep, Start, StaysStep DEF JumpBack, JumpBackward, On, Break

LEMMA OpJumpAbsoluteInContainer == ASSUME IInv, JumpAbsoluteInContainer PROVE StepOK
<1> DEFINE blk == CondBlock("EXCEPT", 0, 1, Null, FALSE)
<1>1. pc = "exec" /\ (BreakAt(Open(b, blk), pos) \/ BreakAt(b, pos))
  BY DEF JumpAbsoluteInContainer, On, Break
<1>2. NewBlock(Handlers, blk)  BY CondBlockNew
<1> HIDE DEF blk
<1> QED  BY <1>1, <1>2, Start, OpenStep, StaysStep

-----------------------------------------------------------------------------
(* Forward jumps                                                           *)

\* from one iteration over the open blocks to the next
LEMMA WalkStep ==
  ASSUME IInv, NEW nb, Leads(Handlers, b, nb), b' = nb,
         pc' = "crashed" \/ (nb.fault = "none" /\ pc' \in {"absolute", "forward"}),
         prog' = prog, pos' = pos, curpos' = curpos, ins' = ins, WalkOK', Nearer
  PROVE  StepOK
<1>1. Handlers' = Handlers /\ Size' = Size  BY SameCode
<1>2. Good(Handlers', b')  BY <1>1 DEF Leads
<1>3. b'.zce.now.active < pos'
  <2>1. nb.zce.now.active <= b.zce.now.active  BY DEF Leads, Final
  <2>2. nb.zce.now.active \in Int /\ b.zce.now.active \in Int  BY DEF Leads, Good, ChainOK
  <2>3. pos \in Int  BY DEF IInv
  <2> QED  BY <2>1, <2>2, <2>3 DEF IInv
<1>4. InsOK'  BY <1>1 DEF IInv, InsOK
<1>5. pc' \in {"crashed", "absolute", "forward"} /\ (pc' # "crashed" => b'.fault = "none")  OBVIOUS
<1>6. IInv'
  BY <1>1, <1>2, <1>3, <1>4, <1>5 DEF IInv
<1>7. Kept  BY FinalKept DEF Leads
<1> QED  BY <1>6, <1>7 DEF StepOK

LEMMA StartWalkStep ==
  ASSUME IInv, pc = "exec", NEW nb, Stays(Handlers, b, nb), 
         NEW loop \in {"absolute", "forward"}, loop = "forward" => Len(b.blocks) # 1 \/ pos = Size,
         StartWalk(nb, loop)
  PROVE  StepOK
<1>1. /\ b' = nb /\ pc' = (IF nb.fault = "none" THEN loop ELSE "crashed")
      /\ walk' = [NoWalk EXCEPT !.prev = nb.cur]
      /\ prog' = prog /\ pos' = pos /\ curpos' = curpos /\ ins' = ins
  BY DEF StartWalk
<1>2. Leads(Handlers, b, nb) /\ Good(Handlers, nb) /\ Goes(Handlers, b, nb) /\ nb.blocks # <<>>
      /\ nb.blocks = b.blocks
  BY StaysGoes
<1>3. nb.fault = "none" => nb.cur = TopId(nb)  BY <1>2 DEF Goes, Settled
<1>4. /\ DOMAIN walk' = {"prev", "push", "spam", "todo"}
      /\ walk'.todo = {} /\ IsFiniteSet(walk'.todo) /\ walk'.prev = nb.cur
  BY <1>1, FS_EmptySet DEF NoWalk
<1>5. Len(nb.blocks) \in Nat /\ 1 <= Len(nb.blocks)  BY <1>2, TopFacts
<1>6. Size' = Size  BY <1>1, SameCode
<1>7. nb.fault = "none" /\ loop = "forward" => 2 <= Len(nb.blocks) \/ (pos = Size /\ nb.cur = TopId(nb))
  <2>1. \A n \in Nat : 1 <= n /\ n # 1 => 2 <= n  OBVIOUS
  <2>2. Len(nb.blocks) # 1 => 2 <= Len(nb.blocks)  BY <1>5, <2>1
  <2>3. Len(nb.blocks) = Len(b.blocks)  BY <1>2
  <2> QED  BY <1>3, <2>2, <2>3
<1>8. WalkOK'
  <2>1. TopId(b)' = TopId(nb)  BY <1>1 DEF TopId
  <2>2. pc' \in {"absolute", "forward"} => b'.blocks # <<>> /\ walk'.prev = TopId(b)'
    BY <1>1, <1>2, <1>3, <1>4, <2>1
  <2>3. pc' = "forward" => 2 <= Len(b'.blocks) \/ (pos' = Size' /\ b'.cur = TopId(b)')
    BY <1>1, <1>6, <1>7, <2>1
  <2> QED  BY <1>4, <2>2, <2>3 DEF WalkOK
<1>9. Nearer
  <2>1. pc' \in {"absolute", "forward", "crashed"}  BY <1>1
  <2> QED  BY <1>1, <2>1, NextStage
<1> QED  BY <1>1, <1>2, <1>8, <1>9, WalkStep

LEMMA OpJumpAbsolute == ASSUME IInv, JumpAbsolute PROVE StepOK
<1>1. pc = "exec" /\ StartWalk(RestoreStack(b), "absolute")  BY DEF JumpAbsolute, On
<1>2. Stays(Handlers, b, RestoreStack(b))  BY <1>1, Start, RestoreStays
<1> QED  BY <1>1, <1>2, StartWalkStep

LEMMA OpJumpForward == ASSUME IInv, JumpForward PROVE StepOK
<1> DEFINE b1 == IF b.hist = <<>> THEN b
                 ELSE IF IsEmpty(b.stack) THEN RestoreStack(b) ELSE ForgetStack(b)
<1>1. pc = "exec"  BY DEF JumpForward, On
<1>2. \/ BreakAt(b1, pos)
      \/ (Len(b.blocks) # 1 \/ ~(pos < Size)) /\ StartWalk(b1, "forward")
  BY DEF JumpForward
<1>3. Stays(Handlers, b, b1)  BY <1>1, Start, RestoreStays, ForgetStays
<1> HIDE DEF b1
<1>4. ~(pos < Size) => pos = Size  BY SizeNat DEF IInv
<1>5. BreakAt(b1, pos) => StepOK  BY <1>1, <1>3, StaysStep
<1>6. (Len(b.blocks) # 1 \/ pos = Size) /\ StartWalk(b1, "forward") => StepOK
  BY <1>1, <1>3, StartWalkStep
<1> QED  BY <1>2, <1>4, <1>5, <1>6

LEMMA OpJumpForwardInContainer == ASSUME IInv, JumpForwardInContainer PROVE StepOK
<1> DEFINE blk == CondBlock("EXCEPT", pos + ins.arg, 1, Null, FALSE)
           bs  == [SaveStack(b) EXCEPT !.heap[b.cur].end = pos + ins.arg]
<1>1. pc = "exec" /\ (BreakAt(Open(bs, blk), pos) \/ BreakAt(b, pos))
  BY DEF JumpForwardInContainer, On, Break
<1>2. NewBlock(Handlers, blk)  BY CondBlockNew
<1>3. Stays(Handlers, b, SaveStack(b))  BY <1>1, Start, SaveStays
<1>4. b.cur \in OpenOf(SaveStack(b).blocks)  BY <1>1, <1>3, Start DEF Stays, CurOpen
<1>5. Stays(Handlers, b, bs)  BY <1>3, <1>4, FieldsStay
<1> HIDE DEF blk, bs
<1> QED  BY <1>1, <1>2, <1>5, Start, OpenStep, StaysStep

LEMMA WalkOnStep ==
  ASSUME IInv, pc \in {"absolute", "forward"}, NEW nb, Leads(Handlers, b, nb), NEW prev, NEW push,
         nb.fault = "none" =>
           /\ nb.blocks # <<>> /\ prev = TopId(nb)
           /\ pc = "forward" => 2 <= Len(nb.blocks)
           /\ Len(nb.blocks) < Len(b.blocks),
         WalkOn(nb, prev, push)
  PROVE  StepOK
<1>1. /\ b' = nb /\ pc' = (IF nb.fault = "none" THEN pc ELSE "crashed")
      /\ walk' = [walk EXCEPT !.prev = prev, !.push = push, !.spam = @ + 1]
      /\ prog' = prog /\ pos' = pos /\ curpos' = curpos /\ ins' = ins
  BY DEF WalkOn
<1>2. Handlers' = Handlers  BY <1>1, SameCode
<1>3. /\ DOMAIN walk = {"prev", "push", "spam", "todo"} /\ IsFiniteSet(walk.todo)
      /\ \A r \in walk.todo : r.handler \in Handlers
  BY DEF IInv, WalkOK
<1>4. DOMAIN walk' = {"prev", "push", "spam", "todo"} /\ walk'.todo = walk.todo /\ walk'.prev = prev
  BY <1>1, <1>3
<1>5. WalkOK'
  <2>1. TopId(b)' = TopId(nb)  BY <1>1 DEF TopId
  <2>2. \A r \in walk'.todo : r.handler \in Handlers'  BY <1>2, <1>3, <1>4
  <2>3. pc' \in {"absolute", "forward"} => b'.blocks # <<>> /\ walk'.prev = TopId(b)'
    BY <1>1, <1>4, <2>1
  <2>4. pc' = "forward" => 2 <= Len(b'.blocks)  BY <1>1
  <2> QED  BY <1>3, <1>4, <2>2, <2>3, <2>4 DEF WalkOK
<1>6. Nearer
  <2>1. CASE nb.fault = "none"  BY <1>1, <2>1, FewerBlocks
  <2>2. CASE nb.fault # "none"  BY <1>1, <2>2, NextStage
  <2> QED  BY <2>1, <2>2
<1> QED  BY <1>1, <1>5, <1>6, WalkStep

LEMMA LinkKeeps ==
  ASSUME NEW H, NEW y, Good(H, y), NEW c, LinkToTop(y, c).fault = "none"
  PROVE  /\ y.fault = "none" /\ y.blocks # <<>>
         /\ LinkToTop(y, c).blocks = y.blocks /\ LinkToTop(y, c).cur = y.cur
         /\ LinkToTop(y, c).zce = y.zce /\ LinkToTop(y, c).hist = y.hist
<1>1. DOMAIN y = BuilderFields  BY DEF Good
<1> QED  BY <1>1 DEF LinkToTop, WithBlocks, AppendAt, Crash, BuilderFields

\* the innermost block was popped, and is linked to the one around it
LEMMA ClosePrev ==
  ASSUME IInv, pc \in {"absolute", "forward"}
  PROVE  /\ Leads(Handlers, b, b) /\ b.fault = "none" /\ b.blocks # <<>>
         /\ Leads(Handlers, b, PopBlock(b)) /\ PopBlock(b).fault = "none"
         /\ Len(PopBlock(b).blocks) = Len(b.blocks) - 1
         /\ PopBlock(b) = [b EXCEPT !.blocks = PopFrom(b.blocks)]
         /\ Leads(Handlers, b, LinkToTop(PopBlock(b), walk.prev))
         /\ LinkToTop(PopBlock(b), walk.prev).fault = "none" =>
              /\ LinkToTop(PopBlock(b), walk.prev).blocks # <<>>
              /\ LinkToTop(PopBlock(b), walk.prev).blocks = PopBlock(b).blocks
         /\ Len(PopBlock(b).blocks) < Len(b.blocks)
<1>1. Good(Handlers, b) /\ b.fault = "none" /\ b.blocks # <<>> /\ walk.prev = TopId(b)
  BY DEF IInv, WalkOK
<1>2. Leads(Handlers, b, b)  BY <1>1, LeadsSelf
<1> DEFINE p == PopBlock(b)
<1>3. /\ Leads(Handlers, b, p) /\ p.fault = "none"
      /\ Loose(Handlers, p, walk.prev) /\ Len(p.blocks) = Len(b.blocks) - 1
      /\ p = [b EXCEPT !.blocks = PopFrom(b.blocks)]
  BY <1>1, <1>2, PopAny
<1> HIDE DEF p
<1> DEFINE l == LinkToTop(p, walk.prev)
<1>4. Leads(Handlers, b, l)
  <2>1. p.fault = "none" => Loose(Handlers, p, walk.prev)  BY <1>3
  <2> QED  BY <1>3, <2>1, LinkTop
<1>6. Len(p.blocks) < Len(b.blocks)  BY <1>1, <1>3, TopFacts
<1>5. l.fault = "none" => l.blocks # <<>> /\ l.blocks = p.blocks
  <2>1. l.fault = "none" => p.blocks # <<>> /\ l.blocks = p.blocks
    BY <1>3, LinkKeeps DEF Leads
  <2> QED  BY <2>1
<1> QED  BY <1>1, <1>2, <1>3, <1>4, <1>5, <1>6 DEF p

LEMMA FollowerNew ==
  ASSUME NEW H, NEW blk, NEW end
  PROVE  NewBlock(H, Follower(blk, end))
BY CondBlockNew DEF Follower

LEMMA SaveIfLeads ==
  ASSUME NEW H, NEW x, NEW y, Leads(H, x, y), NEW push
  PROVE  Leads(H, x, SaveIf(y, push)) /\ Beside(y, SaveIf(y, push))
<1>1. Beside(y, y)  BY DEF Beside
<1> QED  BY <1>1, OperandMoves, BesideMoves DEF SaveIf, Leads

LEMMA OpWalkAbsolute == ASSUME IInv, WalkAbsolute PROVE StepOK
<1> DEFINE prev == b.heap[walk.prev]
           b1   == LinkToTop(PopBlock(b), walk.prev)
           b2   == IF walk.push THEN b1 ELSE RestoreStack(b1)
           blk  == Follower(prev, TopBlock(b1).end)
           b3   == SaveIf(b1, walk.push)
<1>1. pc = "absolute"  BY DEF WalkAbsolute
<1>2. \/ WalkOn(b2, TopId(b1), FALSE)
      \/ b1.fault = "none" /\ BreakAt(Open(b3, blk), pos)
      \/ BreakAt(ToTop(b1), pos)
  BY DEF WalkAbsolute, Break
<1>3. /\ Leads(Handlers, b, b1)
      /\ b1.fault = "none" => b1.blocks # <<>> /\ Len(b1.blocks) < Len(b.blocks)
  BY <1>1, ClosePrev
<1>4. NewBlock(Handlers, blk)  BY FollowerNew
<1> HIDE DEF b1, blk
<1>5. Leads(Handlers, b, b2) /\ Beside(b1, b2)
  <2>1. Beside(b1, b1)  BY DEF Beside
  <2> QED  BY <1>3, <2>1, OperandMoves, BesideMoves DEF Leads
<1>6. Leads(Handlers, b, b3) /\ Beside(b1, b3)  BY <1>3, SaveIfLeads
<1> HIDE DEF b2, b3
<1>7. WalkOn(b2, TopId(b1), FALSE) => StepOK
  <2>1. b2.fault = "none" => /\ b2.blocks # <<>> /\ TopId(b1) = TopId(b2)
                            /\ Len(b2.blocks) < Len(b.blocks)
    BY <1>3, <1>5 DEF Beside, TopId
  <2> QED  BY <1>1, <1>5, <2>1, WalkOnStep
<1>8. Goes(Handlers, b, Open(b3, blk))  BY <1>3, <1>4, <1>6, OpenGoes DEF Beside
<1>9. Goes(Handlers, b, ToTop(b1))  BY <1>3, ToTopGoes
<1> QED  BY <1>1, <1>2, <1>7, <1>8, <1>9, GoesStep

\* the loop is left with the innermost block as curblock
LEMMA LeaveGoes ==
  ASSUME NEW H, NEW x, NEW y, Leads(H, x, y), y.fault = "none" => y.blocks # <<>>
  PROVE  Goes(H, x, LeaveForward(y))
<1> DEFINE t == ToTop(y)
           i == TopId(y)
           z == [t EXCEPT !.heap[i].end = pos + ins.arg]
<1>1. CASE y.fault # "none"
  BY <1>1 DEF LeaveForward, Goes
<1>2. CASE y.fault = "none"
  <2>1. Goes(H, x, t) /\ t = [y EXCEPT !.cur = i]  BY <1>2, ToTopGoes
  <2>2. DOMAIN y = BuilderFields  BY DEF Leads, Good
  <2>3. t.blocks = y.blocks  BY <2>1, <2>2 DEF BuilderFields
  <2>4. i \in OpenOf(t.blocks)  BY <1>2, <2>3, TopFacts DEF Leads
  <2>5. LeaveForward(y) \in {t, z}  BY <1>2 DEF LeaveForward
  <2> HIDE DEF t, i
  <2>6. Stays(H, t, t)  BY <2>1, StaysSelf DEF Goes, Leads
  <2>7. Stays(H, t, z)  BY <2>4, <2>6, FieldsStay
  <2> HIDE DEF z
  <2>8. Goes(H, x, z)  BY <2>1, <2>7, LeadsStays DEF Goes
  <2> QED  BY <2>1, <2>5, <2>8
<1> QED  BY <1>1, <1>2

\* or, when the code has ended, with no block left
LEMMA LeaveMain ==
  ASSUME NEW H, Good(H, b), Settled(b), b.fault = "none", Len(b.blocks) = 1
  PROVE  Leads(H, b, LeaveForward(PopBlock(b)))
<1> DEFINE c == [b EXCEPT !.heap[b.cur].end = pos + ins.arg]
           p == PopBlock(b)
<1>1. Stays(H, b, b) /\ CurOpen(b) /\ b.blocks # <<>> /\ Leads(H, b, b)
  BY StaysSelf, SettledCur, LeadsSelf
<1>2. Stays(H, b, c)  BY <1>1, FieldsStay DEF CurOpen
<1>3. DOMAIN b = BuilderFields  BY DEF Good
<1>4. c.fault = "none" /\ c.blocks = b.blocks  BY <1>3 DEF BuilderFields
<1>5. PopBlock(c) = [c EXCEPT !.blocks = PopFrom(c.blocks)]  BY <1>1, <1>4 DEF PopBlock, WithBlocks
<1>6. /\ p = [b EXCEPT !.blocks = PopFrom(b.blocks)] /\ Leads(H, b, p)
      /\ Len(p.blocks) = Len(b.blocks) - 1
  BY <1>1, PopLeads
<1>7. p.blocks = <<>>
  <2>1. Good(H, p)  BY <1>6 DEF Leads
  <2>2. Len(p.blocks) = 0  BY <1>6
  <2> QED  BY <2>1, <2>2, NoBlocks
<1>8. LeaveForward(p) = [p EXCEPT !.heap[p.cur].end = pos + ins.arg]
  <2>1. p.fault = "none"  BY <1>3, <1>6 DEF BuilderFields
  <2> QED  BY <1>7, <2>1 DEF LeaveForward
<1>9. LeaveForward(p) = PopBlock(c)
  BY <1>3, <1>4, <1>5, <1>6, <1>8 DEF BuilderFields
<1> HIDE DEF c
<1>10. Leads(H, b, c)  BY <1>1, <1>2, LeadsStays
<1>11. Leads(H, b, PopBlock(c))  BY <1>10, PopAny
<1> QED  BY <1>9, <1>11 DEF p

LEMMA PopFromPlain ==
  ASSUME NEW s, PlainSeq(s)
  PROVE  PlainSeq(PopFrom(s))
<1>1. IsSeq(s) /\ Len(s) \in Nat  BY DEF PlainSeq, IsSeq
<1>2. CASE Len(s) = 0  BY <1>1, <1>2, PopSeq
<1>3. CASE 1 <= Len(s)  BY <1>1, <1>3, PopSeq DEF PlainSeq
<1> QED  BY <1>1, <1>2, <1>3

LEMMA AddExceptLeads ==
  ASSUME NEW H, NEW x, NEW y, Leads(H, x, y), NEW push
  PROVE  /\ Leads(H, x, AddExcept(y, push))
         /\ AddExcept(y, push).fault = "none" => AddExcept(y, push).blocks # <<>>
<1> DEFINE w   == WithBlocks(y, y)
           b1  == WithHist(w, [y EXCEPT !.stack = PopFrom(y.hist[Len(y.hist)])])
           blk == CondBlock("EXCEPT", pos + ins.arg, 1, Null, FALSE)
           sv  == SaveIf(b1, push)
<1>1. Good(H, y) /\ DOMAIN y = BuilderFields  BY DEF Leads, Good
<1>2. Leads(H, x, b1) /\ (b1.fault = "none" => b1.blocks # <<>>)
  <2>1. CASE y.fault = "none" /\ y.blocks # <<>> /\ y.hist # <<>>
    <3> DEFINE last == y.hist[Len(y.hist)]
    <3>1. b1 = [y EXCEPT !.stack = PopFrom(last)]  BY <2>1 DEF WithBlocks, WithHist
    <3>2. PlainSeq(last)  BY <1>1, <2>1, FrontOfHist
    <3> HIDE DEF last
    <3>3. PlainSeq(PopFrom(last))  BY <3>2, PopFromPlain
    <3>4. Beside(y, b1) /\ DOMAIN b1 = BuilderFields /\ OperandsOK(b1.stack, b1.hist)
      BY <1>1, <3>1, <3>3 DEF Good, OperandsOK, Beside, BuilderFields
    <3> QED  BY <2>1, <3>4, BesideLeads DEF Beside
  <2>2. CASE ~(y.fault = "none" /\ y.blocks # <<>> /\ y.hist # <<>>)
    <3>1. Goes(H, x, Crash(y, "ub")) /\ Crash(y, "ub").fault # "none"  BY CrashGoes
    <3>2. Crash(Crash(y, "ub"), "ub") = Crash(y, "ub")  BY <3>1 DEF Crash
    <3>3. CASE y.fault = "none" /\ y.blocks # <<>>
      <4>1. w = y  BY <3>3 DEF WithBlocks
      <4>2. b1 = Crash(y, "ub")  BY <2>2, <3>3, <4>1 DEF WithHist
      <4> QED  BY <3>1, <4>2 DEF Goes
    <3>4. CASE ~(y.fault = "none" /\ y.blocks # <<>>)
      <4>1. w = Crash(y, "ub")  BY <3>4 DEF WithBlocks
      <4>2. b1 = Crash(y, "ub")  BY <3>1, <3>2, <4>1 DEF WithHist
      <4> QED  BY <3>1, <4>2 DEF Goes
    <3> QED  BY <3>3, <3>4
  <2> QED  BY <2>1, <2>2
<1>3. AddExcept(y, push) = IF b1.fault = "none" /\ TopBlock(b1).type = "CONTAINER" /\ HasExcept(TopBlock(b1))
                           THEN PushBlock(sv, blk) ELSE b1
  BY DEF AddExcept
<1> HIDE DEF b1
<1>4. Leads(H, x, sv) /\ Beside(b1, sv)  BY <1>2, SaveIfLeads
<1>5. NewBlock(H, blk)  BY CondBlockNew
<1> HIDE DEF sv, blk
<1>6. /\ Leads(H, x, PushBlock(sv, blk)) /\ PushBlock(sv, blk).fault = sv.fault
      /\ sv.fault = "none" => PushBlock(sv, blk).blocks # <<>>
  BY <1>2, <1>4, <1>5, PushLeads DEF Beside
<1> QED  BY <1>2, <1>3, <1>6

\* the module's block is at the bottom
LEMMA NotMainTop ==
  ASSUME NEW H, NEW y, Good(H, y), y.blocks # <<>>, TopBlock(y).type # "MAIN"
  PROVE  2 <= Len(y.blocks)
<1>1. Len(y.blocks) \in Nat /\ 1 <= Len(y.blocks)  BY TopFacts
<1>2. y.blocks[1] = MAIN /\ y.heap[MAIN].type = "MAIN"
  BY <1>1 DEF Good, NestedIn, HeapOK, MAIN, IsSeq
<1> QED  BY <1>1, <1>2 DEF TopBlock, TopId

LEMMA OpWalkForward == ASSUME IInv, WalkForward PROVE StepOK
<1> DEFINE prev == b.heap[walk.prev]
           b1   == PopBlock(b)
           l    == LinkToTop(b1, walk.prev)
           b2   == IF b1.fault = "none" /\ b1.blocks # <<>> THEN l ELSE b1
           r    == IF walk.push THEN b2 ELSE RestoreStack(b2)
           b3   == WithBlocks(b2, r)
           sv   == SaveIf(b2, walk.push)
           blk  == Follower(prev, pos + ins.arg)
           b4   == PushBlock(sv, blk)
           b5   == AddExcept(b2, walk.push)
<1>1. pc = "forward"  BY DEF WalkForward
<1>2. \/ BreakAt(LeaveForward(b), pos)
      \/ prev.type = "ELSE" /\ (b3.fault # "none" \/ TopBlock(b3).type = "MAIN") /\ BreakAt(LeaveForward(b3), pos)
      \/ /\ prev.type = "ELSE" /\ ~(b3.fault # "none" \/ TopBlock(b3).type = "MAIN")
         /\ WalkOn(b3, TopId(b3), FALSE)
      \/ prev.type \in {"IF", "ELIF", "EXCEPT"} /\ BreakAt(LeaveForward(b4), pos)
      \/ prev.type = "TRY" /\ BreakAt(LeaveForward(b5), pos)
      \/ BreakAt(LeaveForward(b2), pos)
  BY DEF WalkForward, HasFollower, Break
<1>3. /\ Leads(Handlers, b, b) /\ b.fault = "none" /\ b.blocks # <<>>
      /\ Leads(Handlers, b, b1) /\ b1.fault = "none"
      /\ Len(b1.blocks) = Len(b.blocks) - 1 /\ Len(b1.blocks) < Len(b.blocks)
      /\ Leads(Handlers, b, l) /\ (l.fault = "none" => l.blocks # <<>> /\ l.blocks = b1.blocks)
  BY <1>1, ClosePrev
<1>4. walk.prev = TopId(b) /\ (2 <= Len(b.blocks) \/ (pos = Size /\ b.cur = TopId(b)))
  BY <1>1 DEF IInv, WalkOK
<1>5. Good(Handlers, b) /\ Good(Handlers, b1)  BY <1>3 DEF Leads
<1>6. Len(b.blocks) \in Nat /\ 1 <= Len(b.blocks)  BY <1>3, <1>5, TopFacts
<1>7. prev.type # "MAIN" => 2 <= Len(b.blocks)
  BY <1>3, <1>4, <1>5, NotMainTop DEF TopBlock
<1>8. 2 <= Len(b.blocks) => b1.blocks # <<>>
  <2>1. 2 <= Len(b.blocks) => 1 <= Len(b1.blocks)  BY <1>3, <1>6
  <2> QED  BY <1>5, <2>1, NoBlocks
<1>9. /\ Leads(Handlers, b, b2)
      /\ 2 <= Len(b.blocks) => b2 = l
      /\ Len(b.blocks) = 1 => b2 = b1
      /\ b2.fault = "none" => Len(b2.blocks) < Len(b.blocks)
  <2>1. Len(b.blocks) = 1 => b1.blocks = <<>>
    <3>1. Len(b.blocks) = 1 => ~(1 <= Len(b1.blocks))  BY <1>3
    <3> QED  BY <1>5, <3>1, NoBlocks
  <2> QED  BY <1>3, <1>8, <2>1
<1>10. BreakAt(LeaveForward(b), pos) => StepOK  BY <1>1, <1>3, LeaveGoes, GoesStep
<1> HIDE DEF l, b2, prev
<1>11. 2 <= Len(b.blocks) => (b2.fault = "none" => b2.blocks # <<>>)  BY <1>3, <1>9
<1>12. BreakAt(LeaveForward(b2), pos) => StepOK
  <2>1. CASE 2 <= Len(b.blocks)  BY <1>1, <1>9, <1>11, <2>1, LeaveGoes, GoesStep
  <2>2. CASE ~(2 <= Len(b.blocks))
    <3>0. \A n \in Nat : 1 <= n /\ ~(2 <= n) => n = 1  OBVIOUS
    <3>1. Len(b.blocks) = 1 /\ pos = Size /\ b.cur = TopId(b)  BY <1>4, <1>6, <2>2, <3>0
    <3>2. Settled(b)  BY <1>4, <1>6, <3>1 DEF Settled
    <3>3. Leads(Handlers, b, LeaveForward(b1))  BY <1>3, <1>5, <3>1, <3>2, LeaveMain
    <3>4. pos \in pos .. Size  BY SizeNat DEF IInv
    <3> QED  BY <1>1, <1>9, <3>1, <3>3, <3>4, BreakStep
  <2> QED  BY <2>1, <2>2
<1>13. /\ Leads(Handlers, b, b3)
       /\ b3.fault = "none" => b3.blocks # <<>> /\ Len(b3.blocks) < Len(b.blocks)
  <2>1. Leads(Handlers, b, r)  BY <1>9, OperandMoves
  <2>2. Beside(b2, r)
    <3>1. Beside(b2, b2)  BY DEF Beside
    <3> QED  BY <1>9, <3>1, BesideMoves DEF Leads
  <2> HIDE DEF r
  <2>3. CASE b2.fault = "none" /\ b2.blocks # <<>>
    BY <1>9, <2>1, <2>2, <2>3 DEF WithBlocks, Beside
  <2>4. CASE ~(b2.fault = "none" /\ b2.blocks # <<>>)
    <3>1. b3 = Crash(b2, "ub")  BY <2>4 DEF WithBlocks
    <3> QED  BY <1>9, <3>1, CrashGoes DEF Goes
  <2> QED  BY <2>3, <2>4
<1> HIDE DEF b3
<1>14. BreakAt(LeaveForward(b3), pos) => StepOK  BY <1>1, <1>13, LeaveGoes, GoesStep
<1>15. (/\ ~(b3.fault # "none" \/ TopBlock(b3).type = "MAIN")
        /\ WalkOn(b3, TopId(b3), FALSE)) => StepOK
  <2> SUFFICES ASSUME b3.fault = "none", TopBlock(b3).type # "MAIN", WalkOn(b3, TopId(b3), FALSE)
               PROVE  StepOK
    OBVIOUS
  <2>1. Good(Handlers, b3) /\ b3.blocks # <<>>  BY <1>13 DEF Leads
  <2>2. 2 <= Len(b3.blocks)  BY <2>1, NotMainTop
  <2> QED  BY <1>1, <1>13, <2>1, <2>2, WalkOnStep
<1>16. Leads(Handlers, b, sv) /\ Beside(b2, sv)  BY <1>9, SaveIfLeads
<1>17. NewBlock(Handlers, blk)  BY FollowerNew
<1> HIDE DEF sv, blk
<1>18. prev.type \in {"IF", "ELIF", "EXCEPT"} /\ BreakAt(LeaveForward(b4), pos) => StepOK
  <2> SUFFICES ASSUME prev.type \in {"IF", "ELIF", "EXCEPT"}, BreakAt(LeaveForward(b4), pos)
               PROVE  StepOK
    OBVIOUS
  <2>1. sv.fault = "none" => sv.blocks # <<>>  BY <1>7, <1>11, <1>16 DEF Beside
  <2>2. /\ Leads(Handlers, b, b4) /\ b4.fault = sv.fault
        /\ sv.fault = "none" => b4.blocks # <<>>
    BY <1>16, <1>17, <2>1, PushLeads
  <2> QED  BY <1>1, <2>2, LeaveGoes, GoesStep
<1>19. BreakAt(LeaveForward(b5), pos) => StepOK
  BY <1>1, <1>9, AddExceptLeads, LeaveGoes, GoesStep
<1> QED  BY <1>2, <1>10, <1>12, <1>14, <1>15, <1>18, <1>19

-----------------------------------------------------------------------------
(* Block enders                                                            *)

LEMMA DropKeywordStays ==
  ASSUME NEW H, NEW x, NEW y, Stays(H, x, y), CurOpen(x)
  PROVE  Stays(H, x, DropKeyword(y)) /\ DropKeyword(y).fault = y.fault
<1>1. LastNode(Cur(y)).kind = "keyword" => Stays(H, x, RemoveLast(y))  BY ReplaceStays
<1>2. DOMAIN y = BuilderFields  BY DEF Stays, Good
<1>3. RemoveLast(y).fault = y.fault  BY <1>2 DEF RemoveLast, BuilderFields
<1> QED  BY <1>1, <1>3 DEF DropKeyword

LEMMA OpPopBlockKept == ASSUME IInv, PopBlockIgnored \/ PopBlockRefused PROVE StepOK
<1>1. pc = "exec" /\ (BreakAt(b, pos) \/ BreakAt(DropKeyword(b), pos))
  BY DEF PopBlockIgnored, PopBlockRefused, On, Break
<1>2. Stays(Handlers, b, DropKeyword(b))  BY <1>1, Start, DropKeywordStays
<1> QED  BY <1>1, <1>2, Start, StaysStep

\* the stack as it was when the block was opened
LEMMA EndStack ==
  ASSUME NEW H, NEW x, NEW y, Leads(H, x, y), y.fault = "none",
         NEW z, (z = RestoreStack(y) /\ y.hist # <<>>) \/ z = y
  PROVE  Leads(H, x, z) /\ Beside(y, z) /\ z.fault = "none"
<1>1. DOMAIN y = BuilderFields /\ Good(H, y)  BY DEF Leads, Good
<1>2. y.hist # <<>> => RestoreStack(y).fault = "none"
  BY <1>1 DEF RestoreStack, WithHist, BuilderFields
<1>3. Beside(y, y)  BY DEF Beside
<1> QED  BY <1>1, <1>2, <1>3, OperandMoves, BesideMoves

LEMMA EndBlockGoes ==
  ASSUME NEW H, NEW x, NEW y, Goes(H, x, y), y.fault = "none", 2 <= Len(y.blocks)
  PROVE  Goes(H, x, EndBlock(y))
<1> DEFINE b1 == IF Cur(y).type \in {"IF", "ELIF", "ELSE", "TRY", "EXCEPT"} /\ y.hist # <<>>
                 THEN RestoreStack(y) ELSE y
           b2 == PopBlock(b1)
           b3 == IF b2.blocks = <<>> THEN b2 ELSE ToTop(b2)
           e  == AppendAt(b3, b3.cur, BlockNode(y.cur))
<1>1. EndBlock(y) \in {b3, e}  BY DEF EndBlock, Emit
<1>2. Leads(H, x, y) /\ y.cur = TopId(y)  BY DEF Goes, Settled
<1>3. Leads(H, x, b1) /\ Beside(y, b1) /\ b1.fault = "none"  BY <1>2, EndStack
<1> HIDE DEF b1
<1>4. Good(H, b1) /\ b1.blocks = y.blocks /\ TopId(b1) = y.cur
  BY <1>2, <1>3 DEF Beside, TopId, Leads
<1>5. Len(b1.blocks) \in Nat /\ 2 <= Len(b1.blocks) /\ b1.blocks # <<>>
  <2>1. Len(b1.blocks) \in Nat /\ 2 <= Len(b1.blocks)  BY <1>4 DEF Good, NestedIn, IsSeq
  <2> QED  BY <1>4, <2>1, NoBlocks
<1>6. /\ b2 = [b1 EXCEPT !.blocks = PopFrom(b1.blocks)]
      /\ Leads(H, x, b2) /\ Loose(H, b2, y.cur)
      /\ Len(b2.blocks) = Len(b1.blocks) - 1
  BY <1>3, <1>4, <1>5, PopLeads
<1>7. DOMAIN b1 = BuilderFields  BY <1>4 DEF Good
<1>8. b2.fault = "none"  BY <1>3, <1>6, <1>7 DEF BuilderFields
<1> HIDE DEF b2
<1>9. Good(H, b2) /\ DOMAIN b2 = BuilderFields  BY <1>6 DEF Leads, Good
<1>10. b2.blocks # <<>>
  <2>1. 1 <= Len(b2.blocks)  BY <1>5, <1>6
  <2> QED  BY <1>9, <2>1, NoBlocks
<1>11. b3 = [b2 EXCEPT !.cur = TopId(b2)] /\ Goes(H, x, b3)
  BY <1>6, <1>8, <1>10, ToTopGoes
<1>12. /\ b3.heap = b2.heap /\ b3.blocks = b2.blocks /\ b3.fault = "none" /\ b3.cur = TopId(b2)
  BY <1>8, <1>9, <1>11 DEF BuilderFields
<1> HIDE DEF b3
<1>13. Loose(H, b3, y.cur)  BY <1>6, <1>12 DEF Loose
<1>14. b3.cur \in OpenOf(b3.blocks)  BY <1>9, <1>10, <1>12, TopFacts
<1>15. Leads(H, x, e) /\ e.blocks = b3.blocks /\ e.cur = b3.cur
  <2>1. Leads(H, x, b3)  BY <1>11 DEF Goes
  <2> QED  BY <1>12, <1>13, <1>14, <2>1, LinkLoose
<1>16. Settled(b3)  BY <1>11, <1>12 DEF Goes
<1> HIDE DEF e
<1>17. Goes(H, x, e)  BY <1>15, <1>16 DEF Goes, Settled, TopId
<1> QED  BY <1>1, <1>11, <1>17

LEMMA LinkMain ==
  ASSUME NEW H, NEW x, NEW bs, Leads(H, x, bs), bs.fault = "none",
         NEW m, m = MAIN, m \in OpenOf(x.blocks), Loose(H, bs, m)
  PROVE  Leads(H, x, AppendAt(bs, m, BlockNode(m)))
<1>1. m = MAIN /\ MAIN \in OpenOf(x.blocks)  OBVIOUS
<1>2. m \in OpenOf(bs.blocks) \/ (m = MAIN /\ m = MAIN /\ MAIN \in OpenOf(x.blocks))  BY <1>1
<1> QED  BY <1>2, LinkLoose

\* the module's block, popped by the last instruction, is linked to itself
LEMMA EndMain ==
  ASSUME NEW H, NEW x, Good(H, x), Settled(x), Len(x.blocks) = 1,
         NEW y, Stays(H, x, y), y.fault = "none"
  PROVE  /\ Leads(H, x, EndBlock(y)) /\ Cur(EndBlock(y)).type = "MAIN"
         /\ Cur(y).type = "MAIN"
<1> DEFINE p == PopBlock(y)
           e == AppendAt(p, MAIN, BlockNode(MAIN))
<1>1. Good(H, y) /\ y.blocks = x.blocks /\ y.cur = x.cur  BY DEF Stays
<1>2. y.blocks[1] = MAIN /\ IsSeq(y.blocks)  BY <1>1 DEF Good, NestedIn
<1>3. y.cur = MAIN /\ TopId(y) = MAIN /\ y.blocks # <<>>
  <2>1. Len(y.blocks) = 1 /\ y.cur = y.blocks[Len(y.blocks)]  BY <1>1 DEF Settled, TopId
  <2> QED  BY <1>1, <1>2, <2>1, NoBlocks DEF TopId
<1>4. MAIN \in OpenOf(x.blocks)  BY <1>1, <1>3, TopFacts
<1>5. MAIN \in 1 .. Len(y.heap)  BY <1>1 DEF Good, HeapOK, IsSeq, MAIN
<1>6. Cur(y).type = "MAIN"  BY <1>1, <1>3, <1>5 DEF Good, HeapOK, Cur
<1>7. Leads(H, x, y)  BY LeadsSelf, LeadsStays
<1>8. /\ p = [y EXCEPT !.blocks = PopFrom(y.blocks)]
      /\ Leads(H, x, p) /\ Loose(H, p, MAIN) /\ Len(p.blocks) = Len(y.blocks) - 1
  BY <1>3, <1>7, PopLeads
<1>9. DOMAIN y = BuilderFields  BY <1>1 DEF Good
<1>10. p.fault = "none" /\ p.cur = MAIN /\ p.heap = y.heap  BY <1>3, <1>8, <1>9 DEF BuilderFields
<1> HIDE DEF p
<1>11. p.blocks = <<>>
  <2>1. Good(H, p)  BY <1>8 DEF Leads
  <2>2. ~(1 <= Len(p.blocks))  BY <1>1, <1>8
  <2> QED  BY <2>1, <2>2, NoBlocks
<1>12. EndBlock(y) = e
  BY <1>3, <1>6, <1>10, <1>11 DEF EndBlock, Emit, p
<1>13. /\ Leads(H, x, e) /\ e.cur = p.cur /\ e.heap[MAIN].type = p.heap[MAIN].type
  <2>0. Leads(H, x, p) /\ Loose(H, p, MAIN) /\ p.fault = "none"  BY <1>8, <1>10
  <2>1. Leads(H, x, e)
    <3>1. \A q, k : Leads(H, x, q) /\ q.fault = "none" /\ k = MAIN /\ k \in OpenOf(x.blocks) /\ Loose(H, q, k)
            => Leads(H, x, AppendAt(q, k, BlockNode(k)))
      BY LinkMain
    <3> QED  BY <1>4, <2>0, <3>1
  <2>2. DOMAIN p = BuilderFields /\ DOMAIN p.heap[MAIN] = BlockFields /\ MAIN \in DOMAIN p.heap
    BY <1>5, <1>10, <2>0 DEF Leads, Good, HeapOK, BlockOK, IsSeq
  <2>3. e = [p EXCEPT !.heap[MAIN].nodes = Append(@, BlockNode(MAIN))]  BY <2>0 DEF AppendAt
  <2>4. e.cur = p.cur /\ e.heap = [p.heap EXCEPT ![MAIN].nodes = Append(@, BlockNode(MAIN))]
    BY <2>2, <2>3 DEF BuilderFields
  <2>5. e.heap[MAIN].type = p.heap[MAIN].type  BY <2>2, <2>4 DEF BlockFields
  <2> QED  BY <2>1, <2>4, <2>5
<1> HIDE DEF e
<1>14. Cur(e).type = "MAIN"  BY <1>3, <1>6, <1>10, <1>13 DEF Cur
<1> QED  BY <1>6, <1>12, <1>13, <1>14

\* a state that a step ends in has an open block
LEMMA GoesOpen ==
  ASSUME NEW H, NEW x, NEW y, Goes(H, x, y)
  PROVE  Leads(H, x, y) /\ (y.fault = "none" => y.blocks # <<>>)
<1>1. Leads(H, x, y) /\ Good(H, y)  BY DEF Goes, Leads
<1> QED  BY <1>1, NoBlocks DEF Goes

\* a block is opened over a saved stack
LEMMA OpenSavedGoes ==
  ASSUME NEW H, NEW x, NEW y, Goes(H, x, y), NEW blk, NewBlock(H, blk)
  PROVE  Goes(H, x, Open(SaveStack(y), blk))
<1> DEFINE sv == SaveStack(y)
<1>1. Leads(H, x, y) /\ (y.fault = "none" => y.blocks # <<>>)  BY GoesOpen
<1>2. Leads(H, x, sv) /\ Beside(y, sv)  BY <1>1, OperandMoves, BesideMoves DEF Leads
<1> HIDE DEF sv
<1>3. sv.fault = "none" => sv.blocks # <<>>  BY <1>1, <1>2 DEF Beside
<1>4. Goes(H, x, Open(sv, blk))  BY <1>2, <1>3, OpenGoes
<1> QED  BY <1>4 DEF sv

\* a block is closed over the stack that was saved for it
LEMMA CloseRestored ==
  ASSUME NEW H, NEW x, NEW y, Goes(H, x, y)
  PROVE  Goes(H, x, CloseCur(RestoreStack(y))) /\ Goes(H, x, CloseCur(y))
<1>1. Goes(H, x, RestoreStack(y))  BY OperandMoves DEF Goes
<1> QED  BY <1>1, CloseCurGoes

LEMMA EndOfClausesGoes ==
  ASSUME NEW H, NEW x, NEW y, Goes(H, x, y), NEW type
  PROVE  Goes(H, x, EndOfClauses(y, type))
<1> DEFINE blk == Block("FINALLY", 0, 1)
<1>1. EndOfClauses(y, type) \in {y, CloseCur(y), Open(SaveStack(y), blk)}  BY DEF EndOfClauses
<1>2. NewBlock(H, blk)  BY CondBlockNew
<1> HIDE DEF blk
<1>3. Goes(H, x, Open(SaveStack(y), blk))  BY <1>2, OpenSavedGoes
<1>4. Goes(H, x, CloseCur(y))  BY CloseRestored
<1> QED  BY <1>1, <1>3, <1>4

LEMMA OpPopBlock == ASSUME IInv, PopBlockOp PROVE StepOK
<1> DEFINE b1  == DropKeyword(b)
           tmp == Cur(b1)
           eb  == EndBlock(b1)
           b2  == ForElse(eb, tmp)
           b3  == IF EndsTry(b2, tmp) THEN CloseCur(RestoreStack(b2)) ELSE b2
           ty  == IF EndsTry(b2, tmp) THEN "TRY" ELSE tmp.type
           b4  == EndOfClauses(b3, ty)
           b5  == IF Cur(b4).type \in {"FOR", "ASYNCFOR"} /\ Cur(b4).end = pos THEN CloseCur(b4) ELSE b4
<1>1. pc = "exec" /\ (Len(b.blocks) # 1 \/ pos = Size) /\ BreakAt(b5, pos)
  BY DEF PopBlockOp, On, Break
<1>2. Stays(Handlers, b, b1) /\ b1.fault = "none" /\ Good(Handlers, b) /\ Settled(b) /\ b.fault = "none"
  BY <1>1, Start, DropKeywordStays
<1>3. Goes(Handlers, b, b1) /\ b1.blocks = b.blocks  BY <1>1, <1>2, StaysGoes
<1> HIDE DEF b1
<1>4. Len(b.blocks) \in Nat /\ 1 <= Len(b.blocks)  BY <1>2, SettledCur, TopFacts
<1>5. CASE 2 <= Len(b.blocks)
  <2>1. Goes(Handlers, b, eb)  BY <1>2, <1>3, <1>5, EndBlockGoes
  <2> DEFINE els == Block("ELSE", tmp.end, UNINITED)
  <2>2. NewBlock(Handlers, els)  BY CondBlockNew
  <2>3. b2 \in {eb, Open(SaveStack(eb), els)}  BY DEF ForElse
  <2> HIDE DEF els, eb, tmp, b2
  <2>4. Goes(Handlers, b, Open(SaveStack(eb), els))  BY <2>1, <2>2, OpenSavedGoes
  <2>5. Goes(Handlers, b, b2)  BY <2>1, <2>3, <2>4
  <2>6. Goes(Handlers, b, CloseCur(RestoreStack(b2)))  BY <2>5, CloseRestored
  <2>7. Goes(Handlers, b, b3)  BY <2>5, <2>6
  <2> HIDE DEF b3, ty
  <2>8. Goes(Handlers, b, b4)  BY <2>7, EndOfClausesGoes
  <2> HIDE DEF b4
  <2>9. Goes(Handlers, b, CloseCur(b4))  BY <2>8, CloseRestored
  <2>10. Goes(Handlers, b, b5)  BY <2>8, <2>9
  <2> QED  BY <1>1, <2>10, GoesStep
<1>6. CASE ~(2 <= Len(b.blocks))
  <2>0. \A n \in Nat : 1 <= n /\ ~(2 <= n) => n = 1  OBVIOUS
  <2>1. Len(b.blocks) = 1 /\ pos = Size  BY <1>1, <1>4, <1>6, <2>0
  <2>2. Leads(Handlers, b, eb) /\ Cur(eb).type = "MAIN" /\ tmp.type = "MAIN"
    BY <1>2, <2>1, EndMain
  <2> HIDE DEF eb, tmp
  <2>3. b2 = eb  BY <2>2 DEF ForElse
  <2>4. ~EndsTry(b2, tmp)  BY <2>2, <2>3 DEF EndsTry
  <2>5. b3 = eb  BY <2>3, <2>4
  <2> HIDE DEF b2, b3, ty
  <2>6. b4 = eb  BY <2>2, <2>5 DEF EndOfClauses
  <2> HIDE DEF b4
  <2>7. b5 = eb  BY <2>2, <2>6
  <2>8. pos \in pos .. Size  BY SizeNat DEF IInv
  <2> QED  BY <1>1, <2>1, <2>2, <2>7, <2>8, BreakStep
<1> QED  BY <1>5, <1>6

LEMMA EndExceptGoes ==
  ASSUME NEW H, NEW x, NEW y, Goes(H, x, y), y.fault = "none", Cur(y).type = "EXCEPT"
  PROVE  Goes(H, x, EndExcept(y))
<1> DEFINE prev == Cur(y)
           b1   == PopBlock(y)
           l    == LinkToTop(b1, y.cur)
           b2   == ToTop(IF prev.nodes = <<>> THEN b1 ELSE l)
           els  == Block("ELSE", prev.end, 1)
<1>1. Leads(H, x, b1) /\ (b1.fault = "none" => Loose(H, b1, y.cur))  BY PopOpen
<1>2. EndExcept(y) \in {b2, Crash(b2, "bad_cast"), Open(b2, els), RestoreStack(b2)}  BY DEF EndExcept
<1>3. NewBlock(H, els)  BY CondBlockNew
<1> HIDE DEF prev, b1, els
<1>4. Leads(H, x, l)  BY <1>1, LinkTop
<1> HIDE DEF l
<1>5. Goes(H, x, b2)  BY <1>1, <1>4, ToTopGoes
<1> HIDE DEF b2
<1>6. Leads(H, x, b2) /\ (b2.fault = "none" => b2.blocks # <<>>)  BY <1>5, GoesOpen
<1>7. Goes(H, x, Open(b2, els))  BY <1>3, <1>6, OpenGoes
<1>8. Goes(H, x, Crash(b2, "bad_cast"))  BY <1>6, CrashGoes
<1>9. Goes(H, x, RestoreStack(b2))  BY <1>5, <1>6, OperandMoves
<1> QED  BY <1>2, <1>5, <1>7, <1>8, <1>9

LEMMA EndAsyncForGoes ==
  ASSUME NEW H, NEW x, NEW y, Goes(H, x, y), y.fault = "none", 3 <= Len(y.blocks)
  PROVE  Goes(H, x, EndAsyncFor(y))
<1> DEFINE p1 == PopBlock(y)
           p2 == PopBlock(p1)
           b1 == ToTop(p2)
           first == y.heap[y.blocks[Len(y.blocks) - 1]].nodes[1]
           tgt == y.heap[first.id].nodes[1].args[2]
           si == SetIndex(b1, tgt)
<1>1. \/ EndAsyncFor(y) = Crash(y, "ub") \/ EndAsyncFor(y) = Crash(y, "bad_cast")
      \/ EndAsyncFor(y) = RestoreStack(b1) \/ EndAsyncFor(y) = RestoreStack(si)
  BY Zenon DEF EndAsyncFor
<1>2. Leads(H, x, y) /\ y.blocks # <<>> /\ Good(H, y) /\ Len(y.blocks) \in Nat
  <2>1. Leads(H, x, y) /\ y.blocks # <<>>  BY GoesOpen
  <2> QED  BY <2>1, TopFacts DEF Leads
<1>3. /\ p1 = [y EXCEPT !.blocks = PopFrom(y.blocks)] /\ Leads(H, x, p1)
      /\ Len(p1.blocks) = Len(y.blocks) - 1
  BY <1>2, PopLeads
<1>4. p1.fault = "none"  BY <1>2, <1>3 DEF Good, BuilderFields
<1> HIDE DEF p1
<1>5. Good(H, p1) /\ 2 <= Len(p1.blocks)  BY <1>2, <1>3 DEF Leads
<1>6. p1.blocks # <<>>
  <2>1. 1 <= Len(p1.blocks)  BY <1>2, <1>3
  <2> QED  BY <1>5, <2>1, NoBlocks
<1>7. /\ p2 = [p1 EXCEPT !.blocks = PopFrom(p1.blocks)] /\ Leads(H, x, p2)
      /\ Len(p2.blocks) = Len(p1.blocks) - 1
  BY <1>3, <1>4, <1>6, PopLeads
<1>8. p2.fault = "none"  BY <1>4, <1>5, <1>7 DEF Good, BuilderFields
<1> HIDE DEF p2
<1>9. Good(H, p2) /\ p2.blocks # <<>>
  <2>1. 1 <= Len(p2.blocks)  BY <1>2, <1>3, <1>7
  <2> QED  BY <1>7, <2>1, NoBlocks DEF Leads
<1>10. Goes(H, x, b1) /\ b1 = [p2 EXCEPT !.cur = TopId(p2)]  BY <1>7, <1>8, <1>9, ToTopGoes
<1>11. b1.fault = "none"  BY <1>8, <1>9, <1>10 DEF Good, BuilderFields
<1> HIDE DEF b1, tgt, first
<1>12. Good(H, b1) /\ CurOpen(b1)  BY <1>10, <1>11, SettledCur DEF Goes, Leads
<1>13. Stays(H, b1, si)  BY <1>12, StaysSelf, SetIndexStays
<1>14. Leads(H, x, b1) /\ Goes(H, x, si)  BY <1>10, <1>13, LeadsStays DEF Goes
<1> HIDE DEF si
<1>15. Goes(H, x, RestoreStack(b1)) /\ Goes(H, x, RestoreStack(si))
  BY <1>10, <1>14, OperandMoves DEF Goes
<1>16. Goes(H, x, Crash(y, "ub")) /\ Goes(H, x, Crash(y, "bad_cast"))  BY <1>2, CrashGoes
<1> QED  BY <1>1, <1>15, <1>16

LEMMA OpEndFinally == ASSUME IInv, EndFinally PROVE StepOK
<1> DEFINE fin == Cur(b).type = "FINALLY"
           b1  == CASE fin                    -> CloseCur(RestoreStack(b))
                    [] Cur(b).type = "EXCEPT" -> IF EndsAsyncFor(b) THEN EndAsyncFor(b) ELSE EndExcept(b)
                    [] OTHER                  -> b
<1>1. pc = "exec" /\ (BreakAt(CloseCur(b1), pos) \/ BreakAt(b1, pos))
  BY DEF EndFinally, On, Break
<1>2. Goes(Handlers, b, b) /\ b.fault = "none" /\ Good(Handlers, b) /\ b.blocks # <<>>  BY <1>1, Start
<1>3. \/ b1 = CloseCur(RestoreStack(b)) \/ b1 = b
      \/ EndsAsyncFor(b) /\ b1 = EndAsyncFor(b)
      \/ Cur(b).type = "EXCEPT" /\ b1 = EndExcept(b)
  OBVIOUS
<1> HIDE DEF b1, fin
<1>4. Goes(Handlers, b, CloseCur(RestoreStack(b)))  BY <1>2, CloseRestored
<1>5. EndsAsyncFor(b) => Goes(Handlers, b, EndAsyncFor(b))
  <2>1. Len(b.blocks) \in Nat  BY <1>2, TopFacts
  <2>2. EndsAsyncFor(b) => 3 <= Len(b.blocks)  BY <2>1 DEF EndsAsyncFor
  <2> QED  BY <1>2, <2>2, EndAsyncForGoes
<1>6. Cur(b).type = "EXCEPT" => Goes(Handlers, b, EndExcept(b))  BY <1>2, EndExceptGoes
<1>7. Goes(Handlers, b, b1)  BY <1>2, <1>3, <1>4, <1>5, <1>6
<1>8. Goes(Handlers, b, CloseCur(b1))  BY <1>7, CloseRestored
<1> QED  BY <1>1, <1>7, <1>8, GoesStep

LEMMA OpWithCleanup == ASSUME IInv, WithCleanup PROVE StepOK
<1>1. pc = "exec" /\ (BreakAt(CloseCur(Pop(b)), pos) \/ BreakAt(Pop(b), pos))
  BY DEF WithCleanup, On, Break
<1>2. Goes(Handlers, b, Pop(b))  BY <1>1, Start, OperandMoves
<1>3. Goes(Handlers, b, CloseCur(Pop(b)))  BY <1>2, CloseRestored
<1> QED  BY <1>1, <1>2, <1>3, GoesStep

LEMMA StructureStep == ASSUME IInv, Structure PROVE StepOK
BY OpSetupLoop, OpSetupExcept, OpSetupFinally, OpSetupWith, OpForIter, OpForLoop, OpGetAiter,
   OpCondJump, OpJumpBacks, OpEndFor, OpJumpAbsoluteInContainer, OpJumpAbsolute, OpWalkAbsolute,
   OpJumpForwardInContainer, OpJumpForward, OpWalkForward, OpPopBlockKept, OpPopBlock,
   OpEndFinally, OpWithCleanup DEF Structure

-----------------------------------------------------------------------------
(* The exceptions of 3.11 and later, before the instruction                *)

\* a step before the instruction
LEMMA BeforeStep ==
  ASSUME IInv, pc \in {"closing", "regions", "entering"}, NEW nb, Goes(Handlers, b, nb), b' = nb,
         pc' \in {"crashed", pc, "regions", "entering", "exec"}, Nearer,
         pc' # "crashed" => nb.fault = "none",
         pc' \in {"regions", "entering"} => Handlers # {},
         prog' = prog, pos' = pos, curpos' = curpos, ins' = ins,
         \/ walk' = walk
         \/ \E t : /\ walk' = [walk EXCEPT !.todo = t] /\ IsFiniteSet(t)
                   /\ \A r \in t : r.handler \in Handlers
  PROVE  StepOK
<1>1. Handlers' = Handlers /\ Size' = Size  BY SameCode
<1>2. Leads(Handlers, b, nb) /\ (nb.fault = "none" => Settled(nb))  BY DEF Goes
<1>3. Good(Handlers', b')  BY <1>1, <1>2 DEF Leads
<1>4. b'.zce.now.active < curpos /\ curpos < pos
  <2>1. nb.zce.now.active <= b.zce.now.active  BY <1>2 DEF Leads, Final
  <2>2. nb.zce.now.active \in Int /\ b.zce.now.active \in Int  BY <1>2 DEF Leads, Good, ChainOK
  <2>3. pos \in Int /\ curpos \in Int /\ b.zce.now.active < curpos /\ curpos < pos  BY DEF IInv
  <2> QED  BY <2>1, <2>2, <2>3
<1>5. b'.zce.now.active < pos'
  <2>1. nb.zce.now.active \in Int  BY <1>2 DEF Leads, Good, ChainOK
  <2>2. pos \in Int /\ curpos \in Int  BY DEF IInv
  <2> QED  BY <1>4, <2>1, <2>2
<1>6. InsOK'  BY <1>1 DEF IInv, InsOK
<1>7. WalkOK'
  <2>1. /\ DOMAIN walk = {"prev", "push", "spam", "todo"} /\ IsFiniteSet(walk.todo)
        /\ \A r \in walk.todo : r.handler \in Handlers
    BY DEF IInv, WalkOK
  <2>2. /\ DOMAIN walk' = {"prev", "push", "spam", "todo"} /\ IsFiniteSet(walk'.todo)
        /\ \A r \in walk'.todo : r.handler \in Handlers
    BY <2>1
  <2>3. pc' \notin {"absolute", "forward"}  OBVIOUS
  <2> QED  BY <1>1, <2>2, <2>3 DEF WalkOK
<1>8. IInv'
  <2>1. prog' \in UNION {Programs[i] : i \in DOMAIN Programs} /\ pos' \in 0 .. Size' /\ curpos' \in Nat
    BY <1>1 DEF IInv
  <2>2. pc' # "crashed" => b'.fault = "none" /\ Settled(b')  BY <1>2 DEF Settled, TopId
  <2>3. pc' \in {"crashed", "closing", "regions", "entering", "exec"}  OBVIOUS
  <2>4. pc' \in {"regions", "entering"} => Handlers' # {}  BY <1>1
  <2> QED  BY <1>3, <1>4, <1>5, <1>6, <1>7, <2>1, <2>2, <2>3, <2>4 DEF IInv
<1>9. Kept  BY <1>2, FinalKept DEF Leads
<1> QED  BY <1>8, <1>9 DEF StepOK

\* a closed and linked container waits for its handler
LEMMA ParkGoes ==
  ASSUME NEW H, NEW x, NEW y, Goes(H, x, y), NEW c \in Table(y.heap, H),
         c \notin OpenOf(y.blocks), Linked(y.heap, c)
  PROVE  Goes(H, x, Park(y, y.heap[c].exc, c))
<1> DEFINE h == y.heap[c].exc
           more == {p \in y.zce.pending : p[1] # h} \cup {<<h, c>>}
           zce == [y.zce EXCEPT !.pending = more]
           z == [y EXCEPT !.zce = zce]
<1>1. Good(H, y) /\ Final(x, y) /\ Good(H, x) /\ (y.fault = "none" => x.fault = "none")
      /\ (y.fault = "none" => Settled(y))
  BY DEF Goes, Leads
<1>2. DOMAIN y = BuilderFields /\ DOMAIN y.zce = {"now", "outer", "pending"}
  BY <1>1 DEF Good, ZceShape
<1>3. Park(y, h, c) = z  BY <1>2 DEF Park, BuilderFields
<1>4. /\ zce.now = y.zce.now /\ zce.outer = y.zce.outer /\ zce.pending = more
      /\ DOMAIN zce = {"now", "outer", "pending"}
  BY <1>2
<1>5. /\ z.zce = zce /\ z.heap = y.heap /\ z.blocks = y.blocks /\ z.cur = y.cur
      /\ z.stack = y.stack /\ z.hist = y.hist /\ z.fault = y.fault /\ DOMAIN z = BuilderFields
  BY <1>2 DEF BuilderFields
<1>6. ParkedIn(y.heap, OpenOf(y.blocks), more, H)
  <2> SUFFICES ASSUME NEW p \in more
               PROVE  /\ p = <<p[1], p[2]>> /\ p[1] \in H
                      /\ p[2] \in Table(y.heap, H) /\ y.heap[p[2]].exc = p[1]
                      /\ p[2] \notin OpenOf(y.blocks) /\ Linked(y.heap, p[2])
    BY DEF ParkedIn
  <2>1. CASE p = <<h, c>>
    <3>1. p[1] = h /\ p[2] = c  BY <2>1
    <3>2. h \in H  BY DEF Table
    <3> QED  BY <2>1, <3>1, <3>2
  <2>2. CASE p \in y.zce.pending  BY <1>1, <2>2 DEF Good, ParkedIn
  <2> QED  BY <2>1, <2>2
<1> HIDE DEF more, zce, z
<1>7. Held(zce) = Held(y.zce) /\ ChainOK(zce) /\ ZceShape(zce)
  BY <1>1, <1>4 DEF Held, ChainOK, ZceShape, Good
<1>8. Good(H, z)  BY <1>1, <1>4, <1>5, <1>6, <1>7 DEF Good
<1>9. Final(x, z)  BY <1>1, <1>4, <1>5 DEF Final
<1>10. z.fault = "none" => Settled(z)  BY <1>1, <1>5 DEF Settled, TopId
<1>11. Goes(H, x, z)  BY <1>1, <1>5, <1>8, <1>9, <1>10 DEF Goes, Leads
<1> QED  BY <1>3, <1>11 DEF h

LEMMA RestoreIfSavedGoes ==
  ASSUME NEW H, NEW x, NEW y, Goes(H, x, y)
  PROVE  Goes(H, x, RestoreIfSaved(y)) /\ Beside(y, RestoreIfSaved(y))
<1>1. Leads(H, x, y) /\ Good(H, y)  BY DEF Goes, Leads
<1>2. Beside(y, y)  BY DEF Beside
<1> QED  BY <1>1, <1>2, OperandMoves, BesideMoves DEF RestoreIfSaved

\* the container on top is closed and linked, and waits
LEMMA ParkTop ==
  ASSUME NEW H, H # {}, NEW x, NEW y, Leads(H, x, y), y.fault = "none", y.blocks # <<>>,
         TopBlock(y).type = "CONTAINER"
  PROVE  Goes(H, x, Park(RestoreIfSaved(CloseCur(ToTop(y))), TopBlock(y).exc, TopId(y)))
<1> DEFINE c == TopId(y)
           t == ToTop(y)
           p == PopBlock(t)
           l == LinkToTop(p, t.cur)
           q == ToTop(l)
           r == RestoreIfSaved(q)
<1>1. Good(H, y) /\ DOMAIN y = BuilderFields /\ c \in 1 .. Len(y.heap)  BY TopFacts DEF Leads, Good
<1>2. Goes(H, x, t) /\ t = [y EXCEPT !.cur = c]  BY ToTopGoes
<1>3. t.cur = c /\ t.heap = y.heap /\ t.fault = "none"  BY <1>1, <1>2 DEF BuilderFields
<1>4. Cur(t).type = "CONTAINER" /\ t.heap[c].exc = TopBlock(y).exc /\ t.heap[c].type = "CONTAINER"
  BY <1>3 DEF Cur, TopBlock
<1>5. TopBlock(y).exc \in H  BY <1>1, <1>3, <1>4 DEF Good, OnlyTable
<1> HIDE DEF c, t
<1>6. Good(H, t) /\ Settled(t) /\ Leads(H, x, t)  BY <1>2, <1>3 DEF Goes, Leads
<1>7. t.blocks # <<>>  BY <1>6, NoBlocks
<1>8. p.fault = "none"  BY <1>3, <1>6, <1>7, PopAny
<1>21. Goes(H, x, t) /\ Cur(t).type # "MAIN"  BY <1>2, <1>4
<1>22. Leads(H, x, p) /\ p.blocks # <<>> /\ Loose(H, p, t.cur)  BY <1>8, <1>21, PopOpen
<1>9. p.blocks # <<>> /\ Loose(H, p, c)  BY <1>3, <1>22
<1>23. p = [t EXCEPT !.blocks = PopFrom(t.blocks)]  BY <1>8, <1>21, PopOpen
<1>10. p.heap = t.heap  BY <1>6, <1>23 DEF Good, BuilderFields
<1> HIDE DEF p
<1>11. Leads(H, x, l) /\ l.fault = "none"  BY <1>8, <1>22, LinkTop
<1>24. t.cur \in 1 .. Len(p.heap)  BY <1>22 DEF Loose
<1>25. /\ l.blocks = p.blocks /\ Linked(l.heap, t.cur)
       /\ l.heap[t.cur].type = p.heap[t.cur].type /\ l.heap[t.cur].exc = p.heap[t.cur].exc
  BY <1>11, <1>22, <1>24, LinkTop
<1>12. /\ l.blocks = p.blocks /\ Linked(l.heap, c)
       /\ l.heap[c].type = p.heap[c].type /\ l.heap[c].exc = p.heap[c].exc
  BY <1>3, <1>25
<1> HIDE DEF l
<1>13. Good(H, l) /\ DOMAIN l = BuilderFields  BY <1>11 DEF Leads, Good
<1>14. c \in Table(l.heap, H)
  <2>1. c \in 1 .. Len(l.heap)  BY <1>12, <1>13 DEF Good, TreeIn, Linked
  <2> QED  BY <1>4, <1>5, <1>10, <1>12, <2>1 DEF Table
<1>15. Goes(H, x, q) /\ q = [l EXCEPT !.cur = TopId(l)]  BY <1>9, <1>11, <1>12, ToTopGoes
<1>16. q.heap = l.heap /\ q.blocks = l.blocks  BY <1>13, <1>15 DEF BuilderFields
<1> HIDE DEF q
<1>26. Goes(H, x, r) /\ Beside(q, r)  BY <1>15, RestoreIfSavedGoes
<1>17. Goes(H, x, r) /\ r.heap = l.heap /\ r.blocks = l.blocks
  BY <1>16, <1>26 DEF Beside
<1> HIDE DEF r
<1>18. c \notin OpenOf(r.blocks)  BY <1>9, <1>12, <1>17 DEF Loose
<1>19. Goes(H, x, Park(r, r.heap[c].exc, c))  BY <1>12, <1>14, <1>17, <1>18, ParkGoes
<1>20. r.heap[c].exc = TopBlock(y).exc  BY <1>4, <1>10, <1>12, <1>17
<1> QED  BY <1>19, <1>20 DEF r, q, l, p, t, c, CloseCur

LEMMA CloseShrinks ==
  ASSUME NEW H, NEW x, NEW y, Goes(H, x, y), CloseCur(y).fault = "none"
  PROVE  Len(y.blocks) \in Nat /\ Len(CloseCur(y).blocks) = Len(y.blocks) - 1
<1> DEFINE p == PopBlock(y)
           l == LinkToTop(p, y.cur)
<1>1. Leads(H, x, y)  BY DEF Goes
<1>2. y.fault = "none" => y.cur = TopId(y)  BY DEF Goes, Settled
<1>3. /\ Leads(H, x, p)
      /\ p.fault = "none" => /\ y.fault = "none" /\ Loose(H, p, TopId(y))
                             /\ Len(p.blocks) = Len(y.blocks) - 1
  BY <1>1, PopAny
<1>4. p.fault = "none" => Loose(H, p, y.cur)  BY <1>2, <1>3
<1>5. CloseCur(y) = ToTop(l)  BY DEF CloseCur
<1> HIDE DEF p
<1>6. Leads(H, x, l) /\ (l.fault = "none" => p.fault = "none" /\ p.blocks # <<>> /\ l.blocks = p.blocks)
  BY <1>3, <1>4, LinkTop
<1> HIDE DEF l
<1>7. l.fault = "none"  BY <1>5 DEF ToTop, WithBlocks, Crash
<1>8. DOMAIN l = BuilderFields  BY <1>6 DEF Leads, Good
<1>9. ToTop(l) = [l EXCEPT !.cur = TopId(l)]  BY <1>6, <1>7, ToTopGoes
<1>10. CloseCur(y).blocks = p.blocks  BY <1>5, <1>6, <1>7, <1>8, <1>9 DEF BuilderFields
<1>11. Len(y.blocks) \in Nat  BY <1>1 DEF Leads, Good, NestedIn, IsSeq
<1> QED  BY <1>3, <1>6, <1>7, <1>10, <1>11

\* the try block and its container
LEMMA TryShrinks ==
  ASSUME NEW H, H # {}, NEW x, NEW y, Goes(H, x, y), y.fault = "none", Cur(y).type # "MAIN",
         CloseTry(y).fault = "none"
  PROVE  Len(CloseTry(y).blocks) < Len(y.blocks)
<1> DEFINE p == PopBlock(y)
           l == LinkToTop(p, y.cur)
           t == ToTop(l)
           q == CloseCur(t)
           r == RestoreIfSaved(q)
           k == Park(r, TopBlock(l).exc, TopId(l))
<1>1. Leads(H, x, y) /\ Leads(H, x, p) /\ (p.fault = "none" => Loose(H, p, y.cur))
  BY PopOpen DEF Goes
<1>2. p.fault = "none" => Len(p.blocks) = Len(y.blocks) - 1  BY <1>1, PopAny
<1>3. CloseTry(y) = IF l.fault # "none" THEN l
                    ELSE IF TopBlock(l).type # "CONTAINER" THEN Crash(l, "bad_cast") ELSE k
  BY DEF CloseTry
<1>4. Leads(H, x, l) /\ (l.fault = "none" => p.fault = "none" /\ l.blocks # <<>> /\ l.blocks = p.blocks)
  BY <1>1, LinkTop
<1> HIDE DEF p, l
<1>5. Good(H, l) /\ DOMAIN l = BuilderFields  BY <1>4 DEF Leads, Good
<1>6. l.fault = "none" /\ CloseTry(y) = k  BY <1>3, <1>5 DEF Crash, BuilderFields
<1>7. Goes(H, x, t) /\ t.blocks = l.blocks  BY <1>4, <1>5, <1>6, ToTopGoes DEF BuilderFields
<1> HIDE DEF t
<1>8. Goes(H, x, q)  BY <1>7, CloseCurGoes
<1>9. q.fault = "none" => Len(q.blocks) = Len(t.blocks) - 1  BY <1>7, CloseShrinks
<1> HIDE DEF q
<1>10. Goes(H, x, r) /\ r.blocks = q.blocks /\ (r.fault = "none" => q.fault = "none")
  BY <1>8, RestoreIfSavedGoes DEF Beside
<1> HIDE DEF r
<1>11. k.fault = r.fault /\ k.blocks = r.blocks
  <2>1. DOMAIN r = BuilderFields  BY <1>10 DEF Goes, Leads, Good
  <2> QED  BY <2>1 DEF Park, BuilderFields
<1> HIDE DEF k
<1>12. Len(y.blocks) \in Nat  BY <1>1 DEF Leads, Good, NestedIn, IsSeq
<1> QED  BY <1>2, <1>4, <1>6, <1>7, <1>9, <1>10, <1>11, <1>12

LEMMA OpCloseEndedTry == ASSUME IInv, CloseEndedTry PROVE StepOK
<1> DEFINE p == PopBlock(b)
           tried == LinkToTop(p, b.cur)
           parked == Park(RestoreIfSaved(CloseCur(ToTop(tried))), TopBlock(tried).exc, TopId(tried))
           nb == CloseTry(b)
<1>1. /\ pc = "regions" /\ Cur(b).type = "TRY" /\ b' = nb
      /\ pc' = (IF nb.fault = "none" THEN "regions" ELSE "crashed")
      /\ prog' = prog /\ pos' = pos /\ curpos' = curpos /\ ins' = ins /\ walk' = walk
  BY DEF CloseEndedTry, TryEnded
<1>2. Good(Handlers, b) /\ Settled(b) /\ b.fault = "none" /\ Handlers # {}  BY <1>1 DEF IInv
<1>3. Goes(Handlers, b, b)  BY <1>2, LeadsSelf
<1>4. Leads(Handlers, b, p) /\ (p.fault = "none" => Loose(Handlers, p, b.cur))
  BY <1>1, <1>3, PopOpen
<1>5. nb = IF tried.fault # "none" THEN tried
           ELSE IF TopBlock(tried).type # "CONTAINER" THEN Crash(tried, "bad_cast") ELSE parked
  BY DEF CloseTry
<1> HIDE DEF p
<1>7. Leads(Handlers, b, tried) /\ (tried.fault = "none" => tried.blocks # <<>>)
  BY <1>4, LinkTop
<1> HIDE DEF nb, tried
<1>8. Goes(Handlers, b, Crash(tried, "bad_cast")) /\ (tried.fault # "none" => Goes(Handlers, b, tried))
  BY <1>7, CrashGoes DEF Goes
<1>9. tried.fault = "none" /\ TopBlock(tried).type = "CONTAINER" => Goes(Handlers, b, parked)
  BY <1>2, <1>7, ParkTop
<1> HIDE DEF parked
<1>10. Goes(Handlers, b, nb)  BY <1>5, <1>8, <1>9
<1>11. Nearer
  <2>1. CASE nb.fault = "none"
    <3>1. Cur(b).type # "MAIN" /\ CloseTry(b).fault = "none"  BY <1>1, <2>1 DEF nb
    <3>2. Len(nb.blocks) < Len(b.blocks)  BY <1>2, <1>3, <3>1, TryShrinks DEF nb
    <3> QED  BY <1>1, <2>1, <3>2, FewerBlocks
  <2>2. CASE nb.fault # "none"  BY <1>1, <2>2, NextStage
  <2> QED  BY <2>1, <2>2
<1> QED  BY <1>1, <1>2, <1>10, <1>11, BeforeStep

LEMMA RegionHandler ==
  ASSUME NEW r \in ExceptRegions
  PROVE  r.handler \in Handlers
<1> DEFINE S(h) == Least({e[1] : e \in {t \in prog.table : t[3] = h}})
           E(h) == Least({e[2] : e \in {t \in prog.table : t[3] = h}})
<1>1. r \in {[handler |-> h, try_start |-> S(h), body_end |-> E(h)] : h \in Handlers}
  BY DEF ExceptRegions
<1> HIDE DEF S, E
<1> QED  BY <1>1

LEMMA RegionsFinite ==
  ASSUME prog \in UNION {Programs[i] : i \in DOMAIN Programs}
  PROVE  IsFiniteSet(ExceptRegions)
<1> DEFINE T == {t \in prog.table : Ver >= 311 /\ OpcodeAt(t[3]) = "PUSH_EXC_INFO"}
           f == [e \in T |-> e[3]]
           Region(h) == [handler   |-> h,
                         try_start |-> Least({e[1] : e \in {t \in prog.table : t[3] = h}}),
                         body_end  |-> Least({e[2] : e \in {t \in prog.table : t[3] = h}})]
           g == [h \in Handlers |-> Region(h)]
<1>1. IsFiniteSet(prog.table)  BY ProgramsAssumption
<1>2. T \in SUBSET prog.table  OBVIOUS
<1>3. Handlers = {e[3] : e \in T}  BY DEF Handlers
<1>4. ExceptRegions = {Region(h) : h \in Handlers}  BY DEF ExceptRegions
<1> HIDE DEF T, Region
<1>5. IsFiniteSet(T)  BY <1>1, <1>2, FS_Subset
<1>6. f \in Surjection(T, Handlers)  BY <1>3 DEF Surjection
<1>7. IsFiniteSet(Handlers)  BY <1>5, <1>6, FS_Surjection
<1>8. g \in Surjection(Handlers, ExceptRegions)  BY <1>4 DEF Surjection
<1> QED  BY <1>7, <1>8, FS_Surjection

LEMMA OpFindBodies == ASSUME IInv, FindBodies PROVE StepOK
<1> DEFINE t == {r \in ExceptRegions : r.try_start = curpos}
<1>1. /\ pc = "regions" /\ b' = b /\ pc' = "entering" /\ walk' = [walk EXCEPT !.todo = t]
      /\ prog' = prog /\ pos' = pos /\ curpos' = curpos /\ ins' = ins
  BY DEF FindBodies
<1>2. (\A r \in t : r.handler \in Handlers) /\ t \in SUBSET ExceptRegions  BY RegionHandler
<1> HIDE DEF t
<1>5. IsFiniteSet(t)  BY <1>2, RegionsFinite, FS_Subset DEF IInv
<1>6. Nearer  BY <1>1, NextStage
<1>3. Good(Handlers, b) /\ Settled(b) /\ b.fault = "none" /\ Handlers # {}  BY <1>1 DEF IInv
<1>4. Goes(Handlers, b, b)  BY <1>3, LeadsSelf
<1> QED  BY <1>1, <1>2, <1>3, <1>4, <1>5, <1>6, BeforeStep

LEMMA OpEnterBody == ASSUME IInv, EnterBody PROVE StepOK
<1>1. PICK r \in walk.todo : b' = OpenTry(b, r) /\ walk' = [walk EXCEPT !.todo = @ \ {r}]
  BY DEF EnterBody
<1>2. /\ pc = "entering" /\ pc' = pc
      /\ prog' = prog /\ pos' = pos /\ curpos' = curpos /\ ins' = ins
  BY DEF EnterBody
<1>3. Good(Handlers, b) /\ Settled(b) /\ b.fault = "none" /\ Handlers # {}
      /\ DOMAIN walk = {"prev", "push", "spam", "todo"} /\ IsFiniteSet(walk.todo)
      /\ \A s \in walk.todo : s.handler \in Handlers
  BY <1>2 DEF IInv, WalkOK
<1> DEFINE cont == [ContainerBlock(0, r.handler) EXCEPT !.inited = 1]
           try  == Block("TRY", r.body_end, 1)
           b1   == Open(b, cont)
           b2   == Open(SaveStack(b1), try)
           nb   == OpenTry(b, r)
<1>4. NewBlock(Handlers, cont) /\ NewBlock(Handlers, try)  BY <1>3, ContainerNew, CondBlockNew
<1>5. nb = b \/ nb = b2  BY DEF OpenTry
<1> HIDE DEF cont, try
<1>6. Goes(Handlers, b, b) /\ Leads(Handlers, b, b) /\ b.blocks # <<>>  BY <1>3, LeadsSelf, NoBlocks
<1>7. Goes(Handlers, b, b1) /\ b1.fault = "none"  BY <1>3, <1>4, <1>6, OpenGoes
<1> HIDE DEF b1
<1> DEFINE sv == SaveStack(b1)
<1>8. /\ Leads(Handlers, b, b1) /\ b1.blocks # <<>> /\ DOMAIN b1 = BuilderFields
  BY <1>7, GoesOpen DEF Leads, Good
<1>9. Leads(Handlers, b, sv)  BY <1>8, OperandMoves
<1>10. sv.fault = "none" /\ sv.blocks = b1.blocks  BY <1>7, <1>8 DEF SaveStack, BuilderFields
<1>11. b2 = Open(sv, try)  OBVIOUS
<1> HIDE DEF sv, b2
<1>12. Goes(Handlers, b, b2) /\ b2.fault = "none"  BY <1>4, <1>8, <1>9, <1>10, <1>11, OpenGoes
<1> HIDE DEF nb
<1>13. Goes(Handlers, b, nb) /\ nb.fault = "none"  BY <1>3, <1>5, <1>6, <1>12
<1>14. b' = nb  BY <1>1 DEF nb
<1> DEFINE t == walk.todo \ {r}
<1>15. walk' = [walk EXCEPT !.todo = t] /\ \A s \in t : s.handler \in Handlers  BY <1>1, <1>3
<1>16. IsFiniteSet(t) /\ Cardinality(t) = Cardinality(walk.todo) - 1  BY <1>3, FS_RemoveElement
<1> HIDE DEF t
<1>17. Nearer
  <2>1. walk'.todo = t  BY <1>3, <1>15
  <2>2. Left = Cardinality(walk.todo) /\ Left' = Cardinality(t)  BY <1>2, <2>1 DEF Left
  <2>3. Cardinality(walk.todo) \in Nat  BY <1>3, FS_CardinalityType
  <2>4. Left' < Left  BY <1>16, <2>2, <2>3
  <2>5. Stage' = Stage  BY <1>2 DEF Stage
  <2> QED  BY <1>2, <2>4, <2>5 DEF Nearer
<1> QED  BY <1>2, <1>3, <1>13, <1>14, <1>15, <1>16, <1>17, BeforeStep

\* the container of the handler that starts here is opened again
LEMMA ReopenGood ==
  ASSUME NEW H, Good(H, b), Settled(b), curpos \in Nat, b.zce.now.active < curpos,
         NEW c \in Parked(b, curpos)
  PROVE  /\ Good(H, Reopen(b, c)) /\ Settled(Reopen(b, c))
         /\ Reopen(b, c).heap = b.heap /\ Reopen(b, c).fault = b.fault
         /\ Reopen(b, c).zce.now.active = curpos
<1> DEFINE z     == b.zce
           now   == [z.now EXCEPT !.active = curpos, !.container = c]
           outer == IF z.now.active >= 0 THEN Append(z.outer, z.now) ELSE z.outer
           pending == z.pending \ {<<curpos, c>>}
           zce   == [now |-> now, outer |-> outer, pending |-> pending]
           n     == Len(b.blocks)
           more  == Append(b.blocks, c)
           y     == [b EXCEPT !.zce = zce, !.blocks = more, !.cur = c]
           w     == Reopen(b, c)
<1>1. w = SaveStack(y)  BY DEF Reopen
<1>2. DOMAIN b = BuilderFields /\ ZceShape(z) /\ ChainOK(z) /\ IsSeq(b.blocks) /\ n \in Nat /\ 1 <= n
      /\ OperandsOK(b.stack, b.hist)
  BY DEF Good, NestedIn, IsSeq, Settled
<1>3. /\ c \in Table(b.heap, H) /\ b.heap[c].exc = curpos /\ c \notin OpenOf(b.blocks)
      /\ c \in 1 .. Len(b.heap)
  <2>1. PICK p \in z.pending : p[1] = curpos /\ p[2] = c  BY DEF Parked
  <2> QED  BY <2>1 DEF Good, ParkedIn, Table
<1>4. /\ now.active = curpos /\ now.container = c /\ DOMAIN now = HandlerFields
  BY <1>2 DEF ZceShape, HandlerFields
<1> HIDE DEF now
<1>5. /\ IsSeq(outer)
      /\ \A i \in 1 .. Len(outer) : /\ DOMAIN outer[i] = HandlerFields
                                    /\ outer[i].active \in Nat /\ outer[i].active < curpos
                                    /\ outer[i].container \in Held(z)
      /\ \A i, j \in 1 .. Len(outer) : i < j => outer[i].active < outer[j].active
      /\ \A e \in Held(z) : \E i \in 1 .. Len(outer) : outer[i].container = e
  <2> DEFINE m == Len(z.outer)
  <2>1. /\ IsSeq(z.outer) /\ m \in Nat /\ z.now.active \in Int /\ -1 <= z.now.active
        /\ \A i \in 1 .. m : /\ DOMAIN z.outer[i] = HandlerFields /\ z.outer[i].active \in Nat
                             /\ z.outer[i].active < z.now.active
        /\ \A i, j \in 1 .. m : i < j => z.outer[i].active < z.outer[j].active
        /\ DOMAIN z.now = HandlerFields
    BY <1>2 DEF ZceShape, ChainOK, IsSeq
  <2>2. CASE z.now.active >= 0
    <3>1. outer = Append(z.outer, z.now)  BY <2>2
    <3> HIDE DEF outer
    <3>2. /\ IsSeq(outer) /\ Len(outer) = m + 1 /\ outer[m + 1] = z.now
          /\ \A i \in 1 .. m : outer[i] = z.outer[i]
      BY <2>1, <3>1, AppendSeq
    <3>3. \A i \in 1 .. m + 1 : i \in 1 .. m \/ i = m + 1  BY <2>1
    <3>4. z.now.active \in Nat /\ z.now.active < curpos  BY <2>1, <2>2
    <3>5. ASSUME NEW i \in 1 .. m  PROVE z.outer[i].active < curpos
      <4>1. z.outer[i].active \in Nat /\ z.outer[i].active < z.now.active  BY <2>1
      <4>2. \A q, s \in Nat : q < s => \A p \in Nat : p < q => p < s  OBVIOUS
      <4>3. \A p \in Nat : p < z.now.active => p < curpos  BY <3>4, <4>2
      <4> QED  BY <4>1, <4>3
    <3>6. ASSUME NEW i \in 1 .. m + 1
          PROVE  /\ DOMAIN outer[i] = HandlerFields
                 /\ outer[i].active \in Nat /\ outer[i].active < curpos
                 /\ outer[i].container \in Held(z)
      <4>1. CASE i \in 1 .. m  BY <2>1, <3>2, <3>5, <4>1 DEF Held
      <4>2. CASE i = m + 1     BY <2>1, <2>2, <3>2, <3>4, <4>2 DEF Held
      <4> QED  BY <3>3, <4>1, <4>2
    <3>7. ASSUME NEW i \in 1 .. m + 1, NEW j \in 1 .. m + 1, i < j  PROVE outer[i].active < outer[j].active
      <4>1. i \in 1 .. m  BY <2>1, <3>7
      <4>2. CASE j \in 1 .. m  BY <2>1, <3>2, <3>7, <4>1, <4>2
      <4>3. CASE j = m + 1     BY <2>1, <3>2, <4>1, <4>3
      <4> QED  BY <3>3, <4>2, <4>3
    <3>8. ASSUME NEW e \in Held(z)  PROVE \E i \in 1 .. m + 1 : outer[i].container = e
      <4>1. CASE e = z.now.container
        <5>1. m + 1 \in 1 .. m + 1  BY <2>1
        <5> QED  BY <3>2, <4>1, <5>1
      <4>2. CASE \E i \in 1 .. m : z.outer[i].container = e
        <5>1. PICK i \in 1 .. m : z.outer[i].container = e  BY <4>2
        <5>2. i \in 1 .. m + 1  BY <2>1
        <5> QED  BY <3>2, <5>1, <5>2
      <4> QED  BY <4>1, <4>2 DEF Held
    <3> QED  BY <3>2, <3>6, <3>7, <3>8
  <2>3. CASE ~(z.now.active >= 0)
    <3>1. outer = z.outer  BY <2>3
    <3>2. m = 0
      <4>1. \A k \in Nat : k = 0 \/ 1 \in 1 .. k  OBVIOUS
      <4>2. CASE 1 \in 1 .. m
        <5>1. z.outer[1].active \in Nat /\ z.outer[1].active < z.now.active  BY <2>1, <4>2
        <5>2. \A p \in Nat, q \in Int : p < q => q >= 0  OBVIOUS
        <5> QED  BY <2>1, <2>3, <5>1, <5>2
      <4> QED  BY <2>1, <4>1, <4>2
    <3>3. Held(z) = {}  BY <2>3, <3>2 DEF Held
    <3>4. \A i \in 1 .. m : FALSE  BY <3>2
    <3> HIDE DEF m
    <3> QED  BY <2>1, <3>1, <3>3, <3>4 DEF m
  <2> QED  BY <2>2, <2>3
<1> HIDE DEF outer
<1>6. /\ zce.now = now /\ zce.outer = outer /\ zce.pending = pending
      /\ DOMAIN zce = {"now", "outer", "pending"}
  OBVIOUS
<1> HIDE DEF zce
<1>7. ZceShape(zce) /\ ChainOK(zce)
  BY <1>4, <1>5, <1>6 DEF ZceShape, ChainOK
<1>8. Held(zce) = Held(z) \cup {c}
  <2>1. Held(zce) = {outer[i].container : i \in 1 .. Len(outer)} \cup {c}  BY <1>4, <1>6 DEF Held
  <2> QED  BY <1>5, <2>1
<1>9. /\ y.zce = zce /\ y.heap = b.heap /\ y.blocks = more /\ y.cur = c /\ y.stack = b.stack
      /\ y.hist = b.hist /\ y.fault = b.fault /\ DOMAIN y = BuilderFields
  BY <1>2 DEF BuilderFields
<1>10. /\ IsSeq(more) /\ Len(more) = n + 1 /\ more[n + 1] = c
       /\ \A i \in 1 .. n : more[i] = b.blocks[i]
  BY <1>2, AppendSeq
<1> HIDE DEF more
<1>11. \A i \in 1 .. n + 1 : i \in 1 .. n \/ i = n + 1  BY <1>2
<1>12. OpenOf(more) = OpenOf(b.blocks) \cup {c}
  <2>1. n + 1 \in 1 .. n + 1 /\ \A i \in 1 .. n : i \in 1 .. n + 1  BY <1>2
  <2> QED  BY <1>10, <1>11, <2>1 DEF OpenOf
<1>13. NestedIn(b.heap, more, Held(zce))
  <2>1. /\ \A i \in 1 .. n : b.blocks[i] \in 1 .. Len(b.heap)
        /\ \A i, j \in 1 .. n : b.blocks[i] = b.blocks[j] => i = j
        /\ \A i, j \in 1 .. n : j < i => b.blocks[i] \in Held(z) \/ b.blocks[j] < b.blocks[i]
        /\ b.blocks[1] = MAIN
    BY <1>2 DEF Good, NestedIn
  <2>2. \A i \in 1 .. n : b.blocks[i] # c  BY <1>3 DEF OpenOf
  <2>3. \A i \in 1 .. n + 1 : more[i] \in 1 .. Len(b.heap)  BY <1>3, <1>10, <1>11, <2>1
  <2>4. ASSUME NEW i \in 1 .. n + 1, NEW j \in 1 .. n + 1, more[i] = more[j]  PROVE i = j
    <3>1. CASE i \in 1 .. n /\ j \in 1 .. n  BY <1>10, <2>1, <2>4, <3>1
    <3>2. CASE i = n + 1 \/ j = n + 1       BY <1>10, <1>11, <2>2, <2>4, <3>2
    <3> QED  BY <1>11, <3>1, <3>2
  <2>5. ASSUME NEW i \in 1 .. n + 1, NEW j \in 1 .. n + 1, j < i
        PROVE  more[i] \in Held(zce) \/ more[j] < more[i]
    <3>1. CASE i = n + 1  BY <1>8, <1>10, <3>1
    <3>2. CASE i \in 1 .. n
      <4>1. j \in 1 .. n  BY <1>2, <2>5, <3>2
      <4> QED  BY <1>8, <1>10, <2>1, <2>5, <3>2, <4>1
    <3> QED  BY <1>11, <3>1, <3>2
  <2>6. more[1] = MAIN  BY <1>2, <1>10, <2>1
  <2> QED  BY <1>10, <2>3, <2>4, <2>5, <2>6 DEF NestedIn
<1>14. TreeIn(b.heap, OpenOf(more), Table(b.heap, H))
  BY <1>3, <1>12 DEF Good, TreeIn
<1>15. ParkedIn(b.heap, OpenOf(more), pending, H)
  <2> SUFFICES ASSUME NEW p \in pending
               PROVE  /\ p = <<p[1], p[2]>> /\ p[1] \in H
                      /\ p[2] \in Table(b.heap, H) /\ b.heap[p[2]].exc = p[1]
                      /\ p[2] \notin OpenOf(more) /\ Linked(b.heap, p[2])
    BY DEF ParkedIn
  <2>1. /\ p = <<p[1], p[2]>> /\ p[1] \in H
        /\ p[2] \in Table(b.heap, H) /\ b.heap[p[2]].exc = p[1]
        /\ p[2] \notin OpenOf(b.blocks) /\ Linked(b.heap, p[2])
    BY DEF Good, ParkedIn
  <2>2. p # <<curpos, c>>  OBVIOUS
  <2>3. p[2] # c  BY <1>3, <2>1, <2>2
  <2> QED  BY <1>12, <2>1, <2>3
<1>16. Held(zce) \subseteq Table(b.heap, H)  BY <1>3, <1>8 DEF Good
<1> HIDE DEF y, pending, z
<1>17. Good(H, y)
  BY <1>2, <1>3, <1>6, <1>7, <1>9, <1>13, <1>14, <1>15, <1>16 DEF Good
<1>18. Settled(y)  BY <1>2, <1>9, <1>10 DEF Settled, TopId
<1>19. Stays(H, y, w)  BY <1>1, <1>17, StaysSelf, SaveStays
<1>20. Settled(w) /\ Good(H, w)  BY <1>18, <1>19 DEF Stays, Settled, TopId
<1>21. w.heap = y.heap /\ w.fault = y.fault /\ w.zce = y.zce
  BY <1>1, <1>9 DEF SaveStack, BuilderFields
<1> HIDE DEF w
<1> QED  BY <1>4, <1>6, <1>9, <1>20, <1>21 DEF w

LEMMA OpEnterHandler == ASSUME IInv, EnterHandler PROVE StepOK
<1> DEFINE c  == CHOOSE e \in Parked(b, curpos) : TRUE
           nb == IF Parked(b, curpos) = {} THEN b ELSE Reopen(b, c)
<1>1. /\ pc = "entering" /\ pc' = "exec" /\ walk' = walk /\ b' = nb
      /\ prog' = prog /\ pos' = pos /\ curpos' = curpos /\ ins' = ins
  BY DEF EnterHandler
<1>2. /\ Good(Handlers, b) /\ Settled(b) /\ b.fault = "none"
      /\ b.zce.now.active < curpos /\ curpos < pos /\ curpos \in Nat
  BY <1>1 DEF IInv
<1>5. Nearer  BY <1>1, NextStage
<1>3. CASE Parked(b, curpos) = {}
  <2>1. Goes(Handlers, b, b)  BY <1>2, LeadsSelf
  <2> QED  BY <1>1, <1>2, <1>3, <1>5, <2>1, BeforeStep
<1>4. CASE Parked(b, curpos) # {}
  <2>1. c \in Parked(b, curpos)  BY <1>4
  <2> HIDE DEF c
  <2>2. /\ Good(Handlers, nb) /\ Settled(nb) /\ nb.heap = b.heap /\ nb.fault = "none"
        /\ nb.zce.now.active = curpos
    BY <1>2, <1>4, <2>1, ReopenGood
  <2> HIDE DEF nb
  <2>3. Handlers' = Handlers /\ Size' = Size  BY <1>1, SameCode
  <2>4. InsOK' /\ WalkOK'  BY <1>1, <2>3 DEF IInv, InsOK, WalkOK
  <2>5. Settled(b)'  BY <1>1, <2>2 DEF Settled, TopId
  <2>6. Good(Handlers, b)' /\ (b.fault = "none")'  BY <1>1, <2>2, <2>3
  <2>7. (b.zce.now.active < pos)'  BY <1>1, <1>2, <2>2
  <2>8. IInv'  BY <1>1, <2>3, <2>4, <2>5, <2>6, <2>7 DEF IInv
  <2>9. Kept  BY <1>1, <2>2 DEF Kept
  <2> QED  BY <1>5, <2>8, <2>9 DEF StepOK
<1> QED  BY <1>3, <1>4

-----------------------------------------------------------------------------
(* The instructions of a handler                                           *)

LEMMA OpHandlerFlags ==
  ASSUME IInv, \/ PushExcInfo \/ CheckExcMatch \/ NotTaken
  PROVE  StepOK
<1>1. CASE PushExcInfo
  <2>1. /\ pc = "exec"
        /\ BreakAt([Push(b, ExcName) EXCEPT !.zce.now.expect_check = TRUE], pos) \/ BreakAt(b, pos)
    BY <1>1 DEF PushExcInfo, On, Break
  <2>2. Plain(ExcName)  BY NodePlain DEF ExcName, NameNode
  <2>3. Stays(Handlers, b, [Push(b, ExcName) EXCEPT !.zce.now.expect_check = TRUE])
    BY <2>1, <2>2, Start, PushStays, FlagStays
  <2> QED  BY <2>1, <2>3, Start, StaysStep
<1>2. CASE CheckExcMatch
  <2> DEFINE test == Node("compare", CMP_EXCEPTION, Args(b, 2))
             bs   == Push(Drop(b, 2), test)
  <2>1. /\ pc = "exec"
        /\ BreakAt([bs EXCEPT !.zce.now.expect_check = FALSE], pos) \/ BreakAt(b, pos)
    BY <1>2 DEF CheckExcMatch, On, Break
  <2>2. Plain(test)  BY NodePlain
  <2> HIDE DEF test
  <2>3. Stays(Handlers, b, bs)  BY <2>1, <2>2, Start, DropStays, PushStays
  <2> HIDE DEF bs
  <2>4. Stays(Handlers, b, [bs EXCEPT !.zce.now.expect_check = FALSE])  BY <2>3, FlagStays
  <2> QED  BY <2>1, <2>4, Start, StaysStep
<1>3. CASE NotTaken
  <2>1. pc = "exec" /\ (BreakAt([b EXCEPT !.zce.now.expect_as = TRUE], pos) \/ BreakAt(b, pos))
    BY <1>3 DEF NotTaken, On, Break
  <2>2. Stays(Handlers, b, [b EXCEPT !.zce.now.expect_as = TRUE])  BY <2>1, Start, FlagStays
  <2> QED  BY <2>1, <2>2, Start, StaysStep
<1> QED  BY <1>1, <1>2, <1>3

LEMMA OpPopExcept == ASSUME IInv, PopExcept PROVE StepOK
<1>1. pc = "exec" /\ (BreakAt(RestoreIfSaved(CloseCur(b)), pos) \/ BreakAt(b, pos))
  BY DEF PopExcept, On, Break
<1>2. Goes(Handlers, b, b)  BY <1>1, Start
<1>3. Goes(Handlers, b, CloseCur(b))  BY <1>2, CloseRestored
<1>4. Goes(Handlers, b, RestoreIfSaved(CloseCur(b)))  BY <1>3, RestoreIfSavedGoes
<1> QED  BY <1>1, <1>2, <1>4, GoesStep

LEMMA UpTo == ASSUME NEW n \in Nat PROVE IsFiniteSet(1 .. n) /\ Cardinality(1 .. n) = n
<1>1. IsFiniteSet(1 .. n) /\ Cardinality(1 .. n) = IF 1 > n THEN 0 ELSE n - 1 + 1  BY FS_Interval
<1>2. (IF 1 > n THEN 0 ELSE n - 1 + 1) = n  OBVIOUS
<1> QED  BY <1>1, <1>2

\* what is cut off behind the last clause of a handler holds no block
LEMMA DropTrailingSeq ==
  ASSUME NEW ns, IsSeq(ns)
  PROVE  /\ IsSeq(DropTrailing(ns))
         /\ \A k \in 1 .. Len(DropTrailing(ns)) : k \in 1 .. Len(ns) /\ DropTrailing(ns)[k] = ns[k]
         /\ \A k \in 1 .. Len(ns) :
              ns[k].kind = "block" => k \in 1 .. Len(DropTrailing(ns)) /\ DropTrailing(ns)[k] = ns[k]
<1> DEFINE S == {n \in 1 .. Len(ns) : \E i \in n .. Len(ns) : ns[i].kind = "block"}
           m == Cardinality(S)
           cut == SubSeq(ns, 1, m)
<1>1. Len(ns) \in Nat /\ DOMAIN ns = 1 .. Len(ns)  BY IsSeqDomain
<1>2. cut = DropTrailing(ns)  BY <1>1 DEF DropTrailing
<1>3. IsFiniteSet(1 .. Len(ns)) /\ Cardinality(1 .. Len(ns)) = Len(ns)  BY <1>1, UpTo
<1>4. S \in SUBSET (1 .. Len(ns))  OBVIOUS
<1> HIDE DEF S
<1>5. m \in Nat /\ IsFiniteSet(S)  BY <1>1, <1>4, PartSize
<1>6. m <= Len(ns)  BY <1>3, <1>4, FS_Subset
<1> HIDE DEF m
<1>7. m \in 0 .. Len(ns)  BY <1>1, <1>5, <1>6
<1>8. IsSeq(cut) /\ Len(cut) = m /\ \A k \in 1 .. m : cut[k] = ns[k]  BY <1>7, SubSeqSeq
<1> HIDE DEF cut
<1>9. ASSUME NEW k \in 1 .. Len(ns), ns[k].kind = "block"  PROVE k \in 1 .. m
  <2>1. k \in Nat /\ 1 <= k  BY <1>1
  <2>2. 1 .. k \in SUBSET S
    <3> SUFFICES ASSUME NEW j \in 1 .. k  PROVE j \in S
      OBVIOUS
    <3>1. j \in 1 .. Len(ns) /\ k \in j .. Len(ns)  BY <1>1, <2>1
    <3> QED  BY <1>9, <3>1 DEF S
  <2>3. Cardinality(1 .. k) = k  BY <2>1, UpTo
  <2>4. Cardinality(1 .. k) <= m  BY <1>5, <2>2, FS_Subset DEF m
  <2> QED  BY <1>5, <2>1, <2>3, <2>4
<1>10. \A k \in 1 .. m : k \in 1 .. Len(ns)  BY <1>1, <1>7
<1> QED  BY <1>2, <1>8, <1>9, <1>10

\* the handler around the one that ends is gone on with
LEMMA OuterGoes ==
  ASSUME NEW H, NEW x, NEW y, Goes(H, x, y), y.zce.now.active >= 0,
         y.zce.now.container \notin OpenOf(y.blocks),
         NEW now, now = IF Len(y.zce.outer) > 0 THEN y.zce.outer[Len(y.zce.outer)] ELSE NoHandler
  PROVE  Goes(H, x, [y EXCEPT !.zce.now = now, !.zce.outer = PopFrom(@)])
<1> DEFINE z     == y.zce
           n     == Len(z.outer)
           outer == PopFrom(z.outer)
           zce   == [z EXCEPT !.now = now, !.outer = outer]
           w     == [y EXCEPT !.zce = zce]
<1>1. Good(H, y) /\ Final(x, y) /\ Good(H, x) /\ (y.fault = "none" => x.fault = "none")
      /\ (y.fault = "none" => Settled(y))
  BY DEF Goes, Leads
<1>2. DOMAIN y = BuilderFields /\ DOMAIN z = {"now", "outer", "pending"}  BY <1>1 DEF Good, ZceShape
<1>3. w = [y EXCEPT !.zce.now = now, !.zce.outer = PopFrom(@)]  BY <1>2 DEF BuilderFields
<1>4. /\ zce.now = now /\ zce.outer = outer /\ zce.pending = z.pending
      /\ DOMAIN zce = {"now", "outer", "pending"}
  BY <1>2
<1>5. /\ w.zce = zce /\ w.heap = y.heap /\ w.blocks = y.blocks /\ w.cur = y.cur
      /\ w.stack = y.stack /\ w.hist = y.hist /\ w.fault = y.fault /\ DOMAIN w = BuilderFields
  BY <1>2 DEF BuilderFields
<1>6. /\ IsSeq(z.outer) /\ n \in Nat /\ z.now.active \in Int /\ -1 <= z.now.active
      /\ \A i \in 1 .. n : /\ DOMAIN z.outer[i] = HandlerFields /\ z.outer[i].active \in Nat
                           /\ z.outer[i].active < z.now.active
      /\ \A i, j \in 1 .. n : i < j => z.outer[i].active < z.outer[j].active
  BY <1>1 DEF Good, ZceShape, ChainOK, IsSeq
<1> HIDE DEF zce, w
<1>7. /\ ZceShape(zce) /\ ChainOK(zce) /\ now.active < z.now.active
      /\ Held(zce) \subseteq Held(z) /\ Held(z) \subseteq Held(zce) \cup {z.now.container}
  <2>1. CASE n = 0
    <3>1. outer = z.outer /\ now = NoHandler  BY <1>6, <2>1, PopSeq
    <3>2. now.active = -1 /\ DOMAIN now = HandlerFields  BY <3>1 DEF NoHandler, HandlerFields
    <3>3. \A i \in 1 .. Len(outer) : FALSE  BY <2>1, <3>1
    <3>4. ZceShape(zce) /\ ChainOK(zce)  BY <1>4, <1>6, <3>1, <3>2, <3>3 DEF ZceShape, ChainOK
    <3>5. Held(zce) = {}  BY <1>4, <3>2, <3>3 DEF Held
    <3>6. Held(z) \subseteq {z.now.container}  BY <3>1, <3>3 DEF Held
    <3>7. now.active < z.now.active  BY <1>6, <3>2
    <3> QED  BY <3>4, <3>5, <3>6, <3>7
  <2>2. CASE 1 <= n
    <3>1. now = z.outer[n] /\ n \in 1 .. n  BY <1>6, <2>2
    <3>2. /\ IsSeq(outer) /\ Len(outer) = n - 1
          /\ \A i \in 1 .. n - 1 : outer[i] = z.outer[i] /\ i \in 1 .. n /\ i < n
      BY <1>6, <2>2, PopSeq
    <3> HIDE DEF outer
    <3>3. now.active \in Nat /\ now.active < z.now.active /\ DOMAIN now = HandlerFields
      BY <1>6, <3>1
    <3>4. \A i \in 1 .. n - 1 : outer[i].active \in Nat /\ outer[i].active < now.active
                                /\ DOMAIN outer[i] = HandlerFields
      BY <1>6, <3>1, <3>2
    <3>5. \A i, j \in 1 .. n - 1 : i < j => outer[i].active < outer[j].active
      BY <1>6, <3>2
    <3>6. ZceShape(zce)  BY <1>4, <3>2, <3>3, <3>4 DEF ZceShape
    <3>7. ChainOK(zce)
      <4>1. now.active \in Int /\ -1 <= now.active  BY <3>3
      <4> QED  BY <1>4, <3>2, <3>4, <3>5, <4>1 DEF ChainOK
    <3>8. Held(zce) = {outer[i].container : i \in 1 .. n - 1} \cup {z.outer[n].container}
      BY <1>4, <3>1, <3>2, <3>3 DEF Held
    <3>9. Held(z) = {z.outer[i].container : i \in 1 .. n} \cup {z.now.container}  BY DEF Held
    <3>10. \A i \in 1 .. n : i \in 1 .. n - 1 \/ i = n  BY <1>6
    <3>11. Held(zce) \subseteq Held(z)  BY <3>1, <3>2, <3>8, <3>9
    <3>12. Held(z) \subseteq Held(zce) \cup {z.now.container}
      <4> SUFFICES ASSUME NEW e \in Held(z), e # z.now.container  PROVE e \in Held(zce)
        OBVIOUS
      <4>1. PICK i \in 1 .. n : e = z.outer[i].container  BY <3>9
      <4>2. CASE i = n  BY <3>8, <4>1, <4>2
      <4>3. CASE i \in 1 .. n - 1  BY <3>2, <3>8, <4>1, <4>3
      <4> QED  BY <3>10, <4>2, <4>3
    <3> QED  BY <3>3, <3>6, <3>7, <3>11, <3>12
  <2>3. n = 0 \/ 1 <= n  BY <1>6
  <2> QED  BY <2>1, <2>2, <2>3
<1>8. NestedIn(y.heap, y.blocks, Held(zce))
  <2>1. \A i \in 1 .. Len(y.blocks) : y.blocks[i] \in Held(z) => y.blocks[i] \in Held(zce)
    BY <1>7 DEF OpenOf
  <2> QED  BY <1>1, <2>1 DEF Good, NestedIn
<1> HIDE DEF outer, n
<1>9. Good(H, w)  BY <1>1, <1>4, <1>5, <1>7, <1>8 DEF Good
<1>10. Final(x, w)
  <2>1. z.now.active <= x.zce.now.active  BY <1>1 DEF Final
  <2>2. z.now.active \in Int /\ now.active \in Int /\ x.zce.now.active \in Int
    BY <1>1, <1>4, <1>6, <1>7 DEF Good, ChainOK
  <2>3. now.active <= x.zce.now.active  BY <1>7, <2>1, <2>2
  <2> QED  BY <1>1, <1>4, <1>5, <2>3 DEF Final
<1>11. w.fault = "none" => Settled(w)  BY <1>1, <1>5 DEF Settled, TopId
<1>12. Goes(H, x, w)  BY <1>1, <1>5, <1>9, <1>10, <1>11 DEF Goes, Leads
<1> QED  BY <1>3, <1>12

LEMMA CutStays ==
  ASSUME NEW H, NEW x, NEW y, Stays(H, x, y), NEW c, c \in OpenOf(y.blocks),
         NEW old, old = y.heap[c].nodes, IsSeq(old)
  PROVE  Stays(H, x, [y EXCEPT !.heap[c].nodes = DropTrailing(old)])
<1> DEFINE ns == DropTrailing(old)
<1>1. /\ IsSeq(ns)
      /\ \A k \in 1 .. Len(ns) : k \in 1 .. Len(old) /\ ns[k] = old[k]
      /\ \A k \in 1 .. Len(old) : old[k].kind = "block" => k \in 1 .. Len(ns) /\ ns[k] = old[k]
  BY DropTrailingSeq
<1> HIDE DEF ns
<1>2. Stays(H, x, [y EXCEPT !.heap[c].nodes = ns])  BY <1>1, NodesStays
<1> QED  BY <1>2 DEF ns

LEMMA PopTaken ==
  ASSUME NEW H, NEW x, NEW y, Leads(H, x, y), y.fault = "none", y.blocks # <<>>
  PROVE  PopBlock(y).fault = "none"
<1>1. y.fault = "none" /\ y.blocks # <<>> => PopBlock(y).fault = "none"  BY PopAny
<1> QED  BY <1>1

LEMMA LeaveHandlerGoes ==
  ASSUME NEW H, NEW x, NEW y, Goes(H, x, y), y.fault = "none", InHandler(y),
         Cur(y).type = "CONTAINER", y.cur = y.zce.now.container
  PROVE  Goes(H, x, LeaveHandler(y))
<1> DEFINE c   == y.cur
           old == y.heap[c].nodes
           ns  == DropTrailing(old)
           b0  == [y EXCEPT !.heap[c].nodes = ns]
           p   == PopBlock(b0)
           b1  == ToTop(p)
           r   == RestoreIfSaved(b1)
           now == IF Len(y.zce.outer) > 0 THEN y.zce.outer[Len(y.zce.outer)] ELSE NoHandler
<1>1. Good(H, y) /\ Settled(y) /\ DOMAIN y = BuilderFields /\ Leads(H, x, y)  BY DEF Goes, Leads, Good
<1>2. c \in OpenOf(y.blocks) /\ c \in 1 .. Len(y.heap)  BY <1>1, SettledCur, OpenInHeap DEF CurOpen
<1>3. IsSeq(old) /\ DOMAIN y.heap[c] = BlockFields /\ c \in DOMAIN y.heap
  BY <1>1, <1>2, IsSeqDomain DEF Good, HeapOK, BlockOK
<1>4. Stays(H, y, y)  BY <1>1, StaysSelf
<1>5. b0 = [y EXCEPT !.heap[y.cur].nodes = DropTrailing(@)]  OBVIOUS
<1>6. /\ b0.fault = "none" /\ b0.cur = c /\ b0.zce = y.zce /\ b0.heap[c].type = y.heap[c].type
  BY <1>1, <1>3 DEF BuilderFields, BlockFields
<1>7. Stays(H, y, b0)  BY <1>2, <1>3, <1>4, CutStays
<1> HIDE DEF b0
<1>8. Goes(H, x, b0) /\ Cur(b0).type # "MAIN"
  BY <1>1, <1>6, <1>7, LeadsStays DEF Cur
<1>9. Leads(H, x, b0) /\ b0.blocks # <<>>  BY <1>6, <1>8, GoesOpen
<1>10. p.fault = "none"
  <2>1. b0.fault = "none"  BY <1>6
  <2> QED  BY <1>9, <2>1, PopTaken
<1>11. Leads(H, x, p) /\ p.blocks # <<>> /\ Loose(H, p, b0.cur)  BY <1>8, <1>10, PopOpen
<1>12. p = [b0 EXCEPT !.blocks = PopFrom(b0.blocks)]  BY <1>8, <1>10, PopOpen
<1>13. p.zce = y.zce  BY <1>6, <1>9, <1>12 DEF Leads, Good, BuilderFields
<1>14. y.cur \notin OpenOf(p.blocks)  BY <1>6, <1>11 DEF Loose
<1> HIDE DEF p
<1>15. Goes(H, x, b1) /\ b1 = [p EXCEPT !.cur = TopId(p)]  BY <1>10, <1>11, ToTopGoes
<1>16. b1.zce = y.zce /\ b1.blocks = p.blocks  BY <1>11, <1>13, <1>15 DEF Leads, Good, BuilderFields
<1> HIDE DEF b1
<1>17. Goes(H, x, r) /\ Beside(b1, r)  BY <1>15, RestoreIfSavedGoes
<1>18. r.zce = y.zce /\ r.blocks = p.blocks  BY <1>16, <1>17 DEF Beside
<1>19. LeaveHandler(y) = [r EXCEPT !.zce.now = now, !.zce.outer = PopFrom(@)]
  BY <1>5 DEF LeaveHandler, r, b1, p
<1> HIDE DEF r
<1>20. r.zce.now.active >= 0 /\ r.zce.now.container \notin OpenOf(r.blocks)
  BY <1>14, <1>18 DEF InHandler
<1>21. now = IF Len(r.zce.outer) > 0 THEN r.zce.outer[Len(r.zce.outer)] ELSE NoHandler  BY <1>18
<1> HIDE DEF now
<1>22. Goes(H, x, [r EXCEPT !.zce.now = now, !.zce.outer = PopFrom(@)])
  <2>1. Goes(H, x, r) /\ r.zce.now.active >= 0 /\ r.zce.now.container \notin OpenOf(r.blocks)
    BY <1>17, <1>20
  <2> QED  BY <1>21, <2>1, OuterGoes, Zenon
<1> QED  BY <1>19, <1>22

LEMMA OpReraise == ASSUME IInv, Reraise PROVE StepOK
<1>1. /\ pc = "exec"
      /\ \/ BreakAt(b, pos)
         \/ /\ InHandler(b) /\ Cur(b).type = "CONTAINER" /\ b.cur = b.zce.now.container
            /\ BreakAt(LeaveHandler(b), pos)
  BY DEF Reraise, On, Break
<1>2. Goes(Handlers, b, b) /\ b.fault = "none"  BY <1>1, Start
<1>3. InHandler(b) /\ Cur(b).type = "CONTAINER" /\ b.cur = b.zce.now.container
        => Goes(Handlers, b, LeaveHandler(b))
  BY <1>2, LeaveHandlerGoes
<1> QED  BY <1>1, <1>2, <1>3, GoesStep

LEMMA ExceptionsStep == ASSUME IInv, Exceptions PROVE StepOK
BY OpCloseEndedTry, OpFindBodies, OpEnterBody, OpEnterHandler, OpHandlerFlags, OpPopExcept, OpReraise
   DEF Exceptions

-----------------------------------------------------------------------------
(* The head of the loop *)

\* an if and its else become an operand
LEMMA CheckIfExprGoes ==
  ASSUME NEW H, NEW x, NEW y, Goes(H, x, y)
  PROVE  Goes(H, x, CheckIfExpr(y)) /\ CheckIfExpr(y).blocks = y.blocks
         /\ (CheckIfExpr(y).fault = "none" => y.fault = "none")
<1> DEFINE ns == Cur(y).nodes
           n  == Len(ns)
           d1 == RemoveLast(y)
           d2 == RemoveLast(d1)
           d3 == Drop(d2, 2)
           e  == Ternary(ns[n - 1], Arg(y, 2), Arg(y, 1))
           nb == Push(d3, e)
           Is(i, type) == ns[i].kind = "block" /\ y.heap[ns[i].id].type = type
<1>1. \/ CheckIfExpr(y) = y
      \/ y.fault = "none" /\ ~(n < 2) /\ Is(n, "ELSE") /\ Is(n - 1, "IF") /\ CheckIfExpr(y) = nb
  BY DEF CheckIfExpr
<1>2. Plain(e)  BY NodePlain DEF Ternary
<1> HIDE DEF e
<1>3. ASSUME y.fault = "none", ~(n < 2), Is(n, "ELSE"), Is(n - 1, "IF")
      PROVE  Goes(H, x, nb) /\ nb.blocks = y.blocks
  <2>1. Good(H, y) /\ Settled(y) /\ Leads(H, x, y)  BY <1>3 DEF Goes, Leads
  <2>2. CurOpen(y) /\ Stays(H, y, y)  BY <2>1, SettledCur, StaysSelf
  <2>3. y.cur \in 1 .. Len(y.heap)  BY <2>1 DEF Good
  <2>4. IsSeq(ns) /\ n \in Nat /\ DOMAIN y.heap[y.cur] = BlockFields
        /\ DOMAIN y = BuilderFields /\ y.cur \in DOMAIN y.heap
    BY <2>1, <2>3, IsSeqDomain DEF Good, HeapOK, BlockOK, Cur, IsSeq
  <2>5. 1 <= n /\ n - 1 \in 1 .. n /\ n - 1 \in 1 .. n - 1  BY <1>3, <2>4
  <2>6. DropsNoContainer(y)  BY <1>3 DEF DropsNoContainer, Cur
  <2>7. Stays(H, y, d1)  BY <2>2, <2>6, RemoveLastStays
  <2>8. d1.heap[y.cur].nodes = PopFrom(ns) /\ d1.cur = y.cur
    BY <1>3, <2>4 DEF RemoveLast, BuilderFields, BlockFields, Cur
  <2>9. Len(PopFrom(ns)) = n - 1 /\ PopFrom(ns)[n - 1] = ns[n - 1]  BY <2>4, <2>5, PopSeq
  <2>10. ns[n - 1].id \in 1 .. Len(y.heap)
    <3>1. LinkAt(y.heap, y.cur, n - 1) /\ To(y.heap, y.cur, n - 1) = ns[n - 1].id
      BY <1>3, <2>3, <2>5 DEF LinkAt, To, Cur
    <3>2. TreeIn(y.heap, OpenOf(y.blocks), Table(y.heap, H))  BY <2>1 DEF Good
    <3> QED  BY <3>1, <3>2 DEF TreeIn
  <2>11. d1.heap[ns[n - 1].id].type = y.heap[ns[n - 1].id].type  BY <2>7, <2>10 DEF Stays, Final
  <2>12. DropsNoContainer(d1)  BY <1>3, <2>8, <2>9, <2>11 DEF DropsNoContainer
  <2> HIDE DEF d1
  <2>13. Stays(H, y, d2)  BY <2>2, <2>7, <2>12, RemoveLastStays
  <2> HIDE DEF d2
  <2>14. Stays(H, y, d3)  BY <2>13, DropStays
  <2> HIDE DEF d3
  <2>15. Stays(H, y, nb)  BY <1>2, <2>14, PushStays
  <2> HIDE DEF nb
  <2> QED  BY <2>1, <2>15, LeadsStays DEF Stays
<1> HIDE DEF n, nb
<1> QED  BY <1>1, <1>3

LEMMA OpCloseEnded == ASSUME IInv, CloseEnded PROVE StepOK
<1> DEFINE b1 == IF Cur(b).type # "CONTAINER" /\ b.hist # <<>> THEN ForgetStack(b) ELSE b
           nb == CheckIfExpr(CloseCur(b1))
<1>1. /\ pc = "closing" /\ b' = nb /\ pc' = (IF nb.fault = "none" THEN "closing" ELSE "crashed")
      /\ prog' = prog /\ pos' = pos /\ curpos' = curpos /\ ins' = ins /\ walk' = walk
  BY DEF CloseEnded
<1>2. Good(Handlers, b) /\ Settled(b) /\ b.fault = "none"  BY <1>1 DEF IInv
<1>3. Goes(Handlers, b, b)  BY <1>2, LeadsSelf
<1>4. Goes(Handlers, b, ForgetStack(b))  BY <1>3, OperandMoves DEF Goes
<1>5. Goes(Handlers, b, b1)  BY <1>3, <1>4
<1> HIDE DEF b1
<1>6. Goes(Handlers, b, CloseCur(b1))  BY <1>5, CloseCurGoes
<1>8. CloseCur(b1).fault = "none" =>
        Len(b1.blocks) \in Nat /\ Len(CloseCur(b1).blocks) = Len(b1.blocks) - 1
  BY <1>5, CloseShrinks
<1> DEFINE c == CloseCur(b1)
<1>7. Goes(Handlers, b, nb) /\ nb.blocks = c.blocks /\ (nb.fault = "none" => c.fault = "none")
  BY <1>6, CheckIfExprGoes
<1> HIDE DEF nb, c
<1>9. b1.blocks = b.blocks
  <2>1. DOMAIN b = BuilderFields  BY <1>2 DEF Good
  <2>2. ForgetStack(b).blocks = b.blocks  BY <2>1 DEF ForgetStack, WithHist, Crash, BuilderFields
  <2> QED  BY <2>2 DEF b1
<1>10. Nearer
  <2>1. CASE nb.fault = "none"
    <3>1. Len(b'.blocks) < Len(b.blocks)  BY <1>1, <1>7, <1>8, <1>9, <2>1 DEF c
    <3> QED  BY <1>1, <2>1, <3>1, FewerBlocks
  <2>2. CASE nb.fault # "none"  BY <1>1, <2>2, NextStage
  <2> QED  BY <2>1, <2>2
<1> QED  BY <1>1, <1>7, <1>10, BeforeStep

LEMMA ToHandlerWhere ==
  /\ ToHandler \in {"exec", "regions"}
  /\ ToHandler = "regions" => Handlers # {}
<1>1. ToHandler = "regions" => ExceptRegions # {}  BY DEF ToHandler
<1>2. ASSUME NEW r \in ExceptRegions  PROVE Handlers # {}  BY RegionHandler
<1> QED  BY <1>1, <1>2 DEF ToHandler

LEMMA OpClosedAll == ASSUME IInv, ClosedAll PROVE StepOK
<1>1. /\ pc = "closing" /\ b' = b /\ pc' = ToHandler
      /\ prog' = prog /\ pos' = pos /\ curpos' = curpos /\ ins' = ins /\ walk' = walk
  BY DEF ClosedAll
<1>2. Good(Handlers, b) /\ Settled(b) /\ b.fault = "none"  BY <1>1 DEF IInv
<1>3. Goes(Handlers, b, b)  BY <1>2, LeadsSelf
<1>4. pc' \in {"exec", "regions"} /\ (pc' = "regions" => Handlers # {})  BY <1>1, ToHandlerWhere
<1>5. Nearer  BY <1>1, <1>4, NextStage
<1> QED  BY <1>1, <1>2, <1>3, <1>4, <1>5, BeforeStep

\* code with an exception table has no instruction that sets a try up
LEMMA CodeOK ==
  ASSUME prog \in UNION {Programs[i] : i \in DOMAIN Programs}, NEW k \in 1 .. Size
  PROVE  /\ prog.code[k].arg \in Int
         /\ prog.code[k].op \in {"SETUP_EXCEPT", "SETUP_FINALLY"} => Handlers = {}
<1>1. prog.code \in Seq([op : STRING, arg : Int]) 
      /\ (prog.table # {} => \A j \in DOMAIN prog.code : prog.code[j].op \notin {"SETUP_EXCEPT", "SETUP_FINALLY"})
  BY ProgramsAssumption
<1>2. DOMAIN prog.code = 1 .. Size  BY <1>1, LenProperties DEF Size
<1>3. prog.table = {} => Handlers = {}  BY DEF Handlers
<1> QED  BY <1>1, <1>2, <1>3, SizeNat

LEMMA OpFetch == ASSUME IInv, Fetch PROVE StepOK
<1> DEFINE i   == prog.code[pos + 1]
           try == Block("TRY", Cur(b).end, 1)
           sv  == SaveStack(b)
           nb  == IF OpensTry(i) THEN Open(sv, try) ELSE b
<1>1. /\ pc = "fetch" /\ pos < Size /\ ins' = i /\ b' = nb
      /\ curpos' = pos /\ pos' = pos + 1 /\ prog' = prog /\ walk' = walk
      /\ pc' = "closing" \/ pc' = ToHandler
  BY DEF Fetch
<1>2. Good(Handlers, b) /\ Settled(b) /\ b.fault = "none" /\ b.zce.now.active < pos /\ pos \in Nat
      /\ prog \in UNION {Programs[k] : k \in DOMAIN Programs}
  BY <1>1 DEF IInv
<1>3. Size \in Nat /\ pos + 1 \in 1 .. Size  BY <1>1, <1>2, SizeNat
<1>4. i.arg \in Int /\ (i.op \in {"SETUP_EXCEPT", "SETUP_FINALLY"} => Handlers = {})
  BY <1>2, <1>3, CodeOK
<1> HIDE DEF i
<1>5. NewBlock(Handlers, try)  BY CondBlockNew
<1> HIDE DEF try
<1>6. Goes(Handlers, b, b) /\ Leads(Handlers, b, b) /\ b.blocks # <<>>  BY <1>2, LeadsSelf, NoBlocks
<1>7. Leads(Handlers, b, sv)  BY <1>6, OperandMoves
<1>8. sv.fault = "none" /\ sv.blocks = b.blocks  BY <1>2 DEF SaveStack, Good, BuilderFields
<1> HIDE DEF sv
<1>9. Goes(Handlers, b, Open(sv, try)) /\ Open(sv, try).fault = "none"  BY <1>5, <1>6, <1>7, <1>8, OpenGoes
<1>10. Goes(Handlers, b, nb) /\ nb.fault = "none"  BY <1>2, <1>6, <1>9
<1> HIDE DEF nb
<1>11. Leads(Handlers, b, nb) /\ Settled(nb)  BY <1>10 DEF Goes
<1>12. Handlers' = Handlers /\ Size' = Size  BY <1>1, SameCode
<1>13. b'.zce.now.active < curpos' /\ curpos' < pos' /\ b'.zce.now.active < pos'
  <2>1. nb.zce.now.active <= b.zce.now.active  BY <1>11 DEF Leads, Final
  <2>2. nb.zce.now.active \in Int /\ b.zce.now.active \in Int  BY <1>11 DEF Leads, Good, ChainOK
  <2> QED  BY <1>1, <1>2, <2>1, <2>2
<1>14. pc' \in {"closing", "exec", "regions"} /\ (pc' = "regions" => Handlers # {})
  BY <1>1, ToHandlerWhere
<1>15. WalkOK'
  <2>1. /\ DOMAIN walk = {"prev", "push", "spam", "todo"} /\ IsFiniteSet(walk.todo)
        /\ \A r \in walk.todo : r.handler \in Handlers
    BY DEF IInv, WalkOK
  <2> QED  BY <1>1, <1>12, <1>14, <2>1 DEF WalkOK
<1>16. IInv'
  <2>1. prog' \in UNION {Programs[k] : k \in DOMAIN Programs} /\ pos' \in 0 .. Size' /\ curpos' \in Nat
    BY <1>1, <1>2, <1>3, <1>12
  <2>2. InsOK'  BY <1>1, <1>4, <1>12 DEF InsOK
  <2>3. Good(Handlers', b') /\ b'.fault = "none" /\ Settled(b')
    BY <1>1, <1>10, <1>11, <1>12 DEF Leads
  <2> QED  BY <1>12, <1>13, <1>14, <1>15, <2>1, <2>2, <2>3 DEF IInv
<1>17. Kept  BY <1>1, <1>11, FinalKept DEF Leads
<1>18. Nearer  BY <1>1, <1>2 DEF Nearer
<1> QED  BY <1>16, <1>17, <1>18 DEF StepOK

-----------------------------------------------------------------------------
(* The end of the code *)

LEMMA EndStep ==
  ASSUME IInv, NEW nb, Leads(Handlers, b, nb), b' = nb, nb.fault = "none",
         pos < Size => Settled(nb), pc' \in {"fetch", "done"}, Nearer,
         prog' = prog, pos' = pos, curpos' = curpos, ins' = ins, walk' = walk
  PROVE  StepOK
<1>1. Handlers' = Handlers /\ Size' = Size  BY SameCode
<1>2. Good(Handlers', b')  BY <1>1 DEF Leads
<1>3. b'.zce.now.active < pos'
  <2>1. nb.zce.now.active <= b.zce.now.active  BY DEF Leads, Final
  <2>2. nb.zce.now.active \in Int /\ b.zce.now.active \in Int  BY DEF Leads, Good, ChainOK
  <2>3. pos \in Int /\ b.zce.now.active < pos  BY DEF IInv
  <2> QED  BY <2>1, <2>2, <2>3
<1>4. InsOK' /\ WalkOK'  BY <1>1 DEF IInv, InsOK, WalkOK
<1>5. IInv'
  <2>1. prog' \in UNION {Programs[i] : i \in DOMAIN Programs} /\ pos' \in 0 .. Size' /\ curpos' \in Nat
    BY <1>1 DEF IInv
  <2>2. pos' < Size' => Settled(b')  BY <1>1 DEF Settled, TopId
  <2> QED  BY <1>2, <1>3, <1>4, <2>1, <2>2 DEF IInv
<1>6. Kept  BY FinalKept DEF Leads
<1> QED  BY <1>5, <1>6 DEF StepOK

LEMMA NoHistLeads ==
  ASSUME NEW H, NEW x, NEW y, Leads(H, x, y)
  PROVE  /\ Leads(H, x, [y EXCEPT !.hist = <<>>]) /\ [y EXCEPT !.hist = <<>>].fault = y.fault
         /\ [y EXCEPT !.hist = <<>>].blocks = y.blocks /\ [y EXCEPT !.hist = <<>>].cur = y.cur
<1> DEFINE z == [y EXCEPT !.hist = <<>>]
<1>1. Good(H, y) /\ DOMAIN y = BuilderFields /\ OperandsOK(y.stack, y.hist)  BY DEF Leads, Good
<1>2. /\ Beside(y, z) /\ DOMAIN z = BuilderFields /\ z.stack = y.stack /\ z.hist = <<>>
      /\ z.fault = y.fault /\ z.blocks = y.blocks /\ z.cur = y.cur
  BY <1>1 DEF Beside, BuilderFields
<1> HIDE DEF z
<1>3. OperandsOK(z.stack, z.hist)
  <2>1. IsSeq(<<>>) /\ Len(<<>>) = 0  BY EmptySeqLen
  <2> QED  BY <1>1, <1>2, <2>1 DEF OperandsOK
<1>4. Leads(H, x, z)  BY <1>2, <1>3, BesideLeads
<1> QED  BY <1>2, <1>4 DEF z

LEMMA OpCloseLeftOpen == ASSUME IInv, CloseLeftOpen PROVE StepOK
<1> DEFINE p  == PopBlock(b)
           c  == TopId(b)
           l  == LinkToTop(p, c)
           nb == [l EXCEPT !.hist = <<>>]
<1>1. /\ pc = "fetch" /\ pc' = pc /\ pos = Size /\ Len(b.blocks) > 1 /\ b' = nb
      /\ prog' = prog /\ pos' = pos /\ curpos' = curpos /\ ins' = ins /\ walk' = walk
  BY DEF CloseLeftOpen
<1>2. Good(Handlers, b) /\ b.fault = "none" /\ pos \in Int  BY <1>1 DEF IInv
<1>3. Leads(Handlers, b, b) /\ Len(b.blocks) \in Nat  BY <1>2, LeadsSelf DEF Good, NestedIn, IsSeq
<1>4. b.blocks # <<>>  BY <1>1, <1>2, <1>3, NoBlocks
<1>5. Leads(Handlers, b, p) /\ Loose(Handlers, p, c) /\ Len(p.blocks) = Len(b.blocks) - 1
  BY <1>2, <1>3, <1>4, PopLeads
<1>6. p.fault = "none"  BY <1>2, <1>3, <1>4, PopTaken
<1> HIDE DEF p, c
<1>7. p.blocks # <<>>
  <2>1. 1 <= Len(p.blocks)  BY <1>1, <1>3, <1>5
  <2> QED  BY <1>5, <2>1, NoBlocks DEF Leads
<1>8. Leads(Handlers, b, l) /\ l.fault = "none" /\ l.blocks = p.blocks  BY <1>5, <1>6, <1>7, LinkTop
<1> HIDE DEF l
<1>9. Leads(Handlers, b, nb) /\ nb.fault = "none" /\ nb.blocks = l.blocks  BY <1>8, NoHistLeads
<1>12. b'.blocks = p.blocks  BY <1>1, <1>8, <1>9
<1> HIDE DEF nb
<1>10. pc' \in {"fetch", "done"} /\ ~(pos < Size)  BY <1>1, <1>2
<1>11. Nearer  BY <1>1, <1>3, <1>5, <1>12, FewerBlocks
<1> QED  BY <1>1, <1>9, <1>10, <1>11, EndStep

LEMMA OpReturn == ASSUME IInv, Return PROVE StepOK
<1> DEFINE nb == [b EXCEPT !.hist = <<>>]
<1>1. /\ pc = "fetch" /\ pc' = "done" /\ pos = Size /\ b' = nb
      /\ prog' = prog /\ pos' = pos /\ curpos' = curpos /\ ins' = ins /\ walk' = walk
  BY DEF Return
<1>2. Good(Handlers, b) /\ b.fault = "none" /\ pos \in Int  BY <1>1 DEF IInv
<1>3. Leads(Handlers, b, b)  BY <1>2, LeadsSelf
<1>4. Leads(Handlers, b, nb) /\ nb.fault = "none"  BY <1>2, <1>3, NoHistLeads
<1> HIDE DEF nb
<1>5. ~(pos < Size)  BY <1>1, <1>2
<1>6. Nearer  BY <1>1, NextStage
<1> QED  BY <1>1, <1>4, <1>5, <1>6, EndStep

LEMMA OpUnsupported == ASSUME IInv, Unsupported PROVE StepOK
<1>1. /\ pc = "exec" /\ pc' = "done" /\ b' = b
      /\ prog' = prog /\ pos' = pos /\ curpos' = curpos /\ ins' = ins /\ walk' = walk
  BY DEF Unsupported, On
<1>2. Good(Handlers, b) /\ Settled(b) /\ b.fault = "none"  BY <1>1 DEF IInv
<1>3. Leads(Handlers, b, b)  BY <1>2, LeadsSelf
<1>4. Nearer  BY <1>1, NextStage
<1> QED  BY <1>1, <1>2, <1>3, <1>4, EndStep

LEMMA NoStep == ASSUME IInv, UNCHANGED vars PROVE StepOK
<1>1. /\ prog' = prog /\ pc' = pc /\ pos' = pos /\ curpos' = curpos /\ ins' = ins /\ b' = b
      /\ walk' = walk
  BY DEF vars
<1>2. Handlers' = Handlers /\ Size' = Size  BY <1>1, SameCode
<1>3. InsOK' /\ WalkOK'  BY <1>1, <1>2 DEF IInv, InsOK, WalkOK
<1>4. Settled(b') = Settled(b) /\ Good(Handlers', b') = Good(Handlers, b)  BY <1>1, <1>2
<1> QED  BY <1>1, <1>2, <1>3, <1>4 DEF IInv, StepOK, Kept

-----------------------------------------------------------------------------
(* The invariant *)

LEMMA OneSeq == ASSUME NEW u PROVE IsSeq(<<u>>) /\ Len(<<u>>) = 1 /\ <<u>>[1] = u
<1>1. <<u>> \in Seq({u})  OBVIOUS
<1>2. IsSeq(<<u>>)  BY <1>1, SeqIsSeq
<1> QED  BY <1>2

LEMMA NewGood == ASSUME NEW H PROVE Good(H, NewBuilder) /\ Settled(NewBuilder)
<1> DEFINE main == Block("MAIN", 0, 1)
<1>1. DOMAIN main = BlockFields /\ main.nodes = <<>> /\ main.type = "MAIN"
  BY DEF Block, BlockFields
<1> HIDE DEF main
<1>2. IsSeq(<<>>) /\ Len(<<>>) = 0  BY EmptySeqLen
<1>3. /\ IsSeq(<<main>>) /\ Len(<<main>>) = 1 /\ <<main>>[1] = main
      /\ IsSeq(<<MAIN>>) /\ Len(<<MAIN>>) = 1 /\ <<MAIN>>[1] = MAIN
  BY OneSeq
<1>4. MAIN = 1  BY DEF MAIN
<1>5. /\ NewBuilder.heap = <<main>> /\ NewBuilder.blocks = <<MAIN>> /\ NewBuilder.cur = MAIN
      /\ NewBuilder.stack = <<>> /\ NewBuilder.hist = <<>> /\ DOMAIN NewBuilder = BuilderFields
      /\ NewBuilder.zce = [now |-> NoHandler, outer |-> <<>>, pending |-> {}]
  BY DEF NewBuilder, main, BuilderFields
<1>6. DOMAIN NoHandler = HandlerFields /\ NoHandler.active = -1  BY DEF NoHandler, HandlerFields
<1> DEFINE bs == NewBuilder
           z  == bs.zce
<1>7. /\ bs.heap = <<main>> /\ bs.blocks = <<MAIN>> /\ bs.cur = MAIN
      /\ bs.stack = <<>> /\ bs.hist = <<>> /\ DOMAIN bs = BuilderFields
      /\ DOMAIN z = {"now", "outer", "pending"} /\ z.now = NoHandler /\ z.outer = <<>> /\ z.pending = {}
  BY <1>5
<1> HIDE DEF bs
<1>8. Len(bs.heap) = 1 /\ bs.heap[1] = main /\ Len(bs.blocks) = 1 /\ bs.blocks[1] = 1 /\ bs.cur = 1
  BY <1>3, <1>4, <1>7
<1>9. OperandsOK(bs.stack, bs.hist)  BY <1>2, <1>7 DEF OperandsOK, PlainSeq
<1>10. HeapOK(bs.heap)  BY <1>1, <1>2, <1>3, <1>4, <1>7, <1>8 DEF HeapOK, BlockOK
<1>11. ZceShape(z)  BY <1>2, <1>6, <1>7 DEF ZceShape
<1>12. ChainOK(z) /\ Held(z) = {}  BY <1>2, <1>6, <1>7 DEF ChainOK, Held
<1>13. NestedIn(bs.heap, bs.blocks, Held(z))
  BY <1>3, <1>4, <1>7, <1>8 DEF NestedIn
<1>14. \A i, k : ~LinkAt(bs.heap, i, k)
  <2> SUFFICES ASSUME NEW i, NEW k, i = 1, k \in 1 .. Len(main.nodes)  PROVE FALSE
    BY <1>8 DEF LinkAt
  <2> QED  BY <1>1, <1>2
<1>15. TreeIn(bs.heap, OpenOf(bs.blocks), Table(bs.heap, H))
  BY <1>14 DEF TreeIn
<1>16. OnlyTable(bs.heap, H)  BY <1>1, <1>8 DEF OnlyTable
<1>17. ParkedIn(bs.heap, OpenOf(bs.blocks), z.pending, H)  BY <1>7 DEF ParkedIn
<1>18. Good(H, bs)
  <2>1. bs.cur \in 1 .. Len(bs.heap)  BY <1>8
  <2> QED  BY <1>7, <1>9, <1>10, <1>11, <1>12, <1>13, <1>15, <1>16, <1>17, <2>1 DEF Good
<1>19. Settled(bs)  BY <1>8 DEF Settled, TopId
<1> QED  BY <1>18, <1>19 DEF bs

LEMMA InitOK == Init => IInv
<1> SUFFICES ASSUME Init  PROVE IInv
  OBVIOUS
<1>1. /\ prog \in UNION {Programs[i] : i \in DOMAIN Programs}
      /\ pc = "fetch" /\ pos = 0 /\ curpos = 0 /\ ins = NoIns /\ b = NewBuilder /\ walk = NoWalk
  BY DEF Init
<1>2. Size \in Nat  BY <1>1, SizeNat
<1>3. Good(Handlers, b) /\ Settled(b)  BY <1>1, NewGood
<1>4. b.zce.now.active = -1 /\ b.fault = "none"  BY <1>1 DEF NewBuilder, NoHandler
<1>5. InsOK /\ WalkOK  BY <1>1, FS_EmptySet DEF InsOK, NoIns, WalkOK, NoWalk
<1>6. pos \in 0 .. Size /\ curpos \in Nat /\ b.zce.now.active < pos  BY <1>1, <1>2, <1>4
<1> QED  BY <1>1, <1>3, <1>4, <1>5, <1>6 DEF IInv

\* every step, and none, keeps the invariant and the closed blocks
LEMMA NextStep == ASSUME IInv, [Next]_vars PROVE StepOK
<1>1. CASE Fetch  BY <1>1, OpFetch
<1>2. CASE CloseEnded  BY <1>2, OpCloseEnded
<1>3. CASE ClosedAll  BY <1>3, OpClosedAll
<1>4. CASE Exceptions  BY <1>4, ExceptionsStep
<1>5. CASE Operands  BY <1>5, OperandsStep
<1>6. CASE Stores  BY <1>6, StoresStep
<1>7. CASE Statements  BY <1>7, StatementsStep
<1>8. CASE Structure  BY <1>8, StructureStep
<1>9. CASE CloseLeftOpen  BY <1>9, OpCloseLeftOpen
<1>10. CASE Return  BY <1>10, OpReturn
<1>11. CASE Unsupported  BY <1>11, OpUnsupported
<1>12. CASE Stay \/ UNCHANGED vars  BY <1>12, NoStep DEF Stay
<1> QED
  BY <1>1, <1>2, <1>3, <1>4, <1>5, <1>6, <1>7, <1>8, <1>9, <1>10, <1>11, <1>12 DEF Next

\* The inductive invariant holds of every run: whatever the code object is.
THEOREM Invariant == Spec => []IInv
<1>1. IInv /\ [Next]_vars => IInv'  BY NextStep DEF StepOK
<1> QED  BY <1>1, InitOK, PTL DEF Spec

LEMMA Shapes ==
  ASSUME IInv
  PROVE  /\ IsSeq(b.heap) /\ IsSeq(b.blocks) /\ IsSeq(b.zce.outer)
         /\ DOMAIN b.heap = 1 .. Len(b.heap) /\ DOMAIN b.blocks = 1 .. Len(b.blocks)
         /\ DOMAIN b.zce.outer = 1 .. Len(b.zce.outer)
         /\ \A i \in 1 .. Len(b.heap) : DOMAIN b.heap[i].nodes = 1 .. Len(b.heap[i].nodes)
         /\ OpenIds = OpenOf(b.blocks) /\ Reopened = Held(b.zce)
         /\ FromTable = Table(b.heap, Handlers)
<1>1. Good(Handlers, b)  BY DEF IInv
<1>2. IsSeq(b.heap) /\ IsSeq(b.blocks) /\ IsSeq(b.zce.outer)
      /\ \A i \in 1 .. Len(b.heap) : IsSeq(b.heap[i].nodes)
  BY <1>1 DEF Good, HeapOK, BlockOK, NestedIn, ZceShape
<1>3. /\ DOMAIN b.heap = 1 .. Len(b.heap) /\ DOMAIN b.blocks = 1 .. Len(b.blocks)
      /\ DOMAIN b.zce.outer = 1 .. Len(b.zce.outer)
      /\ \A i \in 1 .. Len(b.heap) : DOMAIN b.heap[i].nodes = 1 .. Len(b.heap[i].nodes)
  BY <1>2, IsSeqDomain
<1>4. OpenIds = OpenOf(b.blocks)  BY <1>3 DEF OpenIds, OpenOf
<1>5. Reopened = Held(b.zce)  BY <1>3 DEF Reopened, Held, InHandler
<1>6. FromTable = Table(b.heap, Handlers)  BY <1>3 DEF FromTable, Table
<1> QED  BY <1>2, <1>3, <1>4, <1>5, <1>6

\* The open blocks nest, the module's is the outermost, curblock is the
\* innermost whenever an instruction is executed, and one is open as long as
\* code remains: for every code object, also one no compiler made.
THEOREM BlocksCorrect == Spec => []BlocksOK
<1>1. ASSUME IInv  PROVE BlocksOK
  <2>1. Good(Handlers, b)  BY <1>1 DEF IInv
  <2>2. pos \in 0 .. Size  BY <1>1 DEF IInv
  <2>3. b.cur \in DOMAIN b.heap  BY <1>1, <2>1, Shapes DEF Good
  <2>4. OpenIds \subseteq DOMAIN b.heap  BY <1>1, <2>1, Shapes, OpenInHeap
  <2>5. \A i \in DOMAIN b.blocks :
          b.blocks[i] \in Reopened \/ \A j \in 1 .. i - 1 : b.blocks[j] < b.blocks[i]
    <3> SUFFICES ASSUME NEW i \in 1 .. Len(b.blocks), b.blocks[i] \notin Held(b.zce), NEW j \in 1 .. i - 1
                 PROVE  b.blocks[j] < b.blocks[i]
      BY <1>1, Shapes
    <3>1. Len(b.blocks) \in Nat  BY <2>1 DEF Good, NestedIn, IsSeq
    <3>2. j \in 1 .. Len(b.blocks) /\ j < i  BY <3>1
    <3> QED  BY <2>1, <3>2 DEF Good, NestedIn
  <2>6. \A i \in DOMAIN b.heap : b.heap[i].type = "MAIN" <=> i = MAIN
    BY <1>1, <2>1, Shapes DEF Good, HeapOK
  <2>7. b.blocks # <<>> => b.blocks[1] = MAIN  BY <2>1, NoBlocks DEF Good, NestedIn
  <2>8. pc \in {"closing", "exec"} \/ (pc = "fetch" /\ pos < Size) => b.cur = TopId(b)
    BY <1>1 DEF IInv, Settled
  <2>9. pc # "crashed" /\ pos < Size => b.blocks # <<>>
    <3>1. Settled(b) => b.blocks # <<>>  BY <2>1, NoBlocks
    <3> QED  BY <1>1, <3>1 DEF IInv, WalkOK
  <2> QED  BY <2>2, <2>3, <2>4, <2>5, <2>6, <2>7, <2>8, <2>9 DEF BlocksOK
<1> QED  BY <1>1, Invariant, PTL

LEMMA LinksAre ==
  ASSUME IInv, NEW l \in Links
  PROVE  LinkAt(b.heap, l[1], l[2]) /\ To(b.heap, l[1], l[2]) = Child(l) /\ l = <<l[1], l[2]>>
<1>1. /\ l \in UNION {{i} \X DOMAIN b.heap[i].nodes : i \in DOMAIN b.heap}
      /\ b.heap[l[1]].nodes[l[2]].kind = "block"
  BY DEF Links
<1>2. PICK i \in DOMAIN b.heap : l \in {i} \X DOMAIN b.heap[i].nodes  BY <1>1
<1>3. l = <<l[1], l[2]>> /\ l[1] = i /\ l[2] \in DOMAIN b.heap[i].nodes  BY <1>2
<1> QED  BY <1>1, <1>2, <1>3, Shapes DEF LinkAt, To, Child

LEMMA LinkedIs ==
  ASSUME IInv, NEW c, Linked(b.heap, c)
  PROVE  \E l \in Links : Child(l) = c
<1>1. PICK i, k : LinkAt(b.heap, i, k) /\ To(b.heap, i, k) = c  BY DEF Linked
<1> DEFINE l == <<i, k>>
<1>2. i \in DOMAIN b.heap /\ k \in DOMAIN b.heap[i].nodes /\ b.heap[i].nodes[k].kind = "block"
  BY <1>1, Shapes DEF LinkAt
<1>3. l \in {i} \X DOMAIN b.heap[i].nodes  BY <1>2
<1>4. l \in UNION {{j} \X DOMAIN b.heap[j].nodes : j \in DOMAIN b.heap}  BY <1>2, <1>3
<1>5. l[1] = i /\ l[2] = k  OBVIOUS
<1> HIDE DEF l
<1>6. l \in Links  BY <1>2, <1>4, <1>5 DEF Links
<1>7. Child(l) = c  BY <1>1, <1>5 DEF Child, To
<1> QED  BY <1>6, <1>7

\* The blocks form a tree under the module's: a block is linked once, under an
\* older one, and not while it is open, except a container of the exception
\* table, which its handler reopens.
THEOREM TreeCorrect == Spec => []TreeOK
<1>1. ASSUME IInv  PROVE TreeOK
  <2>1. TreeIn(b.heap, OpenOf(b.blocks), Table(b.heap, Handlers))  BY <1>1 DEF IInv, Good
  <2>2. OpenIds = OpenOf(b.blocks) /\ FromTable = Table(b.heap, Handlers)  BY <1>1, Shapes
  <2>3. ASSUME NEW l \in Links, NEW m \in Links, Child(l) = Child(m), Child(l) \notin FromTable
        PROVE  l = m
    <3>1. l[1] = m[1] /\ l[2] = m[2]  BY <1>1, <2>1, <2>2, <2>3, LinksAre DEF TreeIn
    <3> QED  BY <1>1, <3>1, LinksAre
  <2>4. \A l \in Links : Child(l) > l[1] \/ Child(l) = MAIN \/ Child(l) \in FromTable
    BY <1>1, <2>1, <2>2, LinksAre DEF TreeIn
  <2>5. \A l \in Links : Child(l) \in OpenIds => Child(l) \in FromTable
    BY <1>1, <2>1, <2>2, LinksAre DEF TreeIn
  <2> QED  BY <2>3, <2>4, <2>5 DEF TreeOK
<1> QED  BY <1>1, Invariant, PTL

\* A try statement of the exception table waits for its handler closed, linked
\* and under that handler's offset, and the handlers being rebuilt nest in the
\* order in which they start.
THEOREM HandlersCorrect == Spec => []HandlersOK
<1>1. ASSUME IInv  PROVE HandlersOK
  <2>1. /\ ParkedIn(b.heap, OpenOf(b.blocks), b.zce.pending, Handlers) /\ ChainOK(b.zce)
        /\ IsSeq(b.zce.outer)
    BY <1>1 DEF IInv, Good, ZceShape
  <2>2. OpenIds = OpenOf(b.blocks) /\ FromTable = Table(b.heap, Handlers)  BY <1>1, Shapes
  <2>3. \A p \in b.zce.pending :
          /\ p[2] \in FromTable /\ b.heap[p[2]].exc = p[1]
          /\ p[2] \notin OpenIds /\ \E l \in Links : Child(l) = p[2]
          /\ p[1] \in Handlers
    BY <1>1, <2>1, <2>2, LinkedIs DEF ParkedIn
  <2> DEFINE chain == Append(b.zce.outer, b.zce.now)
             n     == Len(b.zce.outer)
  <2>4. /\ IsSeq(chain) /\ Len(chain) = n + 1 /\ chain[n + 1] = b.zce.now
        /\ \A i \in 1 .. n : chain[i] = b.zce.outer[i]
    BY <2>1, AppendSeq
  <2>5. DOMAIN chain = 1 .. n + 1 /\ n \in Nat  BY <2>1, <2>4, IsSeqDomain
  <2> HIDE DEF chain, n
  <2>6. ASSUME NEW i \in 1 .. n + 1, NEW j \in 1 .. n + 1, i < j
        PROVE  chain[i].active < chain[j].active
    <3>1. i \in 1 .. n /\ (j \in 1 .. n \/ j = n + 1)  BY <2>5, <2>6
    <3>2. chain[i] = b.zce.outer[i]  BY <2>4, <3>1
    <3>3. CASE j = n + 1  BY <2>1, <2>4, <3>1, <3>2, <3>3 DEF ChainOK, n
    <3>4. CASE j \in 1 .. n  BY <2>1, <2>4, <2>6, <3>1, <3>2, <3>4 DEF ChainOK, n
    <3> QED  BY <3>1, <3>3, <3>4
  <2>7. \A i, j \in DOMAIN chain : i < j => chain[i].active < chain[j].active  BY <2>5, <2>6
  <2> QED  BY <2>3, <2>7 DEF HandlersOK, chain
<1> QED  BY <1>1, Invariant, PTL

\* What a parent has linked is final: no step changes a block that is closed.
THEOREM ClosedStays == Spec => ClosedIsFinal
<1> DEFINE Unchanged == \A i \in DOMAIN b.heap : i \in OpenIds \/ b'.heap[i] = b.heap[i] \/ b.blocks = <<>>
<1>1. ASSUME IInv, [Next]_vars  PROVE Unchanged
  <2>1. Kept  BY <1>1, NextStep DEF StepOK
  <2>2. OpenIds = OpenOf(b.blocks) /\ DOMAIN b.heap = 1 .. Len(b.heap)  BY <1>1, Shapes
  <2> QED  BY <2>1, <2>2 DEF Kept
<1>2. IInv /\ [Next]_vars => [Unchanged]_vars  BY <1>1
<1>3. Spec => [][Unchanged]_vars  BY <1>2, Invariant, PTL DEF Spec
<1> QED  BY <1>3 DEF ClosedIsFinal

\* Decompiling a code object ends, whatever its bytecode: every step reads on,
\* gets further with the instruction, or leaves less to do in the loop that it
\* is an iteration of.
THEOREM AlwaysAdvances == Spec => Advances
<1>1. IInv /\ [Next]_vars => [Nearer]_vars  BY NextStep DEF StepOK
<1> QED  BY <1>1, Invariant, PTL DEF Spec, Advances

\* What gets smaller is a number, so that it cannot do so for ever: the offset
\* does not pass the end of the code, and the stage and what is left are naturals.
THEOREM AdvancesAreBounded == Spec => [](pos \in 0 .. Size /\ Size \in Nat /\ Stage \in 0 .. 6 /\ Left \in Nat)
<1>1. ASSUME IInv  PROVE pos \in 0 .. Size /\ Size \in Nat /\ Stage \in 0 .. 6 /\ Left \in Nat
  <2>1. pos \in 0 .. Size /\ Size \in Nat  BY <1>1, SizeNat DEF IInv
  <2>2. Stage \in {0, 1, 2, 3, 4, 5, 6}  BY <1>1, StageIs DEF IInv
  <2>3. Stage \in 0 .. 6  BY <2>2
  <2>4. Left \in Nat
    <3>1. Len(b.blocks) \in Nat  BY <1>1 DEF IInv, Good, NestedIn, IsSeq
    <3>2. Cardinality(walk.todo) \in Nat  BY <1>1, FS_CardinalityType DEF IInv, WalkOK
    <3> QED  BY <3>1, <3>2 DEF Left
  <2> QED  BY <2>1, <2>3, <2>4
<1> QED  BY <1>1, Invariant, PTL
=============================================================================
