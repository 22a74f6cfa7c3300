--------------------------- MODULE BuildFromCode ----------------------------
(***************************************************************************)
(* BuildFromCode: the handlers that open and close blocks, the end of the  *)
(* code, the next-state relation and what the tree that comes out must be. *)
(* One action per handler of the switch; the three loops inside handlers   *)
(* that walk over the open blocks take one step per iteration.             *)
(***************************************************************************)
EXTENDS StatementHandlers

(* Block openers *)

SetupLoop ==
  On({"SETUP_LOOP"}) /\ Break(Open(b, CondBlock("WHILE", pos + ins.arg, UNINITED, Null, FALSE)))

SetupExcept ==
  /\ On({"SETUP_EXCEPT"})
  /\ LET inContainer == IF Cur(b).type = "CONTAINER"
                        THEN [b EXCEPT !.heap[b.cur].exc = pos + ins.arg]
                        ELSE PushBlock(b, ContainerBlock(0, pos + ins.arg))
     IN BreakAt(Open(SaveStack(inContainer), Block("TRY", pos + ins.arg, 1)), pos)
  /\ need_try' = FALSE
  /\ UNCHANGED <<unpack, cleanBuild>>

SetupFinally ==
  /\ On({"SETUP_FINALLY"})
  /\ BreakAt(Open(b, ContainerBlock(pos + ins.arg, 0)), pos)
  /\ need_try' = TRUE
  /\ UNCHANGED <<unpack, cleanBuild>>

SetupWith == On({"SETUP_WITH", "WITH_EXCEPT_START"}) /\ Break(Open(b, Block("WITH", pos + ins.arg, UNINITED)))

(* A for loop replaces the while block its SETUP_LOOP opened; without one  *)
(* it is a comprehension.  From 3.8 there is no SETUP_LOOP.                *)
OpenFor(bs, type) ==
  LET setup == TopBlock(bs).type = "WHILE"
  IN Open(IF setup THEN PopBlock(bs) ELSE bs,
          IterBlock(type, curpos, TopBlock(bs).end, Arg(b, IF ins.op = "FOR_LOOP" THEN 2 ELSE 1), ~setup))

ForIter ==
  /\ On({"FOR_ITER"})
  /\ Break(Push(IF Ver >= 308
                THEN Open(Pop(b), IterBlock("FOR", curpos, pos + ins.arg, Arg(b, 1), prog.listcomp))
                ELSE OpenFor(Pop(b), "FOR"), Null))

\* up to 2.2: the sequence and the counter go back below the item
ForLoop ==
  On({"FOR_LOOP"}) /\ Break(Push(Push(Push(OpenFor(Drop(b, 2), "FOR"), Arg(b, 2)), Arg(b, 1)), Null))

\* without a SETUP_LOOP an async for is only reported
GetAiter ==
  /\ On({"GET_AITER"})
  /\ Break(IF TopBlock(b).type = "WHILE" THEN Push(OpenFor(Pop(b), "ASYNCFOR"), Null) ELSE Pop(b))

-----------------------------------------------------------------------------
(* Conditional jumps *)

CondJumps == {"POP_JUMP_IF_FALSE", "POP_JUMP_IF_TRUE", "JUMP_IF_FALSE", "JUMP_IF_TRUE",
              "JUMP_IF_FALSE_OR_POP", "JUMP_IF_TRUE_OR_POP",
              "POP_JUMP_FORWARD_IF_FALSE", "POP_JUMP_FORWARD_IF_TRUE"}

\* instructions that are no jumps but share the handler of those
NoJumps == {"UNPACK_EX", "PRINT_EXPR", "SET_ADD", "ROT_N", "BEGIN_FINALLY", "POP_FINALLY", "STOP_CODE",
            "SETUP_ASYNC_WITH", "STORE_ANNOTATION", "UNPACK_ARG", "JUMP_IF_NOT_EXC_MATCH",
            "POP_JUMP_IF_NONE", "POP_JUMP_IF_NOT_NONE", "TO_BOOL", "SEND", "RETURN_GENERATOR",
            "STORE_FAST_STORE_FAST", "STORE_FAST_LOAD_FAST", "YIELD_VALUE_A", "SET_FUNCTION_ATTRIBUTE"}

Popped(op) ==
  CASE op \in {"POP_JUMP_IF_FALSE", "POP_JUMP_IF_TRUE",
               "POP_JUMP_FORWARD_IF_FALSE", "POP_JUMP_FORWARD_IF_TRUE"} -> PRE_POPPED
    [] op \in {"JUMP_IF_FALSE_OR_POP", "JUMP_IF_TRUE_OR_POP"}          -> POPPED
    [] OTHER                                                           -> UNINITED

Negated(op) ==
  op \in {"POP_JUMP_IF_TRUE", "POP_JUMP_FORWARD_IF_TRUE", "JUMP_IF_TRUE", "JUMP_IF_TRUE_OR_POP"}

RelativeJumps == {"JUMP_IF_FALSE", "JUMP_IF_TRUE", "POP_JUMP_FORWARD_IF_FALSE", "POP_JUMP_FORWARD_IF_TRUE"}

JumpTarget == IF Ver >= 312 \/ ins.op \in RelativeJumps THEN pos + ins.arg ELSE ins.arg

\* the condition popped before the stack is saved, or after, or not at all
AtCondJump(bs, op) ==
  CASE Popped(op) = PRE_POPPED -> SaveStack(Pop(bs))
    [] Popped(op) = POPPED     -> Pop(SaveStack(bs))
    [] OTHER                   -> SaveStack(bs)

\* drops the second newest saved stack
ForgetSecond(bs) ==
  IF Len(bs.hist) < 2 THEN Crash(bs, "ub")
  ELSE [bs EXCEPT !.hist = Append(SubSeq(@, 1, Len(@) - 2), @[Len(@)])]

CondJump ==
  /\ On(CondJumps \cup NoJumps)
  /\ LET cond  == Arg(b, 1)
         offs  == JumpTarget
         neg   == Negated(ins.op)
         blk   == Cur(b)
         b1    == AtCondJump(b, ins.op)
         New(type, expr, n) == CondBlock(type, offs, Popped(ins.op), expr, n)
         empty == blk.nodes = <<>>
         joined == IF blk.end = offs \/ (blk.end = curpos /\ ~blk.neg)
                   THEN LogAnd(blk.expr, cond) ELSE LogOr(blk.expr, cond)
     IN Break(
          IF cond.kind = "compare" /\ cond.id = CMP_EXCEPTION
          THEN Open(IF blk.type = "EXCEPT" /\ blk.expr = Null
                    THEN ForgetStack(ToTop(PopBlock(b1))) ELSE b1,
                    New("EXCEPT", cond.args[2], FALSE))
          ELSE IF empty /\ blk.type = "ELSE"                   \* elif
          THEN Open(RestoreStack(PopBlock(b1)), New("ELIF", cond, neg))
          ELSE IF empty /\ blk.type = "WHILE" /\ blk.inited = UNINITED
          THEN Open(ForgetStack(PopBlock(b1)), New("WHILE", cond, neg))
          ELSE IF empty /\ blk.end <= offs /\ blk.type \in {"IF", "ELIF", "WHILE"}
          THEN Open(IF blk.type = "WHILE" THEN ForgetStack(PopBlock(b1)) ELSE ForgetSecond(PopBlock(b1)),
                    New(blk.type, joined, neg))
          ELSE IF blk.type = "FOR" /\ blk.comp /\ Ver >= 207   \* a comprehension's if
          THEN ForgetStack([b1 EXCEPT !.heap[b.cur].filter = cond])
          ELSE Open(b1, New("IF", cond, neg)))

-----------------------------------------------------------------------------
(* Backward jumps: the end of a loop, of an else in a loop, or a continue  *)

\* the else is linked to its parent and, with it, a container it completes
CloseElse(bs) ==
  LET b1 == CloseCur(RestoreStack(bs))
  IN IF Cur(b1).type = "CONTAINER" /\ ~HasFinally(Cur(b1)) THEN CloseCur(b1) ELSE b1

\* a comprehension's loop joins the comprehension on top of the stack and is
\* not linked; from 3.8 a jump to the start of a loop ends it
EndOfFor(offs) ==
  LET blk == Cur(b)
      add == Ver >= 308 /\ offs = blk.start /\ ~blk.comp
      top == Arg(b, 1)
      b1  == IF top.kind = "comprehension"
             THEN Push(Pop(b), Node("comprehension", 0, Append(top.args, BlockNode(b.cur)))) ELSE b
  IN IF add THEN CloseCur(b1) ELSE IF blk.comp THEN ToTop(PopBlock(b1)) ELSE b

LoopBack(offs) ==
  Break(CASE Cur(b).type = "FOR"  -> EndOfFor(offs)
          [] Cur(b).type = "ELSE" -> CloseElse(b)
          [] OTHER                -> Emit(b, Keyword(KW_CONTINUE)))

JumpBack == On({"JUMP_ABSOLUTE"}) /\ ins.arg < pos /\ LoopBack(ins.arg)

\* from 3.11: in a handler the uninterrupted one goes back to the code after
\* the try statement
JumpBackward ==
  On({"JUMP_BACKWARD", "JUMP_BACKWARD_NO_INTERRUPT"})
    /\ IF ins.op = "JUMP_BACKWARD_NO_INTERRUPT" /\ InHandler(b) THEN Break(b) ELSE LoopBack(pos - ins.arg)

\* the end of a for loop, from 3.12 on
EndFor ==
  /\ On({"END_FOR"})
  /\ LET b1 == Drop(b, IF Ver = 312 THEN 2 ELSE 1)
     IN Break(IF Cur(b).type = "FOR" THEN CloseCur(b1) ELSE b1)

\* between a try and its handlers
JumpAbsoluteInContainer ==
  /\ On({"JUMP_ABSOLUTE"}) /\ ins.arg >= pos /\ Cur(b).type = "CONTAINER"
  /\ Break(IF HasExcept(Cur(b)) /\ pos < Cur(b).exc
           THEN Open(b, CondBlock("EXCEPT", 0, 1, Null, FALSE)) ELSE b)

-----------------------------------------------------------------------------
(* Forward jumps end the current block and open the one that the jump      *)
(* skips.  An else that ends takes the block around it along.              *)

\* walk on: another iteration with these locals
WalkOn(nb, prev, push) ==
  /\ b' = nb
  /\ pc' = IF nb.fault = "none" THEN pc ELSE "crashed"
  /\ walk' = [walk EXCEPT !.prev = prev, !.push = push, !.spam = @ + 1]
  /\ UNCHANGED <<prog, annotated, pos, curpos, ins, unpack, else_pop, need_try, cleanBuild>>

StartWalk(nb, where) ==
  /\ b' = nb
  /\ pc' = IF nb.fault = "none" THEN where ELSE "crashed"
  /\ walk' = [NoWalk EXCEPT !.prev = nb.cur]
  /\ UNCHANGED <<prog, annotated, pos, curpos, ins, unpack, else_pop, need_try>>

SaveIf(bs, push) == IF push THEN SaveStack(bs) ELSE bs

\* the else, or the next except, that follows block blk
Follower(blk, end) ==
  IF blk.type = "EXCEPT" THEN CondBlock("EXCEPT", end, 1, Null, FALSE)
  ELSE Block("ELSE", end, IF blk.inited = PRE_POPPED THEN PRE_POPPED ELSE UNINITED)

HasFollower(blk) == blk.type \in {"IF", "ELIF", "EXCEPT"}

JumpAbsolute ==
  /\ On({"JUMP_ABSOLUTE"}) /\ ins.arg >= pos /\ Cur(b).type # "CONTAINER"
  /\ StartWalk(RestoreStack(b), "absolute")
  /\ UNCHANGED cleanBuild

WalkAbsolute ==
  /\ pc = "absolute"
  /\ LET prev == b.heap[walk.prev]
         b1   == LinkToTop(PopBlock(b), walk.prev)
         b2   == IF walk.push THEN b1 ELSE RestoreStack(b1)
     IN IF prev.type = "ELSE" /\ b1.fault = "none"
        THEN WalkOn(b2, TopId(b1), FALSE)
        ELSE Break(IF HasFollower(prev) /\ b1.fault = "none"
                   THEN Open(SaveIf(b1, walk.push), Follower(prev, TopBlock(b1).end))
                   ELSE ToTop(b1))

JumpForwardInContainer ==
  /\ On({"JUMP_FORWARD"}) /\ Cur(b).type = "CONTAINER"
  /\ Break(IF HasExcept(Cur(b))
           THEN Open([SaveStack(b) EXCEPT !.heap[b.cur].end = pos + ins.arg],
                     CondBlock("EXCEPT", pos + ins.arg, 1, Null, FALSE))
           ELSE b)

\* an empty stack means a statement ended here, not the first half of a
\* conditional expression: the saved stack comes back
JumpForward ==
  /\ On({"JUMP_FORWARD"}) /\ Cur(b).type # "CONTAINER"
  /\ LET b1 == IF b.hist = <<>> THEN b
               ELSE IF IsEmpty(b.stack) THEN RestoreStack(b) ELSE ForgetStack(b)
     IN IF Len(b.blocks) = 1 /\ pos < Size
        THEN /\ BreakAt(b1, pos) /\ cleanBuild' = FALSE      \* refused: main stays open
             /\ UNCHANGED <<unpack, need_try>>
        ELSE StartWalk(b1, "forward") /\ UNCHANGED cleanBuild

\* mutant: curblock stays the block that was just closed
LeaveForwardStale(bs) ==
  IF bs.fault # "none" THEN bs
  ELSE IF bs.blocks = <<>> THEN [bs EXCEPT !.heap[bs.cur].end = pos + ins.arg]
  ELSE IF TopBlock(bs).type = "EXCEPT" THEN [bs EXCEPT !.heap[TopId(bs)].end = pos + ins.arg]
  ELSE bs

\* the loop is left: curblock is the innermost open block again
LeaveForward(bs) ==
  IF bs.fault # "none" THEN bs
  ELSE IF bs.blocks = <<>> THEN [bs EXCEPT !.heap[bs.cur].end = pos + ins.arg]
  ELSE IF TopBlock(bs).type = "EXCEPT" THEN [ToTop(bs) EXCEPT !.heap[TopId(bs)].end = pos + ins.arg]
  ELSE ToTop(bs)

\* a try that ends before the target gets its first except clause
AddExcept(bs, push) ==
  LET b1 == WithHist(WithBlocks(bs, bs), [bs EXCEPT !.stack = PopFrom(bs.hist[Len(bs.hist)])])
  IN IF b1.fault = "none" /\ TopBlock(b1).type = "CONTAINER" /\ HasExcept(TopBlock(b1))
     THEN PushBlock(SaveIf(b1, push), CondBlock("EXCEPT", pos + ins.arg, 1, Null, FALSE))
     ELSE b1

WalkForward ==
  /\ pc = "forward"
  /\ LET prev == b.heap[walk.prev]
         b1   == PopBlock(b)
         b2   == IF b1.fault = "none" /\ b1.blocks # <<>> THEN LinkToTop(b1, walk.prev) ELSE b1
         b3   == WithBlocks(b2, IF walk.push THEN b2 ELSE RestoreStack(b2))
     IN IF walk.spam >= SpamThreshold THEN Break(LeaveForward(b))
        ELSE IF prev.type = "ELSE"
        THEN IF b3.fault # "none" \/ TopBlock(b3).type = "MAIN" THEN Break(LeaveForward(b3))
             ELSE WalkOn(b3, TopId(b3), FALSE)
        ELSE Break(LeaveForward(
               IF HasFollower(prev) /\ ins.arg # 0
               THEN PushBlock(SaveIf(b2, walk.push), Follower(prev, pos + ins.arg))
               ELSE IF prev.type = "TRY" /\ prev.end < pos + ins.arg THEN AddExcept(b2, walk.push)
               ELSE b2))

-----------------------------------------------------------------------------
(* Block enders *)

\* a trailing break or continue is the loop's own jump back
DropKeyword(bs) == IF LastNode(Cur(bs)).kind = "keyword" THEN RemoveLast(bs) ELSE bs

PopBlockIgnored == On({"POP_BLOCK"}) /\ Cur(b).type \in {"CONTAINER", "FINALLY", "WITH"} /\ Break(b)

\* mutant: the refused instruction is read again
PopBlockRetried ==
  /\ On({"POP_BLOCK"}) /\ Cur(b).type \notin {"CONTAINER", "FINALLY", "WITH"}
  /\ Len(b.blocks) = 1 /\ pos < Size
  /\ BreakAt(DropKeyword(b), curpos) /\ cleanBuild' = FALSE
  /\ UNCHANGED <<unpack, need_try>>

PopBlockRefused ==
  /\ On({"POP_BLOCK"}) /\ Cur(b).type \notin {"CONTAINER", "FINALLY", "WITH"}
  /\ Len(b.blocks) = 1 /\ pos < Size
  /\ BreakAt(DropKeyword(b), pos) /\ cleanBuild' = FALSE
  /\ UNCHANGED <<unpack, need_try>>

\* the innermost block is closed; an empty else is not linked
EndBlock(bs) ==
  LET tmp == Cur(bs)
      b1  == IF tmp.type \in {"IF", "ELIF", "ELSE", "TRY", "EXCEPT"} /\ bs.hist # <<>>
             THEN RestoreStack(bs) ELSE bs
      b2  == PopBlock(b1)
      b3  == IF b2.blocks = <<>> THEN b2 ELSE ToTop(b2)
  IN IF tmp.type = "ELSE" /\ tmp.nodes = <<>> THEN b3 ELSE Emit(b3, BlockNode(bs.cur))

\* a for that ends at or after pos may have an else
ForElse(bs, tmp) ==
  IF tmp.type = "FOR" /\ tmp.end >= pos THEN Open(SaveStack(bs), Block("ELSE", tmp.end, UNINITED)) ELSE bs

EndsTry(bs, tmp) == Cur(bs).type = "TRY" /\ tmp.type \notin {"FOR", "ASYNCFOR", "WHILE"}

\* mutant: the finally block does not save the stack it will restore
EndOfClausesUnsaved(bs, type) ==
  LET cont == Cur(bs)
  IN IF cont.type # "CONTAINER" THEN bs
     ELSE IF type = "ELSE" /\ ~HasFinally(cont) THEN CloseCur(bs)
     ELSE IF type = "ELSE" \/ (type = "TRY" /\ ~HasExcept(cont))
     THEN Open(bs, Block("FINALLY", 0, 1))
     ELSE bs

\* back in a container: it is complete, or its finally comes next
EndOfClauses(bs, type) ==
  LET cont == Cur(bs)
  IN IF cont.type # "CONTAINER" THEN bs
     ELSE IF type = "ELSE" /\ ~HasFinally(cont) THEN CloseCur(bs)
     ELSE IF type = "ELSE" \/ (type = "TRY" /\ ~HasExcept(cont))
     THEN Open(SaveStack(bs), Block("FINALLY", 0, 1))
     ELSE bs

PopBlockOp ==
  /\ On({"POP_BLOCK"}) /\ Cur(b).type \notin {"CONTAINER", "FINALLY", "WITH"}
  /\ Len(b.blocks) # 1 \/ pos = Size
  /\ LET b1  == DropKeyword(b)
         tmp == Cur(b1)
         b2  == ForElse(EndBlock(b1), tmp)
         b3  == IF EndsTry(b2, tmp) THEN CloseCur(RestoreStack(b2)) ELSE b2
         b4  == EndOfClauses(b3, IF EndsTry(b2, tmp) THEN "TRY" ELSE tmp.type)
     IN Break(IF Cur(b4).type \in {"FOR", "ASYNCFOR"} /\ Cur(b4).end = pos THEN CloseCur(b4) ELSE b4)

\* an except clause ends the handlers: what follows up to the container's
\* end is the else of the try
EndExcept(bs) ==
  LET prev == Cur(bs)
      b1   == PopBlock(bs)
      b2   == ToTop(IF prev.nodes = <<>> THEN b1 ELSE LinkToTop(b1, bs.cur))
  IN IF b2.fault # "none" THEN b2
     ELSE IF Cur(b2).end = pos /\ Cur(b2).type # "CONTAINER" THEN Crash(b2, "bad_cast")
     ELSE IF Cur(b2).end # pos \/ HasFinally(Cur(b2))
     THEN Open(b2, Block("ELSE", prev.end, 1))
     ELSE RestoreStack(b2)

(* An async for is compiled to a loop around a try whose except clause     *)
(* ends it: the container is dropped and the store in its try body names   *)
(* the loop's index.                                                       *)
EndsAsyncFor(bs) ==
  LET n == Len(bs.blocks)
  IN /\ n >= 3 /\ bs.heap[bs.blocks[n - 1]].type = "CONTAINER"
     /\ bs.heap[bs.blocks[n - 2]].type = "ASYNCFOR" /\ bs.heap[bs.blocks[n - 2]].inited = UNINITED

EndAsyncFor(bs) ==
  LET first == bs.heap[bs.blocks[Len(bs.blocks) - 1]].nodes[1]
      b1    == ToTop(PopBlock(PopBlock(bs)))
      body  == bs.heap[first.id].nodes
      named == bs.heap[first.id].type = "TRY" /\ body # <<>> /\ body[1].kind = "store"
  IN IF bs.heap[bs.blocks[Len(bs.blocks) - 1]].nodes = <<>> THEN Crash(bs, "ub")
     ELSE IF first.kind # "block" THEN Crash(bs, "bad_cast")
     ELSE RestoreStack(IF named THEN SetIndex(b1, body[1].args[2]) ELSE b1)

EndFinally ==
  /\ On({"END_FINALLY"})
  /\ LET fin == Cur(b).type = "FINALLY"
         b1  == CASE fin                    -> CloseCur(RestoreStack(b))
                  [] Cur(b).type = "EXCEPT" -> IF EndsAsyncFor(b) THEN EndAsyncFor(b) ELSE EndExcept(b)
                  [] OTHER                  -> b
     IN Break(IF b1.fault = "none" /\ Cur(b1).type = "CONTAINER" /\ (~HasFinally(Cur(b1)) \/ fin)
              THEN CloseCur(b1) ELSE b1)

\* mutant: the None on top is left there
WithCleanupKeeps ==
  /\ On({"WITH_CLEANUP"})
  /\ Break(IF Arg(b, 1) = Null /\ Cur(b).type = "WITH" /\ Cur(b).end = curpos THEN CloseCur(b) ELSE b)

WithCleanup ==
  /\ On({"WITH_CLEANUP"})
  /\ Break(IF Arg(b, 1) = Null /\ Cur(b).type = "WITH" /\ Cur(b).end = curpos
           THEN CloseCur(Pop(b)) ELSE Pop(b))

-----------------------------------------------------------------------------
(* The end of the code *)

\* blocks that are still open are linked to their parents
CloseLeftOpen ==
  /\ pc = "fetch" /\ pos = Size /\ Len(b.blocks) > 1
  /\ b' = [LinkToTop(PopBlock(b), TopId(b)) EXCEPT !.hist = <<>>]
  /\ UNCHANGED <<prog, annotated, pc, pos, curpos, ins, unpack, else_pop, need_try, cleanBuild, walk>>

Return ==
  /\ pc = "fetch" /\ pos = Size /\ Len(b.blocks) <= 1
  /\ pc' = "done" /\ b' = [b EXCEPT !.hist = <<>>]
  /\ cleanBuild' = TRUE
  /\ UNCHANGED <<prog, annotated, pos, curpos, ins, unpack, else_pop, need_try, walk>>

\* an opcode without a case: the nodes linked so far are returned
Unsupported ==
  /\ On({"UNSUPPORTED"})
  /\ pc' = "done" /\ cleanBuild' = FALSE
  /\ UNCHANGED <<prog, annotated, pos, curpos, ins, b, unpack, else_pop, need_try, walk>>

\* the function has returned
Stopped == pc \in {"done", "crashed"}
Stay == Stopped /\ UNCHANGED vars

-----------------------------------------------------------------------------
Operands ==
  \/ Nop \/ Ignored \/ PopIgnored \/ LoadName \/ LoadCommon \/ LoadTwo \/ LoadGlobal \/ LoadConst
  \/ PushNull \/ Copy \/ SmallInt \/ Binary \/ Subscr
  \/ Compare \/ ContainsOp \/ IsOp \/ Unary \/ UnaryConvert \/ GetAwaitable
  \/ BuildList \/ BuildSet \/ BuildTuple \/ BuildString \/ FormatValue
  \/ BuildInterpolation \/ BuildTemplate \/ BinarySlice \/ KwNames
  \/ BuildMap \/ BuildConstKeyMap \/ StoreMap \/ ListExtend \/ SetUpdate
  \/ BuildSlice \/ Slice \/ BuildUnpack \/ LoadAttr \/ LoadMethod \/ LoadLocals
  \/ BuildClass \/ LoadBuildClass \/ BuildFunction \/ MakeFunction
  \/ CallFunction \/ CallMethod \/ CallFunctionVarKw \/ CallFunctionEx
  \/ CallKw \/ CallNoKw \/ CallIntrinsic
  \/ UnaryCall \/ BinaryCall \/ Rotate \/ DupTop \/ DupTopTwo \/ DupTopX
  \/ ImportName \/ ImportFrom

Stores ==
  \/ StoreName \/ StoreFast \/ StoreAsName \/ StoreCleared \/ StoreGlobal \/ StoreDeref \/ StoreAttr \/ StoreSubscr
  \/ StoreSlice \/ StoreSlicedBy \/ UnpackSequence \/ Swap \/ SetupAnnotations

Statements ==
  \/ BreakLoop \/ ContinueLoop \/ DeleteName \/ DeleteSubscr \/ DeleteAttr
  \/ DeleteSlice \/ ExecStmt \/ ImportStar \/ PrintItem \/ PrintNewline
  \/ PrintItemTo \/ PrintNewlineTo \/ BareExcept \/ UnnamedExcept \/ PopTop
  \/ ReturnValue \/ ReturnConst \/ RaiseVarargs
  \/ YieldValue \/ YieldFrom \/ ListAppend

Structure ==
  \/ SetupLoop \/ SetupExcept \/ SetupFinally \/ SetupWith \/ ForIter \/ ForLoop
  \/ GetAiter \/ CondJump
  \/ JumpBack \/ JumpBackward \/ EndFor \/ JumpAbsoluteInContainer \/ JumpAbsolute \/ WalkAbsolute
  \/ JumpForwardInContainer \/ JumpForward \/ WalkForward
  \/ PopBlockIgnored \/ PopBlockRefused \/ PopBlockOp \/ EndFinally \/ WithCleanup

Exceptions ==
  \/ CloseEndedTry \/ FindBodies \/ EnterBody \/ EnterHandler
  \/ PushExcInfo \/ CheckExcMatch \/ NotTaken \/ PopExcept \/ Reraise

Next ==
  \/ Fetch \/ CloseEnded \/ ClosedAll \/ Exceptions
  \/ Operands \/ Stores \/ Statements \/ Structure
  \/ CloseLeftOpen \/ Return \/ Unsupported \/ Stay

Spec == Init /\ [][Next]_vars

(* One thread runs the loop and nothing stops it: it goes on until it has  *)
(* returned.  This is WF_vars(Next) with the enabling condition spelled    *)
(* out: the deadlock check of the runs shows that a step is possible until *)
(* then.  (TLC takes ENABLED of a long handler in exponential time.)       *)
FairSpec == Spec /\ ([]<>Stopped \/ []<><<Next>>_vars)

-----------------------------------------------------------------------------
(* Properties *)

OpenIds == {b.blocks[i] : i \in DOMAIN b.blocks}

\* the containers, linked already, whose handlers are being rebuilt
Reopened ==
  {b.zce.outer[i].container : i \in DOMAIN b.zce.outer}
    \cup (IF InHandler(b) THEN {b.zce.now.container} ELSE {})

\* the places <<block, index>> of the nodes that are blocks
Links ==
  {l \in UNION {{i} \X DOMAIN b.heap[i].nodes : i \in DOMAIN b.heap} :
     b.heap[l[1]].nodes[l[2]].kind = "block"}
Child(l) == b.heap[l[1]].nodes[l[2]].id

(* The open blocks are blocks that were made, each after the one around    *)
(* it; the module's block is the outermost, and only that one; curblock is *)
(* the innermost of them whenever a handler starts; and there is one as    *)
(* long as code remains, whatever the bytecode: only an undefined          *)
(* behaviour that was reached before can leave the stack empty.            *)
BlocksOK ==
  /\ pos \in 0 .. Size
  /\ b.cur \in DOMAIN b.heap
  /\ OpenIds \subseteq DOMAIN b.heap
  /\ \A i \in DOMAIN b.blocks :
       b.blocks[i] \in Reopened \/ \A j \in 1 .. i - 1 : b.blocks[j] < b.blocks[i]
  /\ \A i \in DOMAIN b.heap : b.heap[i].type = "MAIN" <=> i = MAIN
  /\ b.blocks # <<>> => b.blocks[1] = MAIN
  /\ pc \in {"closing", "exec"} \/ (pc = "fetch" /\ pos < Size) => b.cur = TopId(b)
  /\ pc # "crashed" /\ pos < Size => b.blocks # <<>>

\* the containers of the exception table's tries, which are linked before
\* their handlers are met
FromTable == {i \in DOMAIN b.heap : b.heap[i].type = "CONTAINER" /\ b.heap[i].exc \in Handlers}

(* The blocks form a tree under the module's: a block is linked once at    *)
(* most, to an older one, and never while it is open; a container that the *)
(* exception table made may be open again after it was linked, and is then *)
(* linked again when something else than the end of its handler closes it. *)
(* (A POP_BLOCK that ends the code with no block to pop links the module's *)
(* block to itself.)                                                       *)
TreeOK ==
  /\ \A l, m \in Links : Child(l) = Child(m) => l = m \/ Child(l) \in FromTable
  /\ \A l \in Links : Child(l) > l[1] \/ Child(l) = MAIN \/ Child(l) \in FromTable
  /\ \A l \in Links : Child(l) \in OpenIds => Child(l) \in FromTable

(* A try statement of the exception table waits for its handler closed and *)
(* linked, under that handler's offset; and of the handlers being rebuilt  *)
(* each starts after the one around it.                                    *)
HandlersOK ==
  /\ \A p \in b.zce.pending :
       /\ p[2] \in FromTable /\ b.heap[p[2]].exc = p[1]
       /\ p[2] \notin OpenIds /\ \E l \in Links : Child(l) = p[2]
       /\ p[1] \in Handlers
  /\ LET chain == Append(b.zce.outer, b.zce.now)
     IN \A i, j \in DOMAIN chain : i < j => chain[i].active < chain[j].active

(* The handler a try statement waits for is still to come, so that its     *)
(* clauses are found.  (In other code an if of the body may end behind the *)
(* start of the handler: the try is then closed too late, and its handler  *)
(* was read as what follows it.)                                           *)
HandlersAhead == \A p \in b.zce.pending : p[1] >= curpos

(* A block that was closed is never touched again: what a parent has       *)
(* linked is final.                                                        *)
ClosedIsFinal ==
  [][\A i \in DOMAIN b.heap : i \in OpenIds \/ b'.heap[i] = b.heap[i]
                               \/ b.blocks = <<>>]_vars

(* No statement is dropped: a block that holds any is open or linked, or   *)
(* was discarded while empty.                                              *)
NothingLost ==
  \A i \in DOMAIN b.heap :
    b.heap[i].nodes # <<>> => i \in OpenIds \/ \E l \in Links : Child(l) = i

(* Every code object is decompiled to the end, or the program stops: the   *)
(* loops over the open blocks inside the handlers come to an end, and      *)
(* every instruction has a handler for every block it can meet.            *)
Terminates == <>Stopped

\* how far the work on an instruction, on the left-open blocks at last, has come
Stage ==
  [closing |-> 6, regions |-> 5, entering |-> 4, exec |-> 3, absolute |-> 2, forward |-> 2,
   fetch |-> 1, done |-> 0, crashed |-> 0][pc]
Left == IF pc = "entering" THEN Cardinality(walk.todo) ELSE Len(b.blocks)

(* No loop of the function can hang, whatever the bytecode: every step     *)
(* reads on, or gets further with the instruction, or leaves fewer blocks  *)
(* to close or bodies to enter in the loop that it is an iteration of.     *)
(* (The spam counter of JUMP_FORWARD is not needed for that.)              *)
Nearer ==
  \/ pos < pos'
  \/ pos = pos' /\ Stage' < Stage
  \/ pos = pos' /\ Stage' = Stage /\ Left' < Left
Advances == [][Nearer]_vars

(* Nothing that code can do takes a top() of an empty std::stack, a failed *)
(* cast or a read past the end.                                            *)
NotFaulted == b.fault = "none"

(* When the code ends nothing is left on the operand stack: an operand     *)
(* left there is an expression that no statement of the tree shows.  (Code *)
(* with an exception table ends in the clean-up of a handler, which works  *)
(* on no expressions of the source.)                                       *)
OperandsUsed == pc = "fetch" /\ pos = Size /\ prog.table = {} => b.stack = <<>>

(* The builder is about to refuse to pop its last block. *)
Refuses ==
  pc = "exec" /\ ins.op \in {"POP_BLOCK", "JUMP_FORWARD"} /\ Len(b.blocks) = 1 /\ pos < Size
=============================================================================
