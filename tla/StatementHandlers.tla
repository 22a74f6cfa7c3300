------------------------- MODULE StatementHandlers --------------------------
(***************************************************************************)
(* The handlers of BuildFromCode that append a statement to the current    *)
(* block.  A return or a raise may also end the branch it is in.           *)
(***************************************************************************)
EXTENDS OperandHandlers

(* Stores.  A target is a name, an attribute or a subscript.               *)

\* append_to_chain_store, the chain already popped
AppendToChain(bs, chain, item) ==
  LET full == [chain EXCEPT !.args = Append(@, item)]
      rest == Pop(bs)
  IN IF Arg(rest, 1) = Null THEN Emit(rest, full) ELSE Push(rest, full)

\* a value is assigned to a target
Assign(bs, value, target) ==
  IF value.kind = "chain" THEN AppendToChain(bs, value, target)
  ELSE Emit(bs, StoreNode(value, target))

\* the current block is a for that still waits for its index
AwaitsIndex(bs) == Cur(bs).type = "FOR" /\ Cur(bs).inited = UNINITED
AwaitsWith(bs)  == Cur(bs).type = "WITH" /\ Cur(bs).inited = UNINITED

SetIndex(bs, target) == [bs EXCEPT !.heap[bs.cur].var = target, !.heap[bs.cur].inited = 1]
SetWith(bs, expr, target) ==
  [bs EXCEPT !.heap[bs.cur].expr = expr, !.heap[bs.cur].inited = 1, !.heap[bs.cur].var = target]

(* One more target of an UNPACK_SEQUENCE.  bs has the target's own         *)
(* operands popped; indexable says whether this opcode's handler looks for *)
(* a for loop that waits for its index.                                    *)
UnpackInto(bs, target, indexable) ==
  LET top  == Arg(bs, 1)
      tup  == IF top.kind = "tuple" THEN [top EXCEPT !.args = Append(@, target)] ELSE top
      kept == IF top.kind = "tuple" THEN Push(Pop(bs), tup) ELSE bs
      rest == Drop(bs, 2)
  IN /\ unpack' = unpack - 1
     /\ BreakAt(IF unpack > 1 THEN kept
                ELSE IF indexable /\ AwaitsIndex(rest) THEN SetIndex(rest, tup)
                ELSE Assign(rest, Arg(bs, 2), tup), pos)
     /\ UNCHANGED <<need_try, cleanBuild>>

Hidden(i) == i = 0

(* In a handler the store after the class test names the exception, and    *)
(* the store of None to that name, at the end of the clause, is the        *)
(* compiler's.                                                             *)
NamesException == InHandler(b) /\ b.zce.now.expect_as /\ Cur(b).type = "EXCEPT"
ClearsName     == InHandler(b) /\ b.zce.now.as_name = NameNode(ins.arg) /\ Arg(b, 1) = Null

StoreAsName ==
  /\ On({"STORE_FAST"}) /\ NamesException
  /\ Break([Pop(b) EXCEPT !.zce.now.expect_as = FALSE, !.zce.now.as_name = NameNode(ins.arg),
                          !.heap[b.cur].var = NameNode(ins.arg)])

StoreCleared == On({"STORE_FAST"}) /\ ~NamesException /\ ClearsName /\ Break(Pop(b))

StoreFast ==
  /\ On({"STORE_FAST"}) /\ ~NamesException /\ ~ClearsName
  /\ LET value == Arg(b, 1)
         rest  == Pop(b)
         name  == NameNode(ins.arg)
     IN IF unpack > 0 THEN UnpackInto(b, name, TRUE)
        ELSE Break(IF Hidden(ins.arg) THEN rest
                   ELSE IF AwaitsIndex(rest) THEN SetIndex(rest, name)
                   ELSE IF AwaitsWith(rest) THEN SetWith(rest, value, name)
                   ELSE Assign(rest, value, name))

\* a name taken from a module is stored in its import
StoreImported(bs, value, name) ==
  Push(Pop(bs), [Arg(bs, 1) EXCEPT !.args = Append(@, StoreNode(value, name))])

StoreName ==
  /\ On({"STORE_NAME"})
  /\ LET value == Arg(b, 1)
         rest  == Pop(b)
         name  == NameNode(ins.arg)
     IN IF unpack > 0 THEN UnpackInto(b, name, TRUE)
        ELSE Break(IF Hidden(ins.arg) THEN rest
                   ELSE IF AwaitsIndex(rest) THEN SetIndex(rest, name)
                   ELSE IF Arg(rest, 1).kind = "import" THEN StoreImported(rest, value, name)
                   ELSE IF AwaitsWith(rest) THEN SetWith(rest, value, name)
                   ELSE Assign(rest, value, name))

StoreGlobal ==
  /\ On({"STORE_GLOBAL"})
  /\ IF unpack > 0 THEN UnpackInto(b, NameNode(ins.arg), TRUE)
     ELSE Break(Assign(Pop(b), Arg(b, 1), NameNode(ins.arg)))

StoreDeref ==
  /\ On({"STORE_DEREF"})
  /\ IF unpack > 0 THEN UnpackInto(b, NameNode(ins.arg), FALSE)
     ELSE Break(Assign(Pop(b), Arg(b, 1), NameNode(ins.arg)))

StoreAttr ==
  /\ On({"STORE_ATTR"})
  /\ LET attr == Node("attr", ins.arg, <<Arg(b, 1)>>)
     IN IF unpack > 0 THEN UnpackInto(Pop(b), attr, FALSE)
        ELSE Break(Assign(Drop(b, 2), Arg(b, 2), attr))

(* With annotations, an item of __annotations__ is an annotation: of the   *)
(* variable stored just before, or on its own.                             *)
Annotate(bs, annotation) ==
  LET last == LastNode(Cur(bs))
  IN IF last.kind = "store" THEN Emit(RemoveLast(bs), StoreNode(last.args[1], annotation))
     ELSE Emit(bs, annotation)

StoreSubscr ==
  /\ On({"STORE_SUBSCR"})
  /\ LET dest == Arg(b, 2)
         item == Node("subscr", 0, Args(b, 2))
         rest == Drop(b, 3)
     IN IF unpack > 0 THEN UnpackInto(Drop(b, 2), item, FALSE)
        ELSE Break(IF annotated /\ dest = Null THEN Crash(b, "ub")
                   ELSE IF annotated /\ dest.kind = "name" /\ dest.id = AnnotationsName
                   THEN Annotate(rest, Node("annotated", 0, <<Arg(b, 1), Arg(b, 3)>>))
                   ELSE IF dest.kind = "map" THEN AddToMap(rest, dest, Arg(b, 1), Arg(b, 3))
                   ELSE Assign(rest, Arg(b, 3), item))

SetupAnnotations ==
  /\ On({"SETUP_ANNOTATIONS"})
  /\ annotated' = TRUE
  /\ pc' = "fetch" /\ else_pop' = (IsIfLike(Cur(b)) /\ Cur(b).end = pos)
  /\ UNCHANGED <<prog, pos, curpos, ins, b, unpack, need_try, cleanBuild, walk>>

StoreSlice ==
  On({"STORE_SLICE_0", "STORE_SLICE_1", "STORE_SLICE_2", "STORE_SLICE_3"})
    /\ Break(Emit(Drop(b, Bounds + 2), StoreNode(Arg(b, Bounds + 2), Sliced)))

\* from 3.12
StoreSlicedBy == On({"STORE_SLICE"}) /\ Break(Emit(Drop(b, 4), StoreNode(Arg(b, 4), SlicedBy)))

\* an exchange of operands is taken for the unpacking of a tuple
Swap ==
  /\ On({"SWAP"})
  /\ BreakAt(Push(Push(Drop(b, ins.arg), Node("tuple", 0, Args(b, ins.arg))), Node("tuple", 0, <<>>)), pos)
  /\ unpack' = ins.arg
  /\ UNCHANGED <<need_try, cleanBuild>>

UnpackSequence ==
  /\ On({"UNPACK_SEQUENCE"})
  /\ LET empty == Node("tuple", 0, <<>>)
     IN BreakAt(IF ins.arg > 0 THEN Push(b, empty)
                ELSE IF AwaitsIndex(b) THEN SetIndex(b, empty)
                ELSE Assign(Pop(b), Arg(b, 1), empty), pos)
  /\ unpack' = ins.arg
  /\ UNCHANGED <<need_try, cleanBuild>>

-----------------------------------------------------------------------------
(* Statements appended to the current block *)

BreakLoop    == On({"BREAK_LOOP"})    /\ Break(Emit(b, Keyword(KW_BREAK)))
ContinueLoop == On({"CONTINUE_LOOP"}) /\ Break(Emit(b, Keyword(KW_CONTINUE)))

DeleteName ==
  /\ On({"DELETE_NAME", "DELETE_FAST", "DELETE_GLOBAL"})
  /\ Break(IF Hidden(ins.arg) THEN b
           ELSE IF ins.op = "DELETE_FAST" /\ InHandler(b) /\ b.zce.now.as_name = NameNode(ins.arg) THEN b
           ELSE Emit(b, Node("delete", 0, <<NameNode(ins.arg)>>)))

DeleteSubscr ==
  On({"DELETE_SUBSCR"}) /\ Break(Emit(Drop(b, 2), Node("delete", 0, <<Node("subscr", 0, Args(b, 2))>>)))

DeleteAttr ==
  On({"DELETE_ATTR"}) /\ Break(Emit(Pop(b), Node("delete", 0, <<Node("attr", ins.arg, Args(b, 1))>>)))

DeleteSlice ==
  On({"DELETE_SLICE_0", "DELETE_SLICE_1", "DELETE_SLICE_2", "DELETE_SLICE_3"})
    /\ Break(Emit(Drop(b, Bounds + 1), Node("delete", 0, <<Sliced>>)))

\* exec leaves a chain store when its locals are its globals
ExecStmt ==
  /\ On({"EXEC_STMT"})
  /\ LET bs == IF Arg(b, 1).kind = "chain" THEN Pop(b) ELSE b
     IN Break(Emit(Drop(bs, 3), Node("exec", 0, Args(bs, 3))))

ImportStar == On({"IMPORT_STAR"}) /\ Break(Emit(Pop(b), StoreNode(Arg(b, 1), Null)))

(* print: an item joins the print statement before it while that one goes  *)
(* to the same stream and has not seen its newline (id 1).  A null value   *)
(* starts a statement that has.                                            *)
PrintNode(value, stream) ==
  IF value = Null THEN Node("print", 1, <<stream>>) ELSE Node("print", 0, <<stream, value>>)

OpenPrint(bs, stream) ==
  LET last == LastNode(Cur(bs))
  IN last.kind = "print" /\ last.id = 0 /\ last.args[1].made = stream.made

AddItem(bs, stream, value) ==
  IF OpenPrint(bs, stream)
  THEN Emit(RemoveLast(bs), Node("print", 0, Append(LastNode(Cur(bs)).args, value)))
  ELSE Emit(bs, PrintNode(value, stream))

EndLine(bs, stream) ==
  IF OpenPrint(bs, stream) THEN Emit(RemoveLast(bs), Node("print", 1, LastNode(Cur(bs)).args))
  ELSE Emit(bs, PrintNode(Null, stream))

PrintItem    == On({"PRINT_ITEM"}) /\ Break(AddItem(Pop(b), Null, Arg(b, 1)))
PrintNewline == On({"PRINT_NEWLINE"}) /\ Break(EndLine(Pop(b), Null))

\* print >>stream: the POP_TOP that drops the stream is no statement
ToStream(printed) == IF Arg(b, 1) = Null THEN Crash(printed, "ub") ELSE SetProcessed(printed, Arg(b, 1))

PrintItemTo ==
  On({"PRINT_ITEM_TO"}) /\ Break(ToStream(AddItem(Drop(b, 2), Arg(b, 1), Arg(b, 2))))

PrintNewlineTo ==
  On({"PRINT_NEWLINE_TO"}) /\ Break(ToStream(EndLine(Drop(b, 2), Arg(b, 1))))

(* An expression statement, or the start of a block's body *)
\* a handler without a class: nothing was tested
BareExcept ==
  /\ On({"POP_TOP"}) /\ b.zce.now.expect_check
  /\ Break(Open([Pop(b) EXCEPT !.zce.now.expect_check = FALSE],
                CondBlock("EXCEPT", curpos, 1, Null, FALSE)))

\* a handler that does not name its exception
UnnamedExcept ==
  /\ On({"POP_TOP"}) /\ ~b.zce.now.expect_check /\ b.zce.now.expect_as
  /\ Break([Pop(b) EXCEPT !.zce.now.expect_as = FALSE])

PopTop ==
  /\ On({"POP_TOP"}) /\ ~b.zce.now.expect_check /\ ~b.zce.now.expect_as
  /\ LET value == Arg(b, 1)
         rest  == Pop(b)
         comp  == Cur(b).type = "FOR" /\ Cur(b).comp /\ value.kind = "call" /\ value.id > 0
     IN Break(IF Cur(b).inited = UNINITED
              THEN IF Cur(b).type = "WITH" THEN [rest EXCEPT !.heap[b.cur].expr = value,
                                                             !.heap[b.cur].inited = 1]
                   ELSE [rest EXCEPT !.heap[b.cur].inited = 1]
              ELSE IF value = Null \/ IsProcessed(b, value) THEN rest
              ELSE IF comp THEN Push(Emit(rest, value), Node("comprehension", 0, <<value.args[2]>>))
              ELSE Emit(rest, value))

\* the if or else that a return or a raise ends, given the history to restore
EndsBranch(bs) ==
  Cur(bs).type \in {"IF", "ELSE"} /\ bs.hist # <<>> /\ Ver >= 206

(* After a return that ends its branch the next instruction is read and    *)
(* thrown away: up to 2.6 it is the POP_TOP at the target of the jump.     *)
(* Reading past the end of the code makes the program exit.                *)
ReturnValue ==
  /\ On({"RETURN_VALUE"})
  /\ LET b1 == Emit(Pop(b), Node("return", 0, <<Arg(b, 1)>>))
         b2 == CloseCur(RestoreStack(b1))
     IN IF ~EndsBranch(b1) THEN Break(b1)
        ELSE IF pos = Size THEN Break(Crash(b2, "exit"))
        ELSE BreakAt(b2, pos + 1) /\ UNCHANGED <<unpack, need_try, cleanBuild>>

\* a return of a constant ends no branch; None is a constant here
ReturnConst == On({"RETURN_CONST"}) /\ Break(Emit(b, Node("return", 0, <<Node("object", ins.arg, <<>>)>>)))

RaiseVarargs ==
  /\ On({"RAISE_VARARGS"})
  /\ LET b1 == Emit(Drop(b, ins.arg), Node("raise", 0, Args(b, ins.arg)))
     IN Break(IF EndsBranch(b1) THEN CloseCur(RestoreStack(b1)) ELSE b1)

YieldValue == On({"YIELD_VALUE"}) /\ Break(Emit(Pop(b), Node("yield", 0, <<Arg(b, 1)>>)))

\* the value stays on the stack, and the POP_TOP that drops it is no statement
YieldFrom ==
  /\ On({"YIELD_FROM"})
  /\ LET value == Arg(b, 2)
     IN Break(IF value = Null THEN Pop(b)
              ELSE Emit(SetProcessed(Pop(b), value), Node("yieldfrom", 0, <<value>>)))

ListAppend ==
  /\ On({"LIST_APPEND"})
  /\ LET value == Arg(b, 1)
     IN Break(IF Cur(b).type = "FOR" /\ Cur(b).comp
              THEN Push(Drop(b, 2), Node("comprehension", 0, <<value>>))
              ELSE Push(Pop(b), Node("subscr", 0, <<Arg(b, 2), value>>)))
=============================================================================
