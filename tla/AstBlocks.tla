----------------------------- MODULE AstBlocks -----------------------------
(***************************************************************************)
(* The data BuildFromCode works on, and the elementary moves it makes:     *)
(* AST nodes, the blocks of the tree (ASTNode.h), the stack of open        *)
(* blocks, the operand stack and its history.  The locals these moves      *)
(* touch are one record, the builder state                                 *)
(*                                                                         *)
(*   heap    every block made so far; a block is named by its index, so    *)
(*           that a link from a parent is the child's index                *)
(*   blocks  the open blocks, innermost last (std::stack blocks)           *)
(*   cur     curblock                                                      *)
(*   stack   the operand stack (FastStack refines it), top last            *)
(*   hist    stack_hist, the saved operand stacks                          *)
(*   done    the nodes a statement already shows (setProcessed)            *)
(*   zce     the try statements that the exception table describes         *)
(*           (ZeroCost)                                                    *)
(*   fault   "none", or what went wrong: "ub" for the undefined behaviour  *)
(*           of top() or pop() on an empty std::stack, "bad_cast" for the  *)
(*           exception a wrong PycRef::cast throws, "exit" when the code   *)
(*           is read past its end                                          *)
(*                                                                         *)
(* A move on a faulted state does nothing: what an undefined behaviour     *)
(* goes on to do is not described, only that it was reached.               *)
(***************************************************************************)
EXTENDS Integers, Sequences, FiniteSets

-----------------------------------------------------------------------------
(* Nodes: a kind, a number that tells two of them apart (the index of the  *)
(* name, the constant or the operator in the code object), and operands.   *)
(* made is the node's identity, the instruction that pushed it first, 0 as *)
(* long as it was on no stack: references to the same node agree on it.    *)
Node(kind, id, args) == [kind |-> kind, id |-> id, args |-> args, made |-> 0]

Null == Node("null", 0, <<>>)

INSTANCE NodeStack

NameNode(i)         == Node("name", i, <<>>)
StoreNode(src, dst) == Node("store", 0, <<src, dst>>)
Keyword(i)          == Node("keyword", i, <<>>)
KW_BREAK            == 1
KW_CONTINUE         == 2
CMP_IN              == 6
CMP_IS              == 8
CMP_EXCEPTION       == 10
LogAnd(a, c)        == Node("and", 0, <<a, c>>)
LogOr(a, c)         == Node("or", 0, <<a, c>>)
BlockNode(i)        == Node("block", i, <<>>)
Ternary(blk, a, c)  == Node("ternary", blk.id, <<a, c>>)

-----------------------------------------------------------------------------
(* Blocks.  expr is the condition, the exception class, the iterable or    *)
(* the context manager, var the loop index or the "as" target, start the   *)
(* offset of the FOR_ITER; fin and exc are a container's handler offsets,  *)
(* 0 for none.                                                             *)
UNINITED   == 0
POPPED     == 1
PRE_POPPED == 2

Block(type, end, inited) ==
  [type |-> type, end |-> end, inited |-> inited, nodes |-> <<>>,
   expr |-> Null, neg |-> FALSE, var |-> Null, filter |-> Null,
   start |-> 0, comp |-> FALSE, fin |-> 0, exc |-> 0]

CondBlock(type, end, inited, cond, neg) ==
  [Block(type, end, inited) EXCEPT !.expr = cond, !.neg = neg]

IterBlock(type, start, end, iter, comp) ==
  [Block(type, end, UNINITED) EXCEPT !.expr = iter, !.start = start, !.comp = comp]

ContainerBlock(fin, exc) ==
  [Block("CONTAINER", 0, UNINITED) EXCEPT !.fin = fin, !.exc = exc]

HasFinally(blk) == blk.fin # 0
HasExcept(blk)  == blk.exc # 0

-----------------------------------------------------------------------------
(* The builder state *)
MAIN == 1

\* the handler being rebuilt: its offset (-1 for none), its container, what the
\* next instruction is expected to be, and the name of its "as" clause
NoHandler ==
  [active |-> -1, container |-> 0, expect_as |-> FALSE, expect_check |-> FALSE, as_name |-> Null]

NewBuilder ==
  [heap   |-> <<Block("MAIN", 0, 1)>>,
   blocks |-> <<MAIN>>,
   cur    |-> MAIN,
   stack  |-> <<>>,
   hist   |-> <<>>,
   done   |-> {},
   zce    |-> [now |-> NoHandler, outer |-> <<>>, pending |-> {}],
   fault  |-> "none"]

Cur(b)      == b.heap[b.cur]
TopId(b)    == b.blocks[Len(b.blocks)]
TopBlock(b) == b.heap[TopId(b)]
LastNode(blk) == IF blk.nodes = <<>> THEN Null ELSE blk.nodes[Len(blk.nodes)]

Crash(b, what) == IF b.fault = "none" THEN [b EXCEPT !.fault = what] ELSE b

\* what needs the open blocks, or the history, to be non-empty
WithBlocks(b, nb) == IF b.fault = "none" /\ b.blocks # <<>> THEN nb ELSE Crash(b, "ub")
WithHist(b, nb)   == IF b.fault = "none" /\ b.hist # <<>> THEN nb ELSE Crash(b, "ub")

-----------------------------------------------------------------------------
(* Moves on the operand stack: pops of an empty FastStack are harmless *)
Push(b, n)    == [b EXCEPT !.stack = PushTo(@, n)]
Pop(b)        == [b EXCEPT !.stack = PopFrom(@)]
Drop(b, n)    == [b EXCEPT !.stack = DropFrom(@, n)]
Arg(b, i)     == TopAt(b.stack, i)

\* the n topmost operands in the order they were pushed, null where missing
Args(b, n) == [i \in 1 .. n |-> TopAt(b.stack, n + 1 - i)]

\* the nodes an instruction made get their identity
Made(b, at) ==
  [b EXCEPT !.stack = [i \in DOMAIN @ |-> IF @[i] # Null /\ @[i].made = 0
                                          THEN [@[i] EXCEPT !.made = at] ELSE @[i]]]

\* map->add(key, value), which every reference to the map on the stack or in
\* its history sees; references from other nodes are left as they were
AddToMap(b, map, key, value) ==
  LET Added(s) == [i \in DOMAIN s |-> IF s[i].made = map.made
                                      THEN [s[i] EXCEPT !.args = @ \o <<key, value>>] ELSE s[i]]
  IN [b EXCEPT !.stack = Added(@), !.hist = [i \in DOMAIN @ |-> Added(@[i])]]

\* node->setProcessed(), node->processed()
SetProcessed(b, node) == [b EXCEPT !.done = @ \cup {node.made}]
IsProcessed(b, node)  == node.made \in b.done

SaveStack(b)    == [b EXCEPT !.hist = Append(@, b.stack)]
ForgetStack(b)  == WithHist(b, [b EXCEPT !.hist = PopFrom(@)])
RestoreStack(b) ==
  WithHist(b, [b EXCEPT !.stack = b.hist[Len(b.hist)], !.hist = PopFrom(@)])

-----------------------------------------------------------------------------
(* Moves on the blocks *)

\* curblock = blocks.top()
ToTop(b) == WithBlocks(b, [b EXCEPT !.cur = TopId(b)])

\* blocks.push(new block); curblock stays
PushBlock(b, blk) ==
  IF b.fault # "none" THEN b
  ELSE [b EXCEPT !.heap = Append(@, blk), !.blocks = Append(@, Len(b.heap) + 1)]

\* blocks.push(new block); curblock = blocks.top()
Open(b, blk) == ToTop(PushBlock(b, blk))

\* blocks.pop()
PopBlock(b) == WithBlocks(b, [b EXCEPT !.blocks = PopFrom(@)])

\* heap[i].append(n)
AppendAt(b, i, n) ==
  IF b.fault # "none" THEN b ELSE [b EXCEPT !.heap[i].nodes = Append(@, n)]

\* curblock->append(n)
Emit(b, n) == AppendAt(b, b.cur, n)

\* blocks.top()->append(block i)
LinkToTop(b, i) == WithBlocks(b, AppendAt(b, TopId(b), BlockNode(i)))

\* curblock->removeLast(), on an empty list nothing
RemoveLast(b) ==
  IF b.fault # "none" THEN b ELSE [b EXCEPT !.heap[b.cur].nodes = PopFrom(@)]

\* mutant: curblock is not moved to the block around
CloseCurStale(b) == LinkToTop(PopBlock(b), b.cur)

\* mutant: the block is appended before it is popped
CloseCurEarly(b) == ToTop(PopBlock(LinkToTop(b, b.cur)))

\* prev = curblock; blocks.pop(); curblock = blocks.top(); curblock->append(prev)
CloseCur(b) == ToTop(LinkToTop(PopBlock(b), b.cur))
=============================================================================
