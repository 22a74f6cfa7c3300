---------------------------- MODULE BuilderState ----------------------------
(***************************************************************************)
(* The state of BuildFromCode (ASTree.cpp), the loop that reads a code     *)
(* object one instruction at a time and rebuilds the blocks of the source  *)
(* from the jumps, and the head of that loop.                              *)
(*                                                                         *)
(* A program is a sequence of instructions [op, arg]; offsets count        *)
(* instructions, offset 0 being the first.  Only the order of offsets      *)
(* matters to the code, never their distance.  Its exception table (from   *)
(* 3.11 on) is a set of entries <<start, end, target>>.                    *)
(* arg is the decoded operand:                                             *)
(* an index (name 0 is one of the hidden "_[..." names; constant 0 is      *)
(* None, 1 the empty tuple, CODE are code objects, the others anything     *)
(* else), a count, or a jump operand.                                      *)
(***************************************************************************)
EXTENDS AstBlocks

CONSTANTS Programs,        \* sets of code objects, in a sequence: each has code,
                           \* a Seq([op, arg]), table, listcomp : BOOLEAN, and ver,
                           \* 100 * major + minor of the compiling Python
          SpamThreshold    \* spamThreshold of JUMP_FORWARD, 100 in the code

\* the Pythons whose code has an exception table have no instruction that sets
\* a try up (bytes/python_3_11.cpp and later)
ASSUME ProgramsAssumption ==
  \A i \in DOMAIN Programs : \A p \in Programs[i] :
    /\ p.ver \in 100 .. 314
    /\ p.code \in Seq([op : STRING, arg : Int])
    /\ IsFiniteSet(p.table) /\ (p.ver < 311 => p.table = {})
    /\ p.table # {} => \A k \in DOMAIN p.code : p.code[k].op \notin {"SETUP_EXCEPT", "SETUP_FINALLY"}
ASSUME SpamAssumption == SpamThreshold \in Nat \ {0}

VARIABLES prog,         \* the code object being decompiled
          pc,           \* where in the loop: fetch, closing, regions, entering,
                        \*   exec, forward, absolute, done, crashed
          pos, curpos,  \* offset after, and of, the current instruction
          ins,          \* the current instruction
          b,            \* the builder state (AstBlocks)
          unpack,       \* targets an UNPACK_SEQUENCE still waits for
          else_pop,     \* an if, elif or else may end at pos
          need_try,     \* SETUP_FINALLY seen, its try block not yet open
          annotated,    \* variable_annotations: SETUP_ANNOTATIONS seen
          cleanBuild,   \* global: no error so far
          walk          \* what the loops inside an iteration go on with: prev, push and
                        \*   spamCounter of a jump handler, the bodies still to enter

vars == <<prog, pc, pos, curpos, ins, b, unpack, else_pop, need_try, annotated, cleanBuild, walk>>

Size == Len(prog.code)
Ver  == prog.ver
CODE      == 900 .. 999    \* the constants that are code objects
LambdaCode == 900          \* the one named "<lambda>"
TUPLE     == 850 .. 899    \* the constants that are tuples with elements
FROZENSET == 800 .. 849    \* the constants that are frozen sets
AnnotationsName == 99      \* the name __annotations__
NoIns == [op |-> "NOP", arg |-> 0]
NoWalk == [prev |-> 0, push |-> TRUE, spam |-> 0, todo |-> {}]

Init ==
  /\ \E i \in DOMAIN Programs : prog \in Programs[i]
  /\ pc = "fetch" /\ pos = 0 /\ curpos = 0 /\ ins = NoIns
  /\ b = NewBuilder
  /\ unpack = 0 /\ else_pop = FALSE /\ need_try = FALSE /\ annotated = FALSE
  /\ cleanBuild = FALSE     \* or left over from the previous code object: nothing reads it here
  /\ walk = NoWalk

-----------------------------------------------------------------------------
(* Shared ends of the handlers *)

IsIfLike(blk) == blk.type \in {"IF", "ELSE", "ELIF"}

\* break out of the switch with builder state nb and the reader at np
BreakAt(nb, np) ==
  /\ b' = Made(nb, pos) /\ pos' = np
  /\ pc' = IF nb.fault = "none" THEN "fetch" ELSE "crashed"
  /\ else_pop' = (IsIfLike(Cur(nb)) /\ Cur(nb).end = np)
  /\ walk' = NoWalk
  /\ UNCHANGED <<prog, annotated, curpos, ins>>

Break(nb) ==
  /\ BreakAt(nb, pos)
  /\ UNCHANGED <<unpack, need_try, cleanBuild>>

On(ops) == pc = "exec" /\ ins.op \in ops

-----------------------------------------------------------------------------
(* The head of the loop: fetch, then open a pending try or close the       *)
(* blocks that end before the instruction.                                 *)

\* instructions that leave an else block to their own handler
KeepsElse == {"JUMP_FORWARD", "JUMP_IF_FALSE", "JUMP_IF_FALSE_OR_POP",
              "POP_JUMP_IF_FALSE", "POP_JUMP_FORWARD_IF_FALSE", "JUMP_IF_TRUE",
              "JUMP_IF_TRUE_OR_POP", "POP_JUMP_IF_TRUE", "POP_JUMP_FORWARD_IF_TRUE",
              "POP_BLOCK"}

(* The try statements of 3.11 and later, from the exception table: a       *)
(* handler is an entry's target that starts with a PUSH_EXC_INFO, and the  *)
(* body is taken to go from the first start to the first end of its        *)
(* entries.                                                                *)
Least(S) == CHOOSE x \in S : \A y \in S : x <= y
OpcodeAt(offset) == IF offset \in 0 .. Size - 1 THEN prog.code[offset + 1].op ELSE "INVALID"

Handlers == {e[3] : e \in {t \in prog.table : Ver >= 311 /\ OpcodeAt(t[3]) = "PUSH_EXC_INFO"}}

ExceptRegions ==
  {[handler   |-> h,
    try_start |-> Least({e[1] : e \in {t \in prog.table : t[3] = h}}),
    body_end  |-> Least({e[2] : e \in {t \in prog.table : t[3] = h}})] : h \in Handlers}

\* where the loop goes after the pending blocks are closed (use_zce)
ToHandler == IF ExceptRegions = {} THEN "exec" ELSE "regions"

OpensTry(i) == need_try /\ i.op # "SETUP_EXCEPT"

Fetch ==
  /\ pc = "fetch" /\ pos < Size
  /\ LET i == prog.code[pos + 1]
     IN /\ ins' = i
        /\ b' = IF OpensTry(i) THEN Open(SaveStack(b), Block("TRY", Cur(b).end, 1)) ELSE b
        /\ need_try' = (need_try /\ ~OpensTry(i))
        /\ pc' = IF ~OpensTry(i) /\ else_pop /\ i.op \notin KeepsElse
                 THEN "closing" ELSE ToHandler
  /\ curpos' = pos /\ pos' = pos + 1
  /\ UNCHANGED <<prog, annotated, unpack, else_pop, cleanBuild, walk>>

\* mutant: an empty operand stack does not stop it
CheckIfExprAnyStack(bs) ==
  LET ns == Cur(bs).nodes
      Is(i, type) == ns[i].kind = "block" /\ bs.heap[ns[i].id].type = type
  IN IF bs.fault # "none" \/ Len(ns) < 2 \/ ~Is(Len(ns), "ELSE") \/ ~Is(Len(ns) - 1, "IF")
     THEN bs
     ELSE Push(Drop(RemoveLast(RemoveLast(bs)), 2),
               Ternary(ns[Len(ns) - 1], Arg(bs, 2), Arg(bs, 1)))

(* The last two nodes of the current block were an if and its else, and    *)
(* something is on the stack: take them for a conditional expression.      *)
CheckIfExpr(bs) ==
  LET ns == Cur(bs).nodes
      Is(i, type) == ns[i].kind = "block" /\ bs.heap[ns[i].id].type = type
  IN IF \/ bs.fault # "none" \/ IsEmpty(bs.stack) \/ Len(ns) < 2
        \/ ~Is(Len(ns), "ELSE") \/ ~Is(Len(ns) - 1, "IF")
     THEN bs
     ELSE Push(Drop(RemoveLast(RemoveLast(bs)), 2),
               Ternary(ns[Len(ns) - 1], Arg(bs, 2), Arg(bs, 1)))

\* the blocks the else_pop loop closes
Ended(blk) ==
  /\ blk.end < pos
  /\ blk.type # "MAIN"
  /\ blk.type = "CONTAINER" \/ blk.end # 0

CloseEnded ==
  /\ pc = "closing" /\ Ended(Cur(b))
  /\ LET b1 == IF Cur(b).type # "CONTAINER" /\ b.hist # <<>> THEN ForgetStack(b) ELSE b
         b2 == CheckIfExpr(CloseCur(b1))
     IN /\ b' = b2
        /\ pc' = IF b2.fault = "none" THEN "closing" ELSE "crashed"
  /\ UNCHANGED <<prog, annotated, pos, curpos, ins, unpack, else_pop, need_try, cleanBuild, walk>>

ClosedAll ==
  /\ pc = "closing" /\ ~Ended(Cur(b))
  /\ pc' = ToHandler /\ else_pop' = FALSE
  /\ UNCHANGED <<prog, annotated, pos, curpos, ins, b, unpack, need_try, cleanBuild, walk>>
=============================================================================
