------------------------------ MODULE FastStack ------------------------------
(***************************************************************************)
(* FastStack.h: the array with a cursor that BuildFromCode uses as operand *)
(* stack, together with the history of saved copies (stackhist_t) that it  *)
(* keeps beside it: entering a block saves a copy of the stack, leaving it *)
(* brings the copy back or throws it away.                                 *)
(*                                                                         *)
(* The array is m_stack, 1-based here; top is the number of live cells,    *)
(* that is m_ptr + 1.                                                      *)
(***************************************************************************)
EXTENDS Integers, Sequences

CONSTANTS Node,        \* the AST nodes
          Null,        \* the null PycRef
          InitSize     \* co_stacksize: the size the array starts with

ASSUME NodeAssumption == Null \notin Node
ASSUME InitSizeAssumption == InitSize \in Nat

VARIABLES stack,       \* the working FastStack: [cells, top]
          hist         \* stack_hist: the saved copies, oldest first

vars == <<stack, hist>>

FastStackType == [cells : Seq(Node \cup {Null}), top : Nat]

-----------------------------------------------------------------------------
(* The member functions *)

NewFastStack(size) == [cells |-> [i \in 1 .. size |-> Null], top |-> 0]

\* the array with room for one more cell
GrownCells(fs) ==
  IF Len(fs.cells) = fs.top THEN Append(fs.cells, Null) ELSE fs.cells

FsPush(fs, n) ==
  [cells |-> [GrownCells(fs) EXCEPT ![fs.top + 1] = n], top |-> fs.top + 1]

\* mutant: the popped cell keeps its reference
FsPopKeepsNode(fs) ==
  IF fs.top > 0 THEN [cells |-> fs.cells, top |-> fs.top - 1] ELSE fs

FsPop(fs) ==
  IF fs.top > 0
  THEN [cells |-> [fs.cells EXCEPT ![fs.top] = Null], top |-> fs.top - 1]
  ELSE fs

\* mutant: off by one from the cursor
FsTopShifted(fs, i) ==
  IF i > 0 /\ fs.top - i >= 1 THEN fs.cells[fs.top - i] ELSE Null

\* top(i): a non-positive i is refused and reads as null
FsTop(fs, i) ==
  IF i > 0 /\ fs.top + 1 - i >= 1 THEN fs.cells[fs.top + 1 - i] ELSE Null

FsEmpty(fs) == fs.top = 0

-----------------------------------------------------------------------------
Init ==
  /\ stack = NewFastStack(InitSize)
  /\ hist = <<>>

Push ==
  /\ \E n \in Node \cup {Null} : stack' = FsPush(stack, n)
  /\ UNCHANGED hist

Pop ==
  /\ stack' = FsPop(stack)
  /\ UNCHANGED hist

\* stack_hist.push(stack): the copy constructor
Save ==
  /\ hist' = Append(hist, stack)
  /\ UNCHANGED stack

\* mutant: the oldest copy comes back instead of the newest
RestoreOldest ==
  /\ hist # <<>>
  /\ stack' = hist[1]
  /\ hist' = Tail(hist)

\* stack = stack_hist.top(); stack_hist.pop()
Restore ==
  /\ hist # <<>>
  /\ stack' = hist[Len(hist)]
  /\ hist' = SubSeq(hist, 1, Len(hist) - 1)

\* stack_hist.pop()
Forget ==
  /\ hist # <<>>
  /\ hist' = SubSeq(hist, 1, Len(hist) - 1)
  /\ UNCHANGED stack

Next == Push \/ Pop \/ Save \/ Restore \/ Forget

Spec == Init /\ [][Next]_vars

-----------------------------------------------------------------------------
(* Every reachable FastStack is well formed: the cursor stays inside the   *)
(* array, and no cell above the cursor still holds a reference (a popped   *)
(* node would otherwise be kept alive, and show up again in a copy).       *)
WellFormed(fs) ==
  /\ fs \in FastStackType
  /\ fs.top <= Len(fs.cells)
  /\ \A i \in fs.top + 1 .. Len(fs.cells) : fs.cells[i] = Null

(* The cursor and the dead cells are right in the working stack and in     *)
(* every saved copy: m_stack[++m_ptr] and m_stack[m_ptr--] never leave the *)
(* vector, in any order of saves, restores and growth.                     *)
CellsOK ==
  /\ WellFormed(stack)
  /\ hist \in Seq(FastStackType)
  /\ \A i \in DOMAIN hist : WellFormed(hist[i])

-----------------------------------------------------------------------------
(* The abstract stack: the live cells, bottom first *)
Live(fs) == SubSeq(fs.cells, 1, fs.top)

Abstract == INSTANCE StackHistory
              WITH st <- Live(stack),
                   saved <- [i \in DOMAIN hist |-> Live(hist[i])]

(* Reads agree with the abstract stack at every depth, in range or not:    *)
(* the handlers read operands with top(i) and take null for a missing one. *)
ReadsAgree ==
  \A i \in 0 .. Len(stack.cells) + 1 : FsTop(stack, i) = Abstract!TopAt(Live(stack), i)

(* FastStack implements a plain stack with saved copies: writing to the    *)
(* working stack after a save never changes a saved copy, and growth or    *)
(* the reuse of a freed cell never shows.                                  *)
Refinement == Abstract!Spec
==============================================================================
