------------------------------ MODULE NodeStack ------------------------------
(***************************************************************************)
(* What the operand stack of the decompiler promises: a sequence whose     *)
(* last element is the top.  The class FastStack (FastStack.h) keeps it in *)
(* a growing array with a cursor; FastStack.tla models that array and      *)
(* FastStackProofs.tla shows that it implements these operators.           *)
(*                                                                         *)
(* Two conventions of the class are part of the promise, because the       *)
(* handlers of BuildFromCode rely on them: popping an empty stack changes  *)
(* nothing, and reading below the bottom yields the null reference.        *)
(***************************************************************************)
LOCAL INSTANCE Naturals
LOCAL INSTANCE Sequences

CONSTANT Null          \* the null PycRef

EmptyStack == <<>>

IsEmpty(s) == s = <<>>

PushTo(s, n) == Append(s, n)

PopFrom(s) == IF s = <<>> THEN s ELSE SubSeq(s, 1, Len(s) - 1)

\* top(i): the i-th element from the top, counted from one
TopAt(s, i) == IF i \in 1 .. Len(s) THEN s[Len(s) + 1 - i] ELSE Null

TopOf(s) == TopAt(s, 1)

\* n pops in a row; none for a count that is not positive
DropFrom(s, n) == IF n <= 0 THEN s ELSE SubSeq(s, 1, IF n < Len(s) THEN Len(s) - n ELSE 0)
==============================================================================
