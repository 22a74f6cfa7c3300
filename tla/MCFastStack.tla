---------------------------- MODULE MCFastStack ----------------------------
(***************************************************************************)
(* Small instance of FastStack: two nodes, an array that has to grow, and  *)
(* a history that can be saved into while it is being reused.              *)
(***************************************************************************)
EXTENDS FastStack

CONSTANTS MaxDepth,    \* bound on the live cells of the working stack
          MaxHist      \* bound on the saved copies

Bounded ==
  /\ stack.top <= MaxDepth
  /\ Len(hist) <= MaxHist

=============================================================================
