-------------------------- MODULE InstructionStream --------------------------
(***************************************************************************)
(* What the readers of a code object's bytes promise to BuildFromCode, to  *)
(* opcode_at and to the disassembler: the instructions of the program, in  *)
(* order, each once.  "done" is said when all of them were delivered; if   *)
(* the bytes end too early the process exits instead.                      *)
(***************************************************************************)
EXTENDS Naturals, Sequences

CONSTANT Streams      \* sequences of instructions

VARIABLES stream,     \* the one that is read
          delivered,  \* what was delivered of it
          state

vars == <<stream, delivered, state>>

Init ==
  /\ stream \in Streams
  /\ delivered = <<>>
  /\ state = "reading"

Deliver ==
  /\ state = "reading"
  /\ Len(delivered) < Len(stream)
  /\ delivered' = Append(delivered, stream[Len(delivered) + 1])
  /\ UNCHANGED <<stream, state>>

Finish ==
  /\ state = "reading"
  /\ delivered = stream
  /\ state' = "done"
  /\ UNCHANGED <<stream, delivered>>

BreakOff ==
  /\ state = "reading"
  /\ state' = "exit"
  /\ UNCHANGED <<stream, delivered>>

Next == Deliver \/ Finish \/ BreakOff

Spec == Init /\ [][Next]_vars

\* it does not keep its client waiting
FairSpec == Spec /\ WF_vars(Next)

=============================================================================
