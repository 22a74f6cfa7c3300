---------------------------- MODULE StackHistory ----------------------------
(***************************************************************************)
(* What BuildFromCode expects of its operand stack and of the history of   *)
(* saved stacks: a sequence and a sequence of sequences.                   *)
(***************************************************************************)
EXTENDS Integers, Sequences

CONSTANTS Node, Null
VARIABLES st, saved

INSTANCE NodeStack

Init == st = EmptyStack /\ saved = <<>>

Push == \E n \in Node \cup {Null} : st' = PushTo(st, n) /\ UNCHANGED saved

Pop == st' = PopFrom(st) /\ UNCHANGED saved

Save == saved' = Append(saved, st) /\ UNCHANGED st

Restore ==
  /\ saved # <<>>
  /\ st' = saved[Len(saved)]
  /\ saved' = SubSeq(saved, 1, Len(saved) - 1)

Forget ==
  /\ saved # <<>>
  /\ saved' = SubSeq(saved, 1, Len(saved) - 1)
  /\ UNCHANGED st

Next == Push \/ Pop \/ Save \/ Restore \/ Forget

Spec == Init /\ [][Next]_<<st, saved>>
=============================================================================
