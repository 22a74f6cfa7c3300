------------------------------- MODULE PycRef -------------------------------
(***************************************************************************)
(* Reference counting.  Every object of a file (PycObject) and every node  *)
(* of a tree (ASTNode) carries the number of references to it and deletes  *)
(* itself when that falls to zero; a PycRef adds and drops one as it is    *)
(* made, copied, moved, assigned and destroyed.  A destructor destroys the *)
(* references the object has as members, which may delete more objects, in *)
(* the middle of an assignment: operator= drops the old object before it   *)
(* stores the new one.                                                     *)
(***************************************************************************)
EXTENDS Integers, FiniteSets

CONSTANTS
  Objects,      \* the memory: each holds one object at a time
  Variables,    \* references that are locals, globals or in containers
  Members,      \* the references an object has as members
  Null,         \* the null pointer
  Arg,          \* the pointer operator=(_Obj*) is called with
  None,         \* no reference
  MaxLost       \* bound: how often an object loses a count by move assignment

InObjects == Objects \X Members
Ref == Variables \cup InObjects

ASSUME Finite == IsFiniteSet(Objects) /\ IsFiniteSet(Variables) /\ IsFiniteSet(Members)
ASSUME Distinct ==
  /\ Variables \cap InObjects = {}
  /\ Null \notin Objects /\ Arg \notin Ref /\ None \notin Ref /\ None # Arg
ASSUME Bound == MaxLost \in Nat

VARIABLES
  status,       \* of the memory: "free", "live", or "dying": in its destructor
  refs,         \* m_refs
  obj,          \* m_obj of each reference, and the parameter Arg
  target,       \* the reference operator= is assigning to, after delRef
  source,       \* where operator= will read the new pointer from
  lost          \* history: references move assignment overwrote, never dropped

vars == <<status, refs, obj, target, source, lost>>

-----------------------------------------------------------------------------
\* The counter

AddRef(count, o) == IF o = Null THEN count ELSE [count EXCEPT ![o] = @ + 1]
DelRef(count, o) == IF o = Null THEN count ELSE [count EXCEPT ![o] = @ - 1]

\* mutant: one reference too late
ZeroPassed(count, o) == o # Null /\ count[o] < 0

\* delRef deletes the object
Zero(count, o) == o # Null /\ count[o] = 0

Deleted(count, o) == IF Zero(count, o) THEN [status EXCEPT ![o] = "dying"] ELSE status

Drop(o) ==
  /\ refs' = DelRef(refs, o)
  /\ status' = Deleted(DelRef(refs, o), o)

\* mutant: the old object is dropped before the new one is counted
SwapDropFirst(old, new) ==
  /\ refs' = AddRef(DelRef(refs, old), new)
  /\ status' = Deleted(DelRef(refs, old), old)

\* the two calls of operator=: the new object may be the old one
SwapCounts(old, new) ==
  LET after == DelRef(AddRef(refs, new), old)
  IN refs' = after /\ status' = Deleted(after, old)

-----------------------------------------------------------------------------
\* The program

\* No destructor or assignment is running: it is one thread.
Idle == target = None /\ \A o \in Objects : status[o] # "dying"

\* The program gets at a member through a variable that holds the object.
ReachedThrough(vs, r) ==
  r \in Variables \/ (r \in InObjects /\ \E v \in vs : obj[v] = r[1])
Reached(r) == ReachedThrough(Variables, r)

Init ==
  /\ status = [o \in Objects |-> "free"]
  /\ refs = [o \in Objects |-> 0]
  /\ obj = [r \in Ref \cup {Arg} |-> Null]
  /\ target = None /\ source = None
  /\ lost = [o \in Objects |-> 0]

Stable == UNCHANGED <<target, source, lost>>

\* PycRef(_Obj*) with a new object
New(to) ==
  /\ Idle /\ Reached(to) /\ obj[to] = Null
  /\ \E o \in Objects :
       /\ status[o] = "free"
       /\ status' = [status EXCEPT ![o] = "live"]
       /\ refs' = [refs EXCEPT ![o] = 1]
       /\ obj' = [obj EXCEPT ![to] = o]
  /\ Stable

\* PycRef(const PycRef&), and PycRef(_Obj*) with another reference's pointer:
\* cast, try_cast, a conversion to the base class
CopyConstruct(to, from) ==
  /\ Idle /\ Reached(to) /\ Reached(from) /\ obj[to] = Null
  /\ refs' = AddRef(refs, obj[from])
  /\ obj' = [obj EXCEPT ![to] = obj[from]]
  /\ UNCHANGED status /\ Stable

\* mutant: the source keeps its pointer
MovedAndKept(to, from) == [obj EXCEPT ![to] = obj[from]]

Moved(to, from) == [obj EXCEPT ![to] = obj[from], ![from] = Null]

\* PycRef(PycRef&&)
MoveConstruct(to, from) ==
  /\ Idle /\ Reached(to) /\ Reached(from) /\ obj[to] = Null
  /\ obj' = Moved(to, from)
  /\ UNCHANGED <<status, refs>> /\ Stable

\* ~PycRef of a variable, or of an element taken out of an object's list
Destruct(r) ==
  /\ Idle /\ Reached(r)
  /\ Drop(obj[r])
  /\ obj' = [obj EXCEPT ![r] = Null]
  /\ Stable

\* operator=(const PycRef&): the pointer is read again after delRef, so the
\* source may not be a member that only the target keeps
CopyAssign(to, from) ==
  /\ Idle /\ Reached(to) /\ ReachedThrough(Variables \ {to}, from)
  /\ SwapCounts(obj[to], obj[from])
  /\ target' = to /\ source' = from
  /\ UNCHANGED <<obj, lost>>

\* operator=(_Obj*) with the pointer of another reference
AssignPointer(to, from) ==
  /\ Idle /\ Reached(to) /\ Reached(from)
  /\ SwapCounts(obj[to], obj[from])
  /\ obj' = [obj EXCEPT ![Arg] = obj[from]]
  /\ target' = to /\ source' = Arg
  /\ UNCHANGED lost

\* operator=(_Obj*) with a new object
AssignNew(to) ==
  /\ Idle /\ Reached(to)
  /\ \E o \in Objects :
       /\ status[o] = "free"
       /\ LET after == DelRef([refs EXCEPT ![o] = 1], obj[to])
          IN /\ refs' = after
             /\ status' = [Deleted(after, obj[to]) EXCEPT ![o] = "live"]
       /\ obj' = [obj EXCEPT ![Arg] = o]
  /\ target' = to /\ source' = Arg
  /\ UNCHANGED lost

\* the last line of operator=, when all that delRef deleted is gone
EndAssign ==
  /\ target # None /\ \A o \in Objects : status[o] # "dying"
  /\ obj' = [obj EXCEPT ![target] = obj[source], ![Arg] = Null]
  /\ target' = None /\ source' = None
  /\ UNCHANGED <<status, refs, lost>>

\* operator=(PycRef&&) drops nothing
MoveAssign(to, from) ==
  /\ Idle /\ Reached(to) /\ Reached(from)
  /\ obj[to] # Null => lost[obj[to]] < MaxLost
  /\ obj' = Moved(to, from)
  /\ lost' = AddRef(lost, obj[to])
  /\ UNCHANGED <<status, refs, target, source>>

\* mutant: the reference is left in place, to be destroyed again
DestroyMemberAgain(r) ==
  /\ r \in InObjects /\ status[r[1]] = "dying" /\ obj[r] # Null
  /\ Drop(obj[r])
  /\ UNCHANGED obj /\ Stable

\* Destructors.  Those of several objects nest; any order is allowed here.
DestroyMember(r) ==
  /\ r \in InObjects /\ status[r[1]] = "dying" /\ obj[r] # Null
  /\ Drop(obj[r])
  /\ obj' = [obj EXCEPT ![r] = Null]
  /\ Stable

Free(o) ==
  /\ status[o] = "dying" /\ \A m \in Members : obj[<<o, m>>] = Null
  /\ status' = [status EXCEPT ![o] = "free"]
  /\ UNCHANGED <<refs, obj>> /\ Stable

Unwind ==
  \/ EndAssign
  \/ \E r \in InObjects : DestroyMember(r)
  \/ \E o \in Objects : Free(o)

Use ==
  \/ \E r \in Ref : New(r) \/ Destruct(r) \/ AssignNew(r)
  \/ \E to, from \in Ref :
       \/ CopyConstruct(to, from) \/ MoveConstruct(to, from)
       \/ CopyAssign(to, from) \/ AssignPointer(to, from) \/ MoveAssign(to, from)

Next == Use \/ Unwind

Spec == Init /\ [][Next]_vars

(* One thread: a destructor or an assignment that has begun goes on.       *)
FairSpec == Spec /\ WF_vars(Unwind)

-----------------------------------------------------------------------------
\* Properties

\* What each reference holds.  While an assignment waits for a destructor its
\* target still names the old object, which may be gone, and stands for the
\* new one, which has been counted.
held == [r \in Ref |-> IF r = target THEN obj[source] ELSE obj[r]]

HoldersOf(h, o) == {r \in Ref : h[r] = o}
Holders(o) == HoldersOf(held, o)

TypeOK ==
  /\ status \in [Objects -> {"free", "live", "dying"}]
  /\ refs \in [Objects -> Int] /\ lost \in [Objects -> Nat]
  /\ obj \in [Ref \cup {Arg} -> Objects \cup {Null}]
  /\ target \in Ref \cup {None}
  /\ source \in Ref \cup {Arg, None}
  /\ target = None <=> source = None

(* Every count is the number of references that hold the object and of     *)
(* those that move assignment overwrote, in the middle of an assignment    *)
(* and of a chain of destructors too.                                      *)
Counted == \A o \in Objects : refs[o] = Cardinality(Holders(o)) + lost[o]

\* the memory a reference lies in has not been freed
InMemory(r) == r \in InObjects => status[r[1]] # "free"

(* No reference, not even one in an object that is being destroyed, holds  *)
(* an object that was deleted, and an assignment that waited for a         *)
(* destructor reads and writes references that still exist: delRef before  *)
(* the store deletes neither the new object nor the place of the source or *)
(* the target.                                                             *)
NoDangling ==
  /\ \A r \in Ref : held[r] # Null => status[held[r]] = "live"
  /\ InMemory(target) /\ InMemory(source)

(* No object is left alive that nothing holds, unless a move assignment    *)
(* has lost a count of it: the last reference that goes takes it along, in *)
(* whichever of the constructors, assignments and destructors it goes.     *)
KeptByHolder == \A o \in Objects : status[o] = "live" => Holders(o) # {} \/ lost[o] > 0

\* what is to be done before the program goes on, at most: an assignment may
\* fill a member when it ends
NotFree == {o \in Objects : status[o] # "free"}
Filled  == {r \in InObjects : obj[r] # Null}
Pending == (IF target = None THEN 0 ELSE 2) + Cardinality(NotFree) + Cardinality(Filled)

(* A chain of destructors comes to an end, and with it the assignment in   *)
(* the middle of which it runs, though every one of them may start others: *)
(* each step of it empties a member, gives memory back or ends the         *)
(* assignment, and none fills what another has emptied.                    *)
Unwinds == [][~Idle => Pending' < Pending]_vars

\* nothing holds the object, and no count of it was lost
Unheld(o) == status[o] # "free" /\ Holders(o) = {} /\ lost[o] = 0

(* An object that nothing holds any more is deleted and its memory given   *)
(* back, with all that only it kept, unless a move assignment has lost a   *)
(* count of it.                                                            *)
Freed == \A o \in Objects : Unheld(o) ~> status[o] = "free"
=============================================================================
