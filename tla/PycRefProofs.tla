---------------------------- MODULE PycRefProofs ----------------------------
(***************************************************************************)
(* Reference counts are right, no reference dangles, no object outlives    *)
(* its last reference and every chain of destructors ends, for any number  *)
(* of objects, references and members.                                     *)
(***************************************************************************)
EXTENDS PycRef, FiniteSetTheorems, TLAPS

\* An object lives exactly as long as its count is not zero.
Alive == \A o \in Objects : status[o] = "live" <=> refs[o] > 0

\* Freed memory holds no references.
Emptied == \A r \in InObjects : status[r[1]] = "free" => obj[r] = Null

\* An assignment that waits is reached by variables other than its target.
Anchored ==
  target \in Ref =>
    /\ Reached(target)
    /\ source = Arg \/ (source \in Ref /\ ReachedThrough(Variables \ {target}, source))

IInv == TypeOK /\ Counted /\ Alive /\ Emptied /\ Anchored

\* a holder, if the reference holds that object
One(x, o) == IF x = o THEN 1 ELSE 0

-----------------------------------------------------------------------------
(* There are finitely many references.                                     *)
LEMMA RefFinite == IsFiniteSet(Ref)
BY Finite, FS_Product, FS_Union DEF Ref, InObjects

(* The holders of an object are counted by a number.                       *)
LEMMA HoldersCount ==
  ASSUME NEW h, NEW o
  PROVE  /\ Cardinality(HoldersOf(h, o)) \in Nat
         /\ Cardinality(HoldersOf(h, o)) = 0 <=> HoldersOf(h, o) = {}
<1>1. IsFiniteSet(HoldersOf(h, o))
  BY RefFinite, FS_Subset DEF HoldersOf
<1> QED  BY <1>1, FS_CardinalityType, FS_EmptySet

(* When one reference changes, what it held has a holder less and what it  *)
(* holds now one more.                                                     *)
LEMMA OneChange ==
  ASSUME NEW h, NEW g, NEW r \in Ref, NEW o \in Objects,
         \A q \in Ref \ {r} : g[q] = h[q]
  PROVE  Cardinality(HoldersOf(g, o))
           = Cardinality(HoldersOf(h, o)) + One(g[r], o) - One(h[r], o)
<1> DEFINE A == HoldersOf(h, o)
           B == HoldersOf(g, o)
           n == Cardinality(A)
<1>1. IsFiniteSet(A) /\ n \in Nat
  BY RefFinite, FS_Subset, FS_CardinalityType DEF HoldersOf
<1>2. r \in A <=> h[r] = o
  BY DEF HoldersOf
<1>3. CASE g[r] = o
  <2>1. B = A \cup {r}
    BY <1>3 DEF HoldersOf
  <2>2. Cardinality(A \cup {r}) = IF r \in A THEN n ELSE n + 1
    BY <1>1, FS_AddElement
  <2>3. One(g[r], o) = 1 /\ One(h[r], o) = (IF r \in A THEN 1 ELSE 0)
    BY <1>2, <1>3 DEF One
  <2> HIDE DEF A, B, n
  <2>4. Cardinality(B) = n + One(g[r], o) - One(h[r], o)
    BY <1>1, <2>1, <2>2, <2>3
  <2> QED  BY <2>4 DEF A, B, n
<1>4. CASE g[r] # o
  <2>1. B = A \ {r}
    BY <1>4 DEF HoldersOf
  <2>2. Cardinality(A \ {r}) = IF r \in A THEN n - 1 ELSE n
    BY <1>1, FS_RemoveElement
  <2>3. One(g[r], o) = 0 /\ One(h[r], o) = (IF r \in A THEN 1 ELSE 0)
    BY <1>2, <1>4 DEF One
  <2> HIDE DEF A, B, n
  <2>4. Cardinality(B) = n + One(g[r], o) - One(h[r], o)
    BY <1>1, <2>1, <2>2, <2>3
  <2> QED  BY <2>4 DEF A, B, n
<1> QED  BY <1>3, <1>4

(* A move changes two references: the object moved keeps its holders, the  *)
(* one overwritten has one less.                                           *)
LEMMA MoveChange ==
  ASSUME NEW h, NEW g, NEW to \in Ref, NEW from \in Ref, NEW o \in Objects,
         g[from] = Null, to # from => g[to] = h[from],
         \A q \in Ref \ {to, from} : g[q] = h[q]
  PROVE  Cardinality(HoldersOf(g, o)) = Cardinality(HoldersOf(h, o)) - One(h[to], o)
<1>1. PICK f : f = [q \in Ref |-> IF q = to THEN h[from] ELSE h[q]]
  OBVIOUS
<1>2. f[to] = h[from] /\ f[from] = h[from]
  BY <1>1
<1>3. \A q \in Ref \ {to} : f[q] = h[q]
  BY <1>1
<1>4. \A q \in Ref \ {from} : g[q] = f[q]
  BY <1>1
<1>5. Cardinality(HoldersOf(f, o))
        = Cardinality(HoldersOf(h, o)) + One(f[to], o) - One(h[to], o)
  BY <1>3, OneChange
<1>6. Cardinality(HoldersOf(g, o))
        = Cardinality(HoldersOf(f, o)) + One(g[from], o) - One(f[from], o)
  BY <1>4, OneChange
<1>7. One(g[from], o) = 0 /\ One(f[from], o) = One(f[to], o)
  BY <1>2, Distinct DEF One
<1>8. One(h[to], o) \in Int /\ One(f[to], o) \in Int
  BY DEF One
<1>9. Cardinality(HoldersOf(h, o)) \in Nat
  BY HoldersCount
<1> QED  BY <1>5, <1>6, <1>7, <1>8, <1>9

(* addRef and delRef, for every object.                                    *)
LEMMA AddCounts ==
  ASSUME NEW c \in [Objects -> Int], NEW new \in Objects \cup {Null}
  PROVE  /\ AddRef(c, new) \in [Objects -> Int]
         /\ \A o \in Objects : AddRef(c, new)[o] = c[o] + One(new, o)
BY Distinct DEF AddRef, One

LEMMA DropCounts ==
  ASSUME NEW c \in [Objects -> Int], NEW old \in Objects \cup {Null}
  PROVE  /\ DelRef(c, old) \in [Objects -> Int]
         /\ \A o \in Objects : DelRef(c, old)[o] = c[o] - One(old, o)
BY Distinct DEF DelRef, One

-----------------------------------------------------------------------------
(* What a reference holds is alive.                                        *)
LEMMA HeldLives ==
  ASSUME TypeOK, Counted, Alive, NEW r \in Ref, held[r] # Null
  PROVE  held[r] \in Objects /\ status[held[r]] = "live" /\ refs[held[r]] > 0
<1>1. held[r] \in Objects
  <2>1. held[r] = IF r = target THEN obj[source] ELSE obj[r]
    BY DEF held
  <2>2. r = target => source \in Ref \cup {Arg}
    BY Distinct DEF TypeOK
  <2> QED  BY <2>1, <2>2 DEF TypeOK
<1> DEFINE o == held[r]
<1>2. HoldersOf(held, o) # {}
  BY DEF HoldersOf
<1>3. Cardinality(HoldersOf(held, o)) \in Nat /\ Cardinality(HoldersOf(held, o)) > 0
  BY <1>2, HoldersCount
<1>4. refs[o] > 0
  BY <1>1, <1>3 DEF Counted, Holders, TypeOK
<1> QED  BY <1>1, <1>4 DEF Alive

(* A member that the program gets at is in a live object.                  *)
LEMMA ReachedLives ==
  ASSUME TypeOK, Counted, Alive, NEW r \in InObjects,
         NEW vs \in SUBSET Variables, target \notin vs, ReachedThrough(vs, r)
  PROVE  status[r[1]] = "live"
<1>1. r \notin Variables /\ r[1] \in Objects
  BY Distinct DEF InObjects
<1>2. PICK v \in vs : obj[v] = r[1]
  BY <1>1 DEF ReachedThrough
<1>3. v \in Ref /\ held[v] = r[1]
  BY <1>2 DEF held, Ref
<1> QED  BY <1>1, <1>3, HeldLives, Distinct

(* When one reference changes and the counts follow, they stay right.      *)
LEMMA Recount ==
  ASSUME TypeOK, Counted, NEW r \in Ref, \A q \in Ref \ {r} : held'[q] = held[q],
         lost' = lost,
         \A o \in Objects : refs'[o] = refs[o] + One(held'[r], o) - One(held[r], o)
  PROVE  Counted'
<1> SUFFICES ASSUME NEW o \in Objects
             PROVE  refs'[o] = Cardinality(HoldersOf(held', o)) + lost'[o]
  BY DEF Counted, Holders
<1>1. Cardinality(HoldersOf(held', o))
        = Cardinality(HoldersOf(held, o)) + One(held'[r], o) - One(held[r], o)
  BY OneChange
<1>2. refs[o] = Cardinality(HoldersOf(held, o)) + lost[o]
  BY DEF Counted, Holders
<1>3. Cardinality(HoldersOf(held, o)) \in Nat /\ lost[o] \in Nat
  BY HoldersCount DEF TypeOK
<1>4. One(held'[r], o) \in Int /\ One(held[r], o) \in Int
  BY DEF One
<1> QED  BY <1>1, <1>2, <1>3, <1>4

(* When one is moved, the object overwritten has a count too many.         *)
LEMMA MoveRecount ==
  ASSUME TypeOK, Counted, NEW to \in Ref, NEW from \in Ref,
         held'[from] = Null, to # from => held'[to] = held[from],
         \A q \in Ref \ {to, from} : held'[q] = held[q], refs' = refs,
         \A o \in Objects : lost'[o] = lost[o] + One(held[to], o)
  PROVE  Counted'
<1> SUFFICES ASSUME NEW o \in Objects
             PROVE  refs'[o] = Cardinality(HoldersOf(held', o)) + lost'[o]
  BY DEF Counted, Holders
<1>1. Cardinality(HoldersOf(held', o)) = Cardinality(HoldersOf(held, o)) - One(held[to], o)
  BY MoveChange
<1>2. refs[o] = Cardinality(HoldersOf(held, o)) + lost[o]
  BY DEF Counted, Holders
<1>3. /\ Cardinality(HoldersOf(held, o)) \in Nat /\ lost[o] \in Nat
      /\ One(held[to], o) \in Int
  BY HoldersCount DEF TypeOK, One
<1> QED  BY <1>1, <1>2, <1>3

(* When nothing held changes and no count, they stay right.                *)
LEMMA SameCount ==
  ASSUME Counted, held' = held, lost' = lost, refs' = refs
  PROVE  Counted'
BY DEF Counted, Holders

(* A count that was right and is dropped deletes the object exactly when   *)
(* it falls to zero.                                                       *)
LEMMA DropAlive ==
  ASSUME TypeOK, NEW count \in [Objects -> Int],
         \A o \in Objects : status[o] = "live" <=> count[o] > 0,
         NEW old \in Objects \cup {Null}, old # Null => count[old] > 0,
         refs' = DelRef(count, old), status' = Deleted(DelRef(count, old), old)
  PROVE  /\ Alive'
         /\ status' \in [Objects -> {"free", "live", "dying"}]
         /\ \A o \in Objects : status'[o] = "free" <=> status[o] = "free"
BY Distinct DEF TypeOK, Alive, DelRef, Deleted, Zero

(* Counting one more reference to a live object changes nothing in that.   *)
LEMMA AddAlive ==
  ASSUME TypeOK, Alive, NEW new \in Objects \cup {Null},
         new # Null => status[new] = "live" /\ refs[new] > 0
  PROVE  \A o \in Objects : status[o] = "live" <=> AddRef(refs, new)[o] > 0
BY Distinct DEF TypeOK, Alive, AddRef

(* Freed memory stays without references if only other memory is written.  *)
LEMMA StaysEmptied ==
  ASSUME Emptied,
         \A r \in InObjects :
           obj'[r] = Null \/ status'[r[1]] # "free"
             \/ (obj'[r] = obj[r] /\ status[r[1]] = "free")
  PROVE  Emptied'
BY DEF Emptied

-----------------------------------------------------------------------------
(* The first state.                                                        *)
LEMMA Start == Init => IInv
<1> SUFFICES ASSUME Init PROVE IInv
  OBVIOUS
<1>1. TypeOK
  BY DEF Init, TypeOK
<1>2. \A o \in Objects : HoldersOf(held, o) = {}
  BY Distinct DEF Init, held, HoldersOf
<1>3. Counted
  BY <1>2, FS_EmptySet DEF Init, Counted, Holders
<1>4. Alive /\ Emptied /\ Anchored
  BY Distinct DEF Init, Alive, Emptied, Anchored, Ref, InObjects
<1> QED  BY <1>1, <1>3, <1>4 DEF IInv

(* While the program runs no assignment waits, and references hold what    *)
(* they name.                                                              *)
LEMMA WhenIdle ==
  ASSUME IInv, Idle
  PROVE  target = None /\ held = [r \in Ref |-> obj[r]]
BY Distinct DEF Idle, held

(* What a reference then names is alive.                                   *)
LEMMA NamedLives ==
  ASSUME IInv, Idle, NEW r \in Ref
  PROVE  /\ obj[r] \in Objects \cup {Null}
         /\ obj[r] # Null => status[obj[r]] = "live" /\ refs[obj[r]] > 0
<1>1. held[r] = obj[r] /\ TypeOK /\ Counted /\ Alive
  BY WhenIdle DEF IInv
<1>2. obj[r] \in Objects \cup {Null}
  BY <1>1 DEF TypeOK
<1> QED  BY <1>1, <1>2, HeldLives

(* And the object is alive that a member within reach lies in.             *)
LEMMA MemberLives ==
  ASSUME IInv, Idle, NEW r \in InObjects, Reached(r)
  PROVE  status[r[1]] = "live"
<1>1. target \notin Variables
  BY WhenIdle, Distinct DEF Ref
<1> QED  BY <1>1, ReachedLives DEF Reached, IInv

(* With no assignment under way, references hold what they name.           *)
LEMMA IdleAfter ==
  ASSUME target' = None
  PROVE  held' = [r \in Ref |-> obj'[r]] /\ Anchored'
BY Distinct DEF held, Anchored

(* Memory in which no object lives has no count.                           *)
LEMMA FreeCount ==
  ASSUME IInv, NEW o \in Objects, status[o] # "live"
  PROVE  refs[o] = 0 /\ Holders(o) = {} /\ lost[o] = 0
<1>1. refs[o] \in Int /\ ~(refs[o] > 0) /\ lost[o] \in Nat
  BY DEF IInv, TypeOK, Alive
<1>2. refs[o] = Cardinality(Holders(o)) + lost[o]
  BY DEF IInv, Counted
<1>3. Cardinality(Holders(o)) \in Nat /\ (Cardinality(Holders(o)) = 0 <=> Holders(o) = {})
  BY HoldersCount DEF Holders
<1> QED  BY <1>1, <1>2, <1>3

LEMMA NewStep ==
  ASSUME IInv, NEW to \in Ref, New(to)
  PROVE  IInv'
<1>1. /\ target = None /\ target' = None /\ source' = source /\ lost' = lost
      /\ obj[to] = Null /\ TypeOK /\ Idle /\ Reached(to)
  BY DEF New, Stable, Idle, IInv
<1>2. PICK o \in Objects :
        /\ status[o] = "free" /\ status' = [status EXCEPT ![o] = "live"]
        /\ refs' = [refs EXCEPT ![o] = 1] /\ obj' = [obj EXCEPT ![to] = o]
  BY DEF New
<1>3. TypeOK'
  BY <1>1, <1>2 DEF TypeOK
<1>4. refs[o] = 0
  BY <1>2, FreeCount
<1>5. Counted'
  <2>1. held' = [held EXCEPT ![to] = o] /\ held[to] = Null
    BY <1>1, <1>2, WhenIdle, IdleAfter DEF TypeOK
  <2>2. \A p \in Objects : refs'[p] = refs[p] + One(held'[to], p) - One(held[to], p)
    BY <1>1, <1>2, <1>4, <2>1, WhenIdle, Distinct DEF One, TypeOK
  <2>3. \A q \in Ref \ {to} : held'[q] = held[q]
    BY <2>1, <1>1, WhenIdle
  <2> QED  BY <1>1, <2>2, <2>3, Recount DEF IInv
<1>6. Alive'
  BY <1>1, <1>2 DEF IInv, Alive, TypeOK
<1>7. Emptied'
  <2>1. to \in InObjects => status[to[1]] = "live"
    BY <1>1, MemberLives
  <2>2. \A r \in InObjects : status'[r[1]] = "free" => status[r[1]] = "free" /\ obj'[r] = obj[r]
    BY <1>1, <1>2, <2>1 DEF InObjects, TypeOK, Ref
  <2> QED  BY <2>2, StaysEmptied DEF IInv
<1> QED  BY <1>1, <1>3, <1>5, <1>6, <1>7, IdleAfter DEF IInv

LEMMA CopyConstructStep ==
  ASSUME IInv, NEW to \in Ref, NEW from \in Ref, CopyConstruct(to, from)
  PROVE  IInv'
<1>1. /\ target = None /\ target' = None /\ source' = source /\ lost' = lost
      /\ obj[to] = Null /\ TypeOK /\ Idle /\ Reached(to) /\ status' = status
      /\ refs' = AddRef(refs, obj[from]) /\ obj' = [obj EXCEPT ![to] = obj[from]]
  BY DEF CopyConstruct, Stable, Idle, IInv
<1> DEFINE o == obj[from]
<1>2. o \in Objects \cup {Null} /\ (o # Null => status[o] = "live" /\ refs[o] > 0)
  BY <1>1, NamedLives
<1>3. /\ refs' \in [Objects -> Int]
      /\ \A p \in Objects : refs'[p] = refs[p] + One(o, p)
  BY <1>1, <1>2, AddCounts DEF TypeOK
<1>4. TypeOK'
  BY <1>1, <1>2, <1>3 DEF TypeOK
<1>5. Counted'
  <2>1. held' = [held EXCEPT ![to] = o] /\ held[to] = Null
    BY <1>1, WhenIdle, IdleAfter DEF TypeOK
  <2>2. held'[to] = o /\ \A q \in Ref \ {to} : held'[q] = held[q]
    BY <2>1, <1>1, WhenIdle
  <2>3. \A p \in Objects : refs'[p] = refs[p] + One(held'[to], p) - One(held[to], p)
    BY <1>1, <1>3, <2>1, <2>2, Distinct DEF One, TypeOK
  <2> QED  BY <1>1, <2>2, <2>3, Recount DEF IInv
<1>6. Alive'
  <2>1. \A p \in Objects : status[p] = "live" <=> AddRef(refs, o)[p] > 0
    BY <1>1, <1>2, AddAlive DEF IInv
  <2> QED  BY <1>1, <2>1 DEF Alive
<1>7. Emptied'
  <2>1. to \in InObjects => status[to[1]] = "live"
    BY <1>1, MemberLives
  <2>2. \A r \in InObjects : status'[r[1]] = "free" => status[r[1]] = "free" /\ obj'[r] = obj[r]
    BY <1>1, <2>1 DEF InObjects, TypeOK, Ref
  <2> QED  BY <2>2, StaysEmptied DEF IInv
<1> QED  BY <1>1, <1>4, <1>5, <1>6, <1>7, IdleAfter DEF IInv

LEMMA MoveConstructStep ==
  ASSUME IInv, NEW to \in Ref, NEW from \in Ref, MoveConstruct(to, from)
  PROVE  IInv'
<1>1. /\ target = None /\ target' = None /\ source' = source /\ lost' = lost
      /\ obj[to] = Null /\ TypeOK /\ Idle /\ Reached(to) /\ Reached(from)
      /\ status' = status /\ refs' = refs
      /\ obj' = [obj EXCEPT ![to] = obj[from], ![from] = Null]
  BY DEF MoveConstruct, Moved, Stable, Idle, IInv
<1>2. obj[from] \in Objects \cup {Null}
  BY <1>1, NamedLives
<1>3. TypeOK'
  BY <1>1, <1>2 DEF TypeOK
<1>4. Counted'
  <2>1. /\ held'[from] = Null /\ (to # from => held'[to] = held[from])
        /\ held[to] = Null
        /\ \A q \in Ref \ {to, from} : held'[q] = held[q]
    BY <1>1, WhenIdle, IdleAfter DEF TypeOK
  <2>2. \A o \in Objects : lost'[o] = lost[o] + One(held[to], o)
    BY <1>1, <2>1, Distinct DEF One, TypeOK
  <2> QED  BY <1>1, <2>1, <2>2, MoveRecount DEF IInv
<1>5. Alive'
  BY <1>1 DEF IInv, Alive
<1>6. Emptied'
  <2>1. to \in InObjects => status[to[1]] = "live"
    BY <1>1, MemberLives
  <2>2. \A r \in InObjects : r = to \/ obj'[r] = Null \/ obj'[r] = obj[r]
    BY <1>1 DEF TypeOK, Ref
  <2>3. \A r \in InObjects : obj'[r] = Null \/ status'[r[1]] # "free"
                               \/ (obj'[r] = obj[r] /\ status[r[1]] = "free")
    BY <1>1, <2>1, <2>2
  <2> QED  BY <2>3, StaysEmptied DEF IInv
<1> QED  BY <1>1, <1>3, <1>4, <1>5, <1>6, IdleAfter DEF IInv

LEMMA MoveAssignStep ==
  ASSUME IInv, NEW to \in Ref, NEW from \in Ref, MoveAssign(to, from)
  PROVE  IInv'
<1> DEFINE old == obj[to]
<1>1. /\ target = None /\ target' = None /\ source' = source
      /\ TypeOK /\ Idle /\ Reached(to) /\ Reached(from)
      /\ status' = status /\ refs' = refs /\ lost' = AddRef(lost, old)
      /\ obj' = [obj EXCEPT ![to] = obj[from], ![from] = Null]
  BY DEF MoveAssign, Moved, Idle, IInv
<1>2. obj[from] \in Objects \cup {Null} /\ old \in Objects \cup {Null}
  BY <1>1, NamedLives
<1>3. /\ lost' \in [Objects -> Nat]
      /\ \A o \in Objects : lost'[o] = lost[o] + One(old, o)
  BY <1>1, <1>2, Distinct DEF AddRef, One, TypeOK
<1>4. TypeOK'
  BY <1>1, <1>2, <1>3 DEF TypeOK
<1>5. Counted'
  <2>1. /\ held'[from] = Null /\ (to # from => held'[to] = held[from])
        /\ held[to] = old
        /\ \A q \in Ref \ {to, from} : held'[q] = held[q]
    BY <1>1, WhenIdle, IdleAfter DEF TypeOK
  <2> QED  BY <1>1, <1>3, <2>1, MoveRecount DEF IInv
<1>6. Alive'
  BY <1>1 DEF IInv, Alive
<1>7. Emptied'
  <2>1. to \in InObjects => status[to[1]] = "live"
    BY <1>1, MemberLives
  <2>2. \A r \in InObjects : r = to \/ obj'[r] = Null \/ obj'[r] = obj[r]
    BY <1>1 DEF TypeOK, Ref
  <2>3. \A r \in InObjects : obj'[r] = Null \/ status'[r[1]] # "free"
                               \/ (obj'[r] = obj[r] /\ status[r[1]] = "free")
    BY <1>1, <2>1, <2>2
  <2> QED  BY <2>3, StaysEmptied DEF IInv
<1> QED  BY <1>1, <1>4, <1>5, <1>6, <1>7, IdleAfter DEF IInv

(* Dropping what a reference names: a variable's destructor, an element    *)
(* taken out of a list, or a member of an object being destroyed.          *)
LEMMA DropStep ==
  ASSUME IInv, NEW r \in Ref, obj[r] # Null,
         r # target, r # source,
         held[r] = obj[r], Drop(obj[r]), obj' = [obj EXCEPT ![r] = Null], Stable
  PROVE  TypeOK' /\ Counted' /\ Alive' /\ Emptied'
<1> DEFINE old == obj[r]
<1>1. TypeOK /\ Counted /\ Alive
  BY DEF IInv
<1>2. old \in Objects /\ refs[old] > 0
  BY <1>1, HeldLives
<1>3. refs' = DelRef(refs, old) /\ status' = Deleted(DelRef(refs, old), old)
  BY DEF Drop
<1>4. /\ refs' \in [Objects -> Int]
      /\ \A o \in Objects : refs'[o] = refs[o] - One(old, o)
  BY <1>1, <1>2, <1>3, DropCounts DEF TypeOK
<1>5. /\ Alive' /\ status' \in [Objects -> {"free", "live", "dying"}]
      /\ \A o \in Objects : status'[o] = "free" <=> status[o] = "free"
  BY <1>1, <1>2, <1>3, DropAlive DEF TypeOK, Alive
<1>6. TypeOK'
  BY <1>1, <1>4, <1>5 DEF TypeOK, Stable
<1>7. Counted'
  <2>1. held' = [held EXCEPT ![r] = Null]
    BY <1>1, Distinct DEF held, Stable, TypeOK
  <2>2. held'[r] = Null /\ \A q \in Ref \ {r} : held'[q] = held[q]
    BY <2>1 DEF held
  <2>3. \A o \in Objects : refs'[o] = refs[o] + One(held'[r], o) - One(held[r], o)
    BY <1>1, <1>4, <2>2, Distinct DEF One, TypeOK
  <2> QED  BY <1>1, <2>2, <2>3, Recount DEF Stable
<1>8. Emptied'
  <2>1. \A q \in InObjects :
          status'[q[1]] = "free" => status[q[1]] = "free" /\ (obj'[q] = obj[q] \/ obj'[q] = Null)
    BY <1>1, <1>5 DEF InObjects, TypeOK, Ref
  <2> QED  BY <2>1, StaysEmptied DEF IInv
<1> QED  BY <1>5, <1>6, <1>7, <1>8

LEMMA DestructStep ==
  ASSUME IInv, NEW r \in Ref, Destruct(r)
  PROVE  IInv'
<1>1. /\ Idle /\ Drop(obj[r]) /\ obj' = [obj EXCEPT ![r] = Null] /\ Stable
      /\ target = None /\ target' = None /\ lost' = lost /\ TypeOK
      /\ held = [q \in Ref |-> obj[q]] /\ held' = [q \in Ref |-> obj'[q]]
  BY WhenIdle, IdleAfter DEF Destruct, Stable, IInv
<1>2. Anchored'
  BY <1>1, IdleAfter
<1>3. CASE obj[r] = Null
  <2>1. obj' = obj /\ refs' = refs /\ status' = status
    BY <1>1, <1>3 DEF TypeOK, Drop, DelRef, Deleted, Zero
  <2>2. TypeOK' /\ Alive' /\ Emptied'
    BY <1>1, <2>1 DEF IInv, TypeOK, Alive, Emptied, Stable
  <2>3. Counted'
    BY <1>1, <2>1, SameCount DEF IInv
  <2> QED  BY <1>2, <2>2, <2>3 DEF IInv
<1>4. CASE obj[r] # Null
  <2>1. r # target /\ r # source /\ held[r] = obj[r]
    BY <1>1, Distinct DEF TypeOK
  <2> QED  BY <1>1, <1>2, <1>4, <2>1, DropStep DEF IInv
<1> QED  BY <1>3, <1>4

(* A member of an object that is being destroyed is no end of an           *)
(* assignment: what an assignment reads and writes is in live objects.     *)
LEMMA NoEndDies ==
  ASSUME IInv, NEW r \in InObjects, DestroyMember(r)
  PROVE  r \in Ref /\ r \notin Variables /\ r # target /\ r # source
<1>1. /\ status[r[1]] = "dying" /\ obj[r] # Null /\ Drop(obj[r]) /\ Stable
      /\ obj' = [obj EXCEPT ![r] = Null] /\ TypeOK /\ Counted /\ Alive /\ Anchored
  BY DEF DestroyMember, IInv
<1>2. r \in Ref /\ r \notin Variables
  BY Distinct DEF Ref
<1>3. ASSUME NEW vs \in SUBSET Variables, target \notin vs, ReachedThrough(vs, r)
      PROVE  FALSE
  BY <1>1, <1>3, ReachedLives
<1>4. r # target
  <2> SUFFICES ASSUME r = target PROVE FALSE
    OBVIOUS
  <2>1. target \notin Variables /\ Reached(r)
    BY <1>1, <1>2 DEF Anchored
  <2> QED  BY <1>3, <2>1 DEF Reached
<1>5. r # source
  <2> SUFFICES ASSUME r = source PROVE FALSE
    OBVIOUS
  <2>1. target \in Ref /\ source # Arg
    BY <1>1, <1>2, Distinct DEF TypeOK
  <2>2. ReachedThrough(Variables \ {target}, r)
    BY <1>1, <2>1 DEF Anchored
  <2> QED  BY <1>3, <2>2
<1> QED  BY <1>2, <1>4, <1>5

LEMMA DestroyMemberStep ==
  ASSUME IInv, NEW r \in InObjects, DestroyMember(r)
  PROVE  IInv'
<1>1. /\ status[r[1]] = "dying" /\ obj[r] # Null /\ Drop(obj[r]) /\ Stable
      /\ obj' = [obj EXCEPT ![r] = Null] /\ TypeOK /\ Counted /\ Alive /\ Anchored
  BY DEF DestroyMember, IInv
<1>2. r \in Ref /\ r \notin Variables /\ r # target /\ r # source
  BY NoEndDies
<1>6. TypeOK' /\ Counted' /\ Alive' /\ Emptied'
  BY <1>1, <1>2, DropStep DEF held
<1>7. Anchored'
  <2>1. \A v \in Variables : obj'[v] = obj[v]
    BY <1>1, <1>2 DEF TypeOK, Ref
  <2> QED  BY <1>1, <2>1 DEF Anchored, Stable, Reached, ReachedThrough
<1> QED  BY <1>6, <1>7 DEF IInv

LEMMA FreeStep ==
  ASSUME IInv, NEW o \in Objects, Free(o)
  PROVE  IInv'
<1>1. /\ status[o] = "dying" /\ \A m \in Members : obj[<<o, m>>] = Null
      /\ status' = [status EXCEPT ![o] = "free"] /\ refs' = refs /\ obj' = obj
      /\ target' = target /\ source' = source /\ lost' = lost
      /\ TypeOK /\ Counted /\ Alive /\ Emptied /\ Anchored
  BY DEF Free, Stable, IInv
<1>2. TypeOK' /\ Alive'
  BY <1>1 DEF TypeOK, Alive
<1>3. Counted' /\ Anchored'
  BY <1>1, SameCount DEF held, Anchored, Reached, ReachedThrough
<1>4. Emptied'
  <2>1. \A r \in InObjects : r[1] = o => obj[r] = Null
    BY <1>1 DEF InObjects
  <2> QED  BY <1>1, <2>1 DEF Emptied, InObjects, TypeOK
<1> QED  BY <1>2, <1>3, <1>4 DEF IInv

LEMMA EndAssignStep ==
  ASSUME IInv, EndAssign
  PROVE  IInv'
<1>1. /\ target \in Ref /\ target' = None /\ source' = None /\ TypeOK /\ Anchored
      /\ obj' = [obj EXCEPT ![target] = obj[source], ![Arg] = Null]
      /\ status' = status /\ refs' = refs /\ lost' = lost
  BY DEF EndAssign, IInv, TypeOK
<1>2. source \in Ref \cup {Arg} /\ obj[source] \in Objects \cup {Null}
  BY <1>1 DEF Anchored, TypeOK
<1>3. TypeOK'
  BY <1>1, <1>2, Distinct DEF TypeOK
<1>4. held' = held
  <2>1. \A r \in Ref : obj'[r] = IF r = target THEN obj[source] ELSE obj[r]
    BY <1>1, Distinct DEF TypeOK
  <2>2. held' = [r \in Ref |-> obj'[r]]
    BY <1>1, IdleAfter
  <2> QED  BY <2>1, <2>2 DEF held
<1>5. Counted' /\ Alive' /\ Anchored'
  BY <1>1, <1>4, SameCount, IdleAfter DEF IInv, Alive
<1>6. Emptied'
  <2>1. target \in InObjects => status[target[1]] = "live"
    <3> SUFFICES ASSUME target \in InObjects PROVE status[target[1]] = "live"
      OBVIOUS
    <3>1. target \notin Variables /\ ReachedThrough(Variables, target)
      BY <1>1, Distinct DEF Anchored, Reached
    <3> QED  BY <3>1, ReachedLives DEF IInv
  <2>2. \A r \in InObjects : r # target => obj'[r] = obj[r]
    BY <1>1, Distinct DEF TypeOK, Ref
  <2>3. \A r \in InObjects : obj'[r] = Null \/ status'[r[1]] # "free"
                               \/ (obj'[r] = obj[r] /\ status[r[1]] = "free")
    BY <1>1, <2>1, <2>2
  <2> QED  BY <2>3, StaysEmptied DEF IInv
<1> QED  BY <1>3, <1>5, <1>6 DEF IInv

(* The two calls of operator=, whatever the new object: its count is not   *)
(* zero, so that of the old one decides whether the old one is deleted.    *)
LEMMA SwapStep ==
  ASSUME IInv, Idle, NEW to \in Ref, NEW new \in Objects \cup {Null},
         new # Null => status[new] = "live" /\ refs[new] > 0,
         SwapCounts(obj[to], new), lost' = lost,
         held'[to] = new, \A q \in Ref \ {to} : held'[q] = held[q],
         \A r \in InObjects : obj'[r] = obj[r]
  PROVE  /\ refs' \in [Objects -> Int]
         /\ status' \in [Objects -> {"free", "live", "dying"}]
         /\ Counted' /\ Alive' /\ Emptied'
<1> DEFINE old == obj[to]
           up == AddRef(refs, new)
<1>1. TypeOK /\ Counted /\ Alive /\ held[to] = old
  BY WhenIdle DEF IInv
<1>2. old \in Objects \cup {Null} /\ (old # Null => refs[old] > 0)
  BY NamedLives
<1>3. /\ up \in [Objects -> Int]
      /\ \A o \in Objects : up[o] = refs[o] + One(new, o)
  BY <1>1, AddCounts DEF TypeOK
<1>4. \A o \in Objects : status[o] = "live" <=> up[o] > 0
  BY <1>1, AddAlive
<1>5. refs' = DelRef(up, old) /\ status' = Deleted(DelRef(up, old), old)
  BY DEF SwapCounts
<1> HIDE DEF up
<1>6. /\ refs' \in [Objects -> Int]
      /\ \A o \in Objects : refs'[o] = up[o] - One(old, o)
  BY <1>2, <1>3, <1>5, DropCounts
<1>7. old # Null => up[old] > 0
  BY <1>1, <1>2, <1>4 DEF Alive
<1>8. /\ Alive' /\ status' \in [Objects -> {"free", "live", "dying"}]
      /\ \A o \in Objects : status'[o] = "free" <=> status[o] = "free"
  BY <1>1, <1>2, <1>3, <1>4, <1>5, <1>7, DropAlive
<1>9. Counted'
  <2>1. ASSUME NEW o \in Objects
        PROVE  refs'[o] = refs[o] + One(held'[to], o) - One(held[to], o)
    BY <1>1, <1>3, <1>6 DEF TypeOK, One
  <2> QED  BY <1>1, <2>1, Recount
<1>10. Emptied'
  <2>1. \A r \in InObjects : obj'[r] = Null \/ status'[r[1]] # "free"
                               \/ (obj'[r] = obj[r] /\ status[r[1]] = "free")
    BY <1>8 DEF InObjects
  <2> QED  BY <2>1, StaysEmptied DEF IInv
<1> QED  BY <1>6, <1>8, <1>9, <1>10

LEMMA CopyAssignStep ==
  ASSUME IInv, NEW to \in Ref, NEW from \in Ref, CopyAssign(to, from)
  PROVE  IInv'
<1>1. /\ Idle /\ Reached(to) /\ ReachedThrough(Variables \ {to}, from)
      /\ SwapCounts(obj[to], obj[from]) /\ target' = to /\ source' = from
      /\ obj' = obj /\ lost' = lost /\ TypeOK /\ target = None
  BY DEF CopyAssign, Idle, IInv
<1>2. obj[from] \in Objects \cup {Null}
      /\ (obj[from] # Null => status[obj[from]] = "live" /\ refs[obj[from]] > 0)
  BY <1>1, NamedLives
<1>3. held'[to] = obj[from] /\ \A q \in Ref \ {to} : held'[q] = held[q]
  BY <1>1, WhenIdle DEF held
<1>4. /\ refs' \in [Objects -> Int]
      /\ status' \in [Objects -> {"free", "live", "dying"}]
      /\ Counted' /\ Alive' /\ Emptied'
  BY <1>1, <1>2, <1>3, SwapStep
<1>5. TypeOK'
  BY <1>1, <1>4, Distinct DEF TypeOK
<1>6. Anchored'
  BY <1>1 DEF Anchored, Reached, ReachedThrough
<1> QED  BY <1>4, <1>5, <1>6 DEF IInv

LEMMA AssignPointerStep ==
  ASSUME IInv, NEW to \in Ref, NEW from \in Ref, AssignPointer(to, from)
  PROVE  IInv'
<1>1. /\ Idle /\ Reached(to) /\ SwapCounts(obj[to], obj[from])
      /\ target' = to /\ source' = Arg /\ obj' = [obj EXCEPT ![Arg] = obj[from]]
      /\ lost' = lost /\ TypeOK /\ target = None
  BY DEF AssignPointer, Idle, IInv
<1>2. obj[from] \in Objects \cup {Null}
      /\ (obj[from] # Null => status[obj[from]] = "live" /\ refs[obj[from]] > 0)
  BY <1>1, NamedLives
<1>3. obj'[Arg] = obj[from] /\ \A r \in Ref : obj'[r] = obj[r]
  BY <1>1, Distinct DEF TypeOK
<1>4. held'[to] = obj[from] /\ \A q \in Ref \ {to} : held'[q] = held[q]
  BY <1>1, <1>3, WhenIdle DEF held
<1>5. /\ refs' \in [Objects -> Int]
      /\ status' \in [Objects -> {"free", "live", "dying"}]
      /\ Counted' /\ Alive' /\ Emptied'
  BY <1>1, <1>2, <1>3, <1>4, SwapStep DEF Ref
<1>6. TypeOK'
  BY <1>1, <1>2, <1>5, Distinct DEF TypeOK
<1>7. Anchored'
  BY <1>1, <1>3 DEF Anchored, Reached, ReachedThrough, Ref
<1> QED  BY <1>5, <1>6, <1>7 DEF IInv

LEMMA AssignNewStep ==
  ASSUME IInv, NEW to \in Ref, AssignNew(to)
  PROVE  IInv'
<1> DEFINE old == obj[to]
<1>1. /\ Idle /\ Reached(to) /\ target' = to /\ source' = Arg /\ lost' = lost
      /\ TypeOK /\ Counted /\ Alive /\ target = None
  BY DEF AssignNew, Idle, IInv
<1>2. PICK new \in Objects :
        /\ status[new] = "free" /\ obj' = [obj EXCEPT ![Arg] = new]
        /\ refs' = DelRef([refs EXCEPT ![new] = 1], old)
        /\ status' = [Deleted(refs', old) EXCEPT ![new] = "live"]
  BY DEF AssignNew
<1>3. /\ old \in Objects \cup {Null} /\ old # new
      /\ (old # Null => status[old] = "live" /\ refs[old] > 0)
  BY <1>1, <1>2, NamedLives, Distinct
<1>4. refs[new] = 0
  BY <1>2, FreeCount
<1>5. /\ refs' \in [Objects -> Int] /\ refs'[new] = 1
      /\ \A o \in Objects : refs'[o] = refs[o] + One(new, o) - One(old, o)
  <2> DEFINE c == [refs EXCEPT ![new] = 1]
  <2>1. c \in [Objects -> Int] /\ c[new] = 1
    BY <1>1 DEF TypeOK
  <2>2. \A o \in Objects : c[o] = refs[o] + One(new, o)
    BY <1>1, <1>4 DEF TypeOK, One
  <2>3. refs' = DelRef(c, old) /\ One(old, new) = 0
    BY <1>2, <1>3 DEF One
  <2> HIDE DEF c
  <2>4. /\ refs' \in [Objects -> Int]
        /\ \A o \in Objects : refs'[o] = c[o] - One(old, o)
    BY <1>3, <2>1, <2>3, DropCounts
  <2>5. refs'[new] = 1
    BY <2>1, <2>3, <2>4
  <2>6. ASSUME NEW o \in Objects
        PROVE  refs'[o] = refs[o] + One(new, o) - One(old, o)
    <3>1. refs'[o] = c[o] - One(old, o)
      BY <2>4
    <3>2. c[o] = refs[o] + One(new, o)
      BY <2>2
    <3>3. refs[o] \in Int /\ One(new, o) \in Int /\ One(old, o) \in Int
      BY <1>1 DEF TypeOK, One
    <3> QED  BY <3>1, <3>2, <3>3
  <2> QED  BY <2>4, <2>5, <2>6
<1>6. /\ obj'[Arg] = new /\ \A r \in Ref : obj'[r] = obj[r]
  BY <1>1, <1>2, Distinct DEF TypeOK
<1>7. Counted'
  <2>1. held'[to] = new /\ held[to] = old /\ \A q \in Ref \ {to} : held'[q] = held[q]
    BY <1>1, <1>6, WhenIdle DEF held
  <2> QED  BY <1>1, <1>5, <2>1, Recount
<1>8. /\ status' \in [Objects -> {"free", "live", "dying"}] /\ status'[new] = "live"
      /\ \A o \in Objects \ {new} :
           status'[o] = IF o = old /\ refs'[o] = 0 THEN "dying" ELSE status[o]
  BY <1>1, <1>2, <1>3, Distinct DEF Deleted, Zero, TypeOK
<1>9. Alive'
  <2>1. ASSUME NEW o \in Objects, o # new
        PROVE  status'[o] = "live" <=> refs'[o] > 0
    <3>1. refs'[o] = refs[o] - One(old, o) /\ refs[o] \in Int /\ One(new, o) = 0
      BY <1>1, <1>5, <2>1 DEF One, TypeOK
    <3>2. CASE o = old
      <4>1. refs'[o] = refs[o] - 1 /\ refs[o] > 0 /\ status[o] = "live"
        BY <1>3, <3>1, <3>2, Distinct DEF One
      <4> QED  BY <1>8, <2>1, <3>1, <3>2, <4>1
    <3>3. CASE o # old
      <4>1. refs'[o] = refs[o]
        BY <3>1, <3>3 DEF One
      <4> QED  BY <1>1, <1>8, <2>1, <3>3, <4>1 DEF Alive
    <3> QED  BY <3>2, <3>3
  <2> QED  BY <1>5, <1>8, <2>1 DEF Alive
<1>10. Emptied'
  <2>1. \A r \in InObjects : obj'[r] = Null \/ status'[r[1]] # "free"
                               \/ (obj'[r] = obj[r] /\ status[r[1]] = "free")
    BY <1>6, <1>8 DEF InObjects, Ref
  <2> QED  BY <2>1, StaysEmptied DEF IInv
<1>11. TypeOK'
  BY <1>1, <1>2, <1>5, <1>8, Distinct DEF TypeOK
<1>12. Anchored'
  BY <1>1, <1>6 DEF Anchored, Reached, ReachedThrough, Ref
<1> QED  BY <1>7, <1>9, <1>10, <1>11, <1>12 DEF IInv

-----------------------------------------------------------------------------
(* Every step keeps the invariant.                                         *)
LEMMA Step == IInv /\ [Next]_vars => IInv'
<1> SUFFICES ASSUME IInv, [Next]_vars PROVE IInv'
  OBVIOUS
<1>1. ASSUME NEW r \in Ref, New(r) \/ Destruct(r) \/ AssignNew(r)
      PROVE  IInv'
  BY <1>1, NewStep, DestructStep, AssignNewStep
<1>2. ASSUME NEW to \in Ref, NEW from \in Ref,
             \/ CopyConstruct(to, from) \/ MoveConstruct(to, from)
             \/ CopyAssign(to, from) \/ AssignPointer(to, from) \/ MoveAssign(to, from)
      PROVE  IInv'
  BY <1>2, CopyConstructStep, MoveConstructStep, CopyAssignStep, AssignPointerStep,
     MoveAssignStep
<1>3. CASE Unwind
  BY <1>3, EndAssignStep, DestroyMemberStep, FreeStep DEF Unwind
<1>4. CASE UNCHANGED vars
  <2>1. held' = held
    BY <1>4 DEF vars, held
  <2>2. Counted'
    BY <1>4, <2>1, SameCount DEF vars, IInv
  <2>3. TypeOK' /\ Alive' /\ Emptied'
    BY <1>4 DEF vars, IInv, TypeOK, Alive, Emptied
  <2>4. Anchored'
    BY <1>4 DEF vars, IInv, Anchored, Reached, ReachedThrough
  <2> QED  BY <2>2, <2>3, <2>4 DEF IInv
<1> QED  BY <1>1, <1>2, <1>3, <1>4 DEF Next, Use

(* What the invariant means for a reader of a reference.                   *)
LEMMA Meaning == IInv => NoDangling
<1> SUFFICES ASSUME IInv PROVE NoDangling
  OBVIOUS
<1>1. TypeOK /\ Counted /\ Alive /\ Anchored
  BY DEF IInv
<1>2. \A r \in Ref : held[r] # Null => status[held[r]] = "live"
  BY <1>1, HeldLives
<1>3. ASSUME NEW r \in InObjects, NEW vs \in SUBSET Variables, target \notin vs,
             ReachedThrough(vs, r)
      PROVE  status[r[1]] = "live"
  BY <1>1, <1>3, ReachedLives
<1>4. InMemory(target)
  <2> SUFFICES ASSUME target \in InObjects PROVE status[target[1]] = "live"
    BY DEF InMemory
  <2>1. target \in Ref /\ target \notin Variables
    BY Distinct DEF Ref
  <2>2. ReachedThrough(Variables, target)
    BY <1>1, <2>1 DEF Anchored, Reached
  <2> QED  BY <1>3, <2>1, <2>2
<1>5. InMemory(source)
  <2> SUFFICES ASSUME source \in InObjects PROVE status[source[1]] = "live"
    BY DEF InMemory
  <2>1. source \in Ref /\ source # Arg /\ target \in Ref
    BY <1>1, Distinct DEF Ref, TypeOK
  <2>2. ReachedThrough(Variables \ {target}, source)
    BY <1>1, <2>1 DEF Anchored
  <2> QED  BY <1>3, <2>2
<1> QED  BY <1>2, <1>4, <1>5 DEF NoDangling

(* The counts of PycRef are right in every state, for any memory and any   *)
(* number of references.                                                   *)
THEOREM CountsRight == Spec => [](TypeOK /\ Counted)
<1>1. IInv => TypeOK /\ Counted
  BY DEF IInv
<1> QED  BY <1>1, Start, Step, PTL DEF Spec

(* No reference holds a deleted object, and no assignment touches a        *)
(* reference that its delRef has destroyed.                                *)
THEOREM NeverDangles == Spec => []NoDangling
BY Start, Step, Meaning, PTL DEF Spec

(* No object outlives the last reference to it, for any memory, except the *)
(* ones of which move assignment has lost a count.                         *)
THEOREM NoneLeft == Spec => []KeptByHolder
<1>1. ASSUME IInv, NEW o \in Objects, status[o] = "live"
      PROVE  Holders(o) # {} \/ lost[o] > 0
  <2>1. refs[o] > 0 /\ refs[o] = Cardinality(Holders(o)) + lost[o] /\ lost[o] \in Nat
    BY <1>1 DEF IInv, Alive, Counted, TypeOK
  <2>2. Holders(o) = {} => Cardinality(Holders(o)) = 0
    BY FS_EmptySet
  <2> QED  BY <2>1, <2>2
<1>2. IInv => KeptByHolder
  BY <1>1 DEF KeptByHolder
<1> QED  BY <1>2, Start, Step, PTL DEF Spec

-----------------------------------------------------------------------------
(* Destructors end.                                                        *)

LEMMA PendingTypes ==
  /\ IsFiniteSet(NotFree) /\ IsFiniteSet(Filled)
  /\ Cardinality(NotFree) \in Nat /\ Cardinality(Filled) \in Nat
<1>1. IsFiniteSet(InObjects)
  BY Finite, FS_Product DEF InObjects
<1>2. IsFiniteSet(NotFree) /\ IsFiniteSet(Filled)
  BY <1>1, Finite, FS_Subset DEF NotFree, Filled
<1> QED  BY <1>2, FS_CardinalityType

\* what a step leaves to be done
LEMMA PendingIs ==
  /\ target = None => Pending = Cardinality(NotFree) + Cardinality(Filled)
  /\ target # None => Pending = 2 + Cardinality(NotFree) + Cardinality(Filled)
BY PendingTypes DEF Pending

LEMMA PendingNext ==
  /\ target' = None => Pending' = Cardinality(NotFree') + Cardinality(Filled')
  /\ target' # None => Pending' = 2 + Cardinality(NotFree') + Cardinality(Filled')
<1>1. IsFiniteSet(InObjects) /\ NotFree' \subseteq Objects /\ Filled' \subseteq InObjects
  BY Finite, FS_Product DEF InObjects, NotFree, Filled
<1>2. Cardinality(NotFree') \in Nat /\ Cardinality(Filled') \in Nat
  BY <1>1, Finite, FS_Subset, FS_CardinalityType
<1> QED  BY <1>2 DEF Pending

LEMMA EndAssignUnwinds ==
  ASSUME IInv, EndAssign
  PROVE  Pending' < Pending
<1>1. /\ target # None /\ target' = None /\ status' = status /\ TypeOK
      /\ obj' = [obj EXCEPT ![target] = obj[source], ![Arg] = Null]
  BY DEF EndAssign, IInv
<1>2. NotFree' = NotFree
  BY <1>1 DEF NotFree
<1>3. Filled' \subseteq Filled \cup {target}
  BY <1>1, Distinct DEF Filled, TypeOK, Ref
<1>4. /\ IsFiniteSet(Filled \cup {target})
      /\ Cardinality(Filled \cup {target}) <= Cardinality(Filled) + 1
      /\ Cardinality(Filled \cup {target}) \in Nat
  <2>1. /\ IsFiniteSet(Filled \cup {target})
        /\ Cardinality(Filled \cup {target})
             = IF target \in Filled THEN Cardinality(Filled) ELSE Cardinality(Filled) + 1
    BY PendingTypes, FS_AddElement
  <2>2. Cardinality(Filled) \in Nat
    BY PendingTypes
  <2> QED  BY <2>1, <2>2
<1>5. Cardinality(Filled') <= Cardinality(Filled \cup {target}) /\ Cardinality(Filled') \in Nat
  BY <1>3, <1>4, FS_Subset, FS_CardinalityType
<1> QED  BY <1>1, <1>2, <1>4, <1>5, PendingIs, PendingNext, PendingTypes

LEMMA DestroyMemberUnwinds ==
  ASSUME IInv, NEW r \in InObjects, DestroyMember(r)
  PROVE  Pending' < Pending
<1>1. /\ obj[r] # Null /\ Drop(obj[r]) /\ target' = target
      /\ obj' = [obj EXCEPT ![r] = Null] /\ TypeOK /\ Counted /\ Alive
  BY DEF DestroyMember, Stable, IInv
<1>2. r \in Ref /\ held[r] = obj[r]
  BY NoEndDies DEF held
<1>3. obj[r] \in Objects /\ status[obj[r]] = "live"
  BY <1>1, <1>2, HeldLives
<1>4. NotFree' = NotFree
  BY <1>1, <1>3 DEF NotFree, Drop, Deleted, TypeOK
<1>5. Filled' = Filled \ {r} /\ r \in Filled
  BY <1>1 DEF Filled, TypeOK, Ref
<1>6. Cardinality(Filled') = Cardinality(Filled) - 1
  BY <1>5, PendingTypes, FS_RemoveElement
<1> QED  BY <1>1, <1>4, <1>6, PendingIs, PendingNext, PendingTypes

LEMMA FreeUnwinds ==
  ASSUME IInv, NEW o \in Objects, Free(o)
  PROVE  Pending' < Pending
<1>1. /\ status[o] = "dying" /\ status' = [status EXCEPT ![o] = "free"]
      /\ target' = target /\ obj' = obj /\ TypeOK
  BY DEF Free, Stable, IInv
<1>2. Filled' = Filled
  BY <1>1 DEF Filled
<1>3. NotFree' = NotFree \ {o} /\ o \in NotFree
  BY <1>1 DEF NotFree, TypeOK
<1>4. Cardinality(NotFree') = Cardinality(NotFree) - 1
  BY <1>3, PendingTypes, FS_RemoveElement
<1> QED  BY <1>1, <1>2, <1>4, PendingIs, PendingNext, PendingTypes

(* Every chain of destructors ends, and the assignment it runs in: what    *)
(* Pending counts is a natural number that each of their steps lowers.     *)
THEOREM DestructorsEnd == Spec => Unwinds /\ [](Pending \in Nat)
<1>1. ASSUME IInv, Next, ~Idle PROVE Pending' < Pending
  <2>1. ~Use
    BY <1>1 DEF Use, New, Destruct, AssignNew, CopyConstruct, MoveConstruct,
       CopyAssign, AssignPointer, MoveAssign
  <2> QED  BY <1>1, <2>1, EndAssignUnwinds, DestroyMemberUnwinds, FreeUnwinds DEF Next, Unwind
<1>2. IInv /\ [Next]_vars => [~Idle => Pending' < Pending]_vars
  BY <1>1
<1>3. Pending \in Nat
  BY PendingTypes, PendingIs
<1> QED  BY <1>2, <1>3, Start, Step, PTL DEF Spec, Unwinds
=============================================================================
