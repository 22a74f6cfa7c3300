--------------------------- MODULE FastStackProofs ---------------------------
(***************************************************************************)
(* FastStack (an array with a cursor) implements the operand stack and the *)
(* history that BuildFromCode is written against, for every set of nodes   *)
(* and every initial size.  The inductive invariant is CellsOK: without    *)
(* "the cursor is inside the array" a push could write outside it, and the *)
(* copies in the history need the same fact because they come back.        *)
(***************************************************************************)
EXTENDS FastStack, SequenceTheorems, TLAPS

Value == Node \cup {Null}

-----------------------------------------------------------------------------
(* Unfolding: what a well-formed FastStack gives the provers. *)
LEMMA WellFormedFacts ==
  ASSUME NEW fs, WellFormed(fs)
  PROVE  /\ fs.top \in Nat
         /\ fs.cells \in Seq(Value)
         /\ Len(fs.cells) \in Nat
         /\ fs.top <= Len(fs.cells)
         /\ \A i \in fs.top + 1 .. Len(fs.cells) : fs.cells[i] = Null
         /\ Live(fs) \in Seq(Value)
         /\ Len(Live(fs)) = fs.top
         /\ \A i \in 1 .. fs.top : Live(fs)[i] = fs.cells[i]
  <1>1. /\ fs.top \in Nat
        /\ fs.cells \in Seq(Value)
        /\ fs.top <= Len(fs.cells)
        /\ \A i \in fs.top + 1 .. Len(fs.cells) : fs.cells[i] = Null
    BY DEF WellFormed, FastStackType, Value
  <1>2. Len(fs.cells) \in Nat
    BY <1>1, LenProperties
  <1>3. \A i \in 1 .. fs.top : fs.cells[i] \in Value
    BY <1>1, <1>2, ElementOfSeq
  <1>4. /\ Live(fs) \in Seq(Value)
        /\ Len(Live(fs)) = fs.top
        /\ \A i \in 1 .. fs.top : Live(fs)[i] = fs.cells[i]
    BY <1>1, <1>3, SubSeqProperties DEF Live
  <1> QED
    BY <1>1, <1>2, <1>4

(* A record built from a legal array and cursor is well formed. *)
LEMMA MakeWellFormed ==
  ASSUME NEW cells \in Seq(Value), NEW top \in Nat, top <= Len(cells),
         \A i \in top + 1 .. Len(cells) : cells[i] = Null
  PROVE  WellFormed([cells |-> cells, top |-> top])
  BY DEF WellFormed, FastStackType, Value

(* Growing keeps the live cells and makes room for one more. *)
LEMMA GrownCellsOK ==
  ASSUME NEW fs, WellFormed(fs)
  PROVE  /\ GrownCells(fs) \in Seq(Value)
         /\ fs.top + 1 \in 1 .. Len(GrownCells(fs))
         /\ \A i \in 1 .. fs.top : GrownCells(fs)[i] = fs.cells[i]
         /\ \A i \in fs.top + 1 .. Len(GrownCells(fs)) : GrownCells(fs)[i] = Null
  <1>1. Null \in Value
    BY DEF Value
  <1>2. CASE Len(fs.cells) = fs.top
    BY <1>1, <1>2, WellFormedFacts, AppendProperties DEF GrownCells
  <1>3. CASE Len(fs.cells) # fs.top
    BY <1>3, WellFormedFacts DEF GrownCells
  <1> QED
    BY <1>2, <1>3

(* push keeps a FastStack well formed and appends to its live cells. *)
LEMMA PushOK ==
  ASSUME NEW fs, WellFormed(fs), NEW n \in Value
  PROVE  /\ WellFormed(FsPush(fs, n))
         /\ Live(FsPush(fs, n)) = Append(Live(fs), n)
  <1> DEFINE c == [GrownCells(fs) EXCEPT ![fs.top + 1] = n]
             t == fs.top + 1
  <1>1. /\ fs.top \in Nat
        /\ c \in Seq(Value)
        /\ Len(c) = Len(GrownCells(fs))
        /\ t \in 1 .. Len(c)
        /\ \A i \in 1 .. fs.top : c[i] = fs.cells[i]
        /\ c[t] = n
        /\ \A i \in t + 1 .. Len(c) : c[i] = Null
    BY GrownCellsOK, WellFormedFacts, ExceptSeq
  <1>2. FsPush(fs, n) = [cells |-> c, top |-> t]
    BY DEF FsPush
  <1> HIDE DEF c, t
  <1>3. t = fs.top + 1
    BY DEF t
  <1>4. Len(c) \in Nat
    BY <1>1, LenProperties
  <1>5. WellFormed([cells |-> c, top |-> t])
    BY <1>1, <1>3, <1>4, MakeWellFormed
  <1>6. /\ Live(FsPush(fs, n)) \in Seq(Value)
        /\ Len(Live(FsPush(fs, n))) = t
        /\ \A i \in 1 .. t : Live(FsPush(fs, n))[i] = c[i]
    BY <1>2, <1>5, WellFormedFacts
  <1>7. /\ Append(Live(fs), n) \in Seq(Value)
        /\ Len(Append(Live(fs), n)) = t
        /\ \A i \in 1 .. t : Append(Live(fs), n)[i] = c[i]
    BY <1>1, <1>3, WellFormedFacts, AppendProperties
  <1>8. Live(FsPush(fs, n)) = Append(Live(fs), n)
    BY <1>6, <1>7, SeqEqual
  <1> QED
    BY <1>2, <1>5, <1>8

(* pop keeps a FastStack well formed and drops its last live cell, if any. *)
LEMMA PopOK ==
  ASSUME NEW fs, WellFormed(fs)
  PROVE  /\ WellFormed(FsPop(fs))
         /\ Live(FsPop(fs)) = Abstract!PopFrom(Live(fs))
  <1>1. CASE fs.top = 0
    BY <1>1, WellFormedFacts, EmptySeq DEF FsPop, Abstract!PopFrom
  <1>2. CASE fs.top > 0
    <2> DEFINE c == [fs.cells EXCEPT ![fs.top] = Null]
               t == fs.top - 1
    <2>1. Null \in Value
      BY DEF Value
    <2>2. /\ t \in Nat
          /\ c \in Seq(Value)
          /\ Len(c) = Len(fs.cells)
          /\ t <= Len(c)
          /\ \A i \in 1 .. t : c[i] = fs.cells[i]
          /\ \A i \in t + 1 .. Len(c) : c[i] = Null
      BY <1>2, <2>1, WellFormedFacts, ExceptSeq
    <2>3. FsPop(fs) = [cells |-> c, top |-> t]
      BY <1>2 DEF FsPop
    <2>4. t = fs.top - 1
      OBVIOUS
    <2> HIDE DEF c, t
    <2>5. WellFormed([cells |-> c, top |-> t])
      BY <2>2, MakeWellFormed
    <2>6. /\ Live(FsPop(fs)) \in Seq(Value)
          /\ Len(Live(FsPop(fs))) = t
          /\ \A i \in 1 .. t : Live(FsPop(fs))[i] = fs.cells[i]
      BY <2>2, <2>3, <2>5, WellFormedFacts
    <2>7. Abstract!PopFrom(Live(fs)) = SubSeq(Live(fs), 1, t)
      BY <1>2, <2>4, WellFormedFacts, EmptySeq DEF Abstract!PopFrom
    <2>8. \A i \in 1 .. t : Live(fs)[i] \in Value /\ Live(fs)[i] = fs.cells[i]
      BY <2>2, <2>4, WellFormedFacts, ElementOfSeq
    <2>9. /\ SubSeq(Live(fs), 1, t) \in Seq(Value)
          /\ Len(SubSeq(Live(fs), 1, t)) = t
          /\ \A i \in 1 .. t : SubSeq(Live(fs), 1, t)[i] = fs.cells[i]
      BY <2>2, <2>8, SubSeqProperties
    <2>10. Live(FsPop(fs)) = SubSeq(Live(fs), 1, t)
      BY <2>6, <2>9, SeqEqual
    <2> QED
      BY <2>3, <2>5, <2>7, <2>10
  <1> QED
    BY <1>1, <1>2, WellFormedFacts

(* top(i) reads the abstract stack, for every i. *)
LEMMA TopOK ==
  ASSUME NEW fs, WellFormed(fs), NEW i \in Int
  PROVE  FsTop(fs, i) = Abstract!TopAt(Live(fs), i)
  BY WellFormedFacts DEF FsTop, Abstract!TopAt

-----------------------------------------------------------------------------
(* The constructor makes a well-formed FastStack: every cell is null. *)
LEMMA InitCells == Init => CellsOK
  <1> SUFFICES ASSUME Init PROVE CellsOK
    OBVIOUS
  <1> DEFINE c == [i \in 1 .. InitSize |-> Null]
  <1>1. /\ c \in Seq(Value)
        /\ Len(c) = InitSize
        /\ \A i \in 1 .. InitSize : c[i] = Null
    BY InitSizeAssumption DEF Value
  <1> HIDE DEF c
  <1>2. WellFormed([cells |-> c, top |-> 0])
    BY <1>1, InitSizeAssumption, MakeWellFormed
  <1>3. stack = [cells |-> c, top |-> 0]
    BY DEF Init, NewFastStack, c
  <1>4. hist = <<>>
    BY DEF Init
  <1> QED
    BY <1>2, <1>3, <1>4 DEF CellsOK

(* The last copy of a history, and what is left under it. *)
LEMMA HistoryTop ==
  ASSUME CellsOK, hist # <<>>
  PROVE  /\ Len(hist) \in Nat \ {0}
         /\ WellFormed(hist[Len(hist)])
         /\ SubSeq(hist, 1, Len(hist) - 1) \in Seq(FastStackType)
         /\ Len(SubSeq(hist, 1, Len(hist) - 1)) = Len(hist) - 1
         /\ \A i \in 1 .. Len(hist) - 1 :
              SubSeq(hist, 1, Len(hist) - 1)[i] = hist[i]
  <1>1. hist \in Seq(FastStackType)
    BY DEF CellsOK
  <1>2. /\ Len(hist) \in Nat \ {0}
        /\ DOMAIN hist = 1 .. Len(hist)
    BY <1>1, EmptySeq, LenProperties
  <1>3. \A i \in 1 .. Len(hist) - 1 : hist[i] \in FastStackType
    BY <1>1, <1>2, ElementOfSeq
  <1> QED
    BY <1>2, <1>3, SubSeqProperties DEF CellsOK

(* Every operation keeps the working stack and all copies well formed. *)
LEMMA NextCells == CellsOK /\ [Next]_vars => CellsOK'
  <1> SUFFICES ASSUME CellsOK, [Next]_vars PROVE CellsOK'
    OBVIOUS
  <1>0. /\ WellFormed(stack)
        /\ hist \in Seq(FastStackType)
        /\ \A i \in DOMAIN hist : WellFormed(hist[i])
    BY DEF CellsOK
  <1>1. CASE Push
    <2>1. PICK n \in Value : stack' = FsPush(stack, n)
      BY <1>1 DEF Push, Value
    <2>2. WellFormed(stack')
      BY <1>0, <2>1, PushOK
    <2> QED
      BY <1>0, <1>1, <2>2 DEF Push, CellsOK
  <1>2. CASE Pop
    <2>1. WellFormed(stack')
      BY <1>0, <1>2, PopOK DEF Pop
    <2> QED
      BY <1>0, <1>2, <2>1 DEF Pop, CellsOK
  <1>3. CASE Save
    <2>1. stack \in FastStackType
      BY <1>0 DEF WellFormed
    <2>2. /\ hist' = Append(hist, stack)
          /\ hist' \in Seq(FastStackType)
          /\ DOMAIN hist = 1 .. Len(hist)
          /\ DOMAIN hist' = 1 .. Len(hist) + 1
          /\ Len(hist) \in Nat
      BY <1>0, <1>3, <2>1, AppendProperties, LenProperties DEF Save
    <2>3. \A i \in DOMAIN hist' : hist'[i] = stack \/ (i \in DOMAIN hist /\ hist'[i] = hist[i])
      BY <1>0, <2>1, <2>2, AppendProperties
    <2>4. \A i \in DOMAIN hist' : WellFormed(hist'[i])
      BY <1>0, <2>3
    <2> QED
      BY <1>0, <1>3, <2>2, <2>4 DEF Save, CellsOK
  <1>4. CASE Restore
    <2>1. /\ hist # <<>>
          /\ stack' = hist[Len(hist)]
          /\ hist' = SubSeq(hist, 1, Len(hist) - 1)
      BY <1>4 DEF Restore
    <2>2. /\ WellFormed(stack')
          /\ hist' \in Seq(FastStackType)
          /\ DOMAIN hist = 1 .. Len(hist)
          /\ Len(hist) \in Nat \ {0}
          /\ DOMAIN hist' = 1 .. Len(hist) - 1
      BY <1>0, <2>1, HistoryTop, LenProperties
    <2>3. \A i \in DOMAIN hist' : WellFormed(hist'[i])
      BY <1>0, <2>1, <2>2, HistoryTop
    <2> QED
      BY <2>2, <2>3 DEF CellsOK
  <1>5. CASE Forget
    <2>1. /\ hist # <<>>
          /\ stack' = stack
          /\ hist' = SubSeq(hist, 1, Len(hist) - 1)
      BY <1>5 DEF Forget
    <2>2. /\ hist' \in Seq(FastStackType)
          /\ DOMAIN hist = 1 .. Len(hist)
          /\ Len(hist) \in Nat \ {0}
          /\ DOMAIN hist' = 1 .. Len(hist) - 1
      BY <1>0, <2>1, HistoryTop, LenProperties
    <2>3. \A i \in DOMAIN hist' : WellFormed(hist'[i])
      BY <1>0, <2>1, <2>2, HistoryTop
    <2> QED
      BY <1>0, <2>1, <2>2, <2>3 DEF CellsOK
  <1>6. CASE UNCHANGED vars
    BY <1>0, <1>6 DEF vars, CellsOK
  <1> QED
    BY <1>1, <1>2, <1>3, <1>4, <1>5, <1>6 DEF Next

(* In every behaviour of the class and its history, in any order of pushes, *)
(* pops, saves and restores, the cursor of the working stack and of every   *)
(* saved copy stays inside its array and no dead cell holds a reference     *)
(* (FastStack.h:21-38).                                                     *)
THEOREM CellsAlwaysOK == Spec => []CellsOK
  <1>1. Init => CellsOK
    BY InitCells
  <1>2. CellsOK /\ [Next]_vars => CellsOK'
    BY NextCells
  <1> QED
    BY <1>1, <1>2, PTL DEF Spec

(* Every read top(i), in range or not, is the read of the abstract stack    *)
(* (FastStack.h:40-57).                                                     *)
THEOREM ReadsAlwaysAgree == Spec => []ReadsAgree
  <1>1. CellsOK => ReadsAgree
    <2> SUFFICES ASSUME CellsOK, NEW i \in 0 .. Len(stack.cells) + 1
                 PROVE  FsTop(stack, i) = Abstract!TopAt(Live(stack), i)
      BY DEF ReadsAgree
    <2>1. WellFormed(stack)
      BY DEF CellsOK
    <2> QED
      BY <2>1, TopOK, WellFormedFacts
  <1> QED
    BY <1>1, CellsAlwaysOK, PTL

-----------------------------------------------------------------------------
SavedLive == [i \in DOMAIN hist |-> Live(hist[i])]

(* The abstract history: as long as the saved copies, one live part each. *)
LEMMA SavedLiveFacts ==
  ASSUME CellsOK
  PROVE  /\ SavedLive \in Seq(Seq(Value))
         /\ Len(SavedLive) = Len(hist)
         /\ Len(hist) \in Nat
         /\ DOMAIN hist = 1 .. Len(hist)
         /\ \A i \in 1 .. Len(hist) : SavedLive[i] = Live(hist[i])
         /\ SavedLive = <<>> <=> hist = <<>>
  <1>1. /\ Len(hist) \in Nat
        /\ DOMAIN hist = 1 .. Len(hist)
    BY LenProperties DEF CellsOK
  <1>2. \A i \in 1 .. Len(hist) : Live(hist[i]) \in Seq(Value)
    BY <1>1, WellFormedFacts DEF CellsOK
  <1>3. /\ SavedLive \in [1 .. Len(hist) -> Seq(Value)]
        /\ SavedLive \in Seq(Seq(Value))
        /\ Len(SavedLive) = Len(hist)
    BY <1>1, <1>2 DEF SavedLive
  <1>4. hist = <<>> <=> Len(hist) = 0
    BY <1>1, EmptySeq DEF CellsOK
  <1>5. SavedLive = <<>> <=> Len(SavedLive) = 0
    BY <1>3, EmptySeq
  <1> QED
    BY <1>1, <1>3, <1>4, <1>5 DEF SavedLive

(* The fresh FastStack is the empty abstract stack without copies. *)
LEMMA InitRefines == Init => Abstract!Init
  <1> SUFFICES ASSUME Init PROVE Abstract!Init
    OBVIOUS
  <1>1. CellsOK
    BY InitCells
  <1>2. stack.top = 0 /\ hist = <<>>
    BY DEF Init, NewFastStack
  <1>3. WellFormed(stack)
    BY <1>1 DEF CellsOK
  <1>4. Live(stack) = <<>>
    BY <1>2, <1>3, WellFormedFacts, EmptySeq
  <1>5. SavedLive = <<>>
    BY <1>1, <1>2, SavedLiveFacts
  <1> QED
    BY <1>4, <1>5 DEF Abstract!Init, Abstract!EmptyStack, SavedLive

(* The abstract history after the newest copy is taken off. *)
LEMMA SavedLiveFront ==
  ASSUME CellsOK, CellsOK', hist # <<>>, hist' = SubSeq(hist, 1, Len(hist) - 1)
  PROVE  SavedLive' = SubSeq(SavedLive, 1, Len(SavedLive) - 1)
  <1>1. /\ Len(hist) \in Nat \ {0}
        /\ Len(hist') = Len(hist) - 1
        /\ \A i \in 1 .. Len(hist) - 1 : hist'[i] = hist[i]
    BY HistoryTop
  <1>2. /\ Len(SavedLive) = Len(hist)
        /\ SavedLive \in Seq(Seq(Value))
        /\ \A i \in 1 .. Len(hist) : SavedLive[i] = Live(hist[i])
    BY SavedLiveFacts
  <1>3. /\ SavedLive' \in Seq(Seq(Value))
        /\ Len(SavedLive') = Len(hist')
        /\ \A i \in 1 .. Len(hist') : SavedLive'[i] = Live(hist'[i])
    <2>1. /\ Len(hist') \in Nat
          /\ DOMAIN hist' = 1 .. Len(hist')
      BY LenProperties DEF CellsOK
    <2>2. \A i \in 1 .. Len(hist') : Live(hist'[i]) \in Seq(Value)
      BY <2>1, WellFormedFacts DEF CellsOK
    <2>3. SavedLive' = [i \in 1 .. Len(hist') |-> Live(hist'[i])]
      BY <2>1 DEF SavedLive
    <2>4. /\ SavedLive' \in [1 .. Len(hist') -> Seq(Value)]
          /\ SavedLive' \in Seq(Seq(Value))
          /\ Len(SavedLive') = Len(hist')
      BY <2>1, <2>2, <2>3
    <2> QED
      BY <2>3, <2>4
  <1>4. \A i \in 1 .. Len(hist) - 1 : SavedLive[i] \in Seq(Value)
    BY <1>1, <1>2, ElementOfSeq
  <1>5. /\ SubSeq(SavedLive, 1, Len(hist) - 1) \in Seq(Seq(Value))
        /\ Len(SubSeq(SavedLive, 1, Len(hist) - 1)) = Len(hist) - 1
        /\ \A i \in 1 .. Len(hist) - 1 :
             SubSeq(SavedLive, 1, Len(hist) - 1)[i] = SavedLive[i]
    BY <1>1, <1>4, SubSeqProperties
  <1> QED
    BY <1>1, <1>2, <1>3, <1>5, SeqEqual

(* Every operation of the array is that operation of the abstract stack. *)
LEMMA NextRefines ==
  CellsOK /\ CellsOK' /\ [Next]_vars => [Abstract!Next]_<<Live(stack), SavedLive>>
  <1> SUFFICES ASSUME CellsOK, CellsOK', [Next]_vars
               PROVE  [Abstract!Next]_<<Live(stack), SavedLive>>
    OBVIOUS
  <1>0. WellFormed(stack)
    BY DEF CellsOK
  <1>1. CASE Push
    <2>1. PICK n \in Value : stack' = FsPush(stack, n)
      BY <1>1 DEF Push, Value
    <2>2. Live(stack') = Append(Live(stack), n)
      BY <1>0, <2>1, PushOK
    <2>3. SavedLive' = SavedLive
      BY <1>1 DEF Push, SavedLive
    <2>4. Abstract!Push
      BY <2>1, <2>2, <2>3 DEF Abstract!Push, Abstract!PushTo, SavedLive, Value
    <2> QED
      BY <2>4 DEF Abstract!Next
  <1>2. CASE Pop
    <2>1. Live(stack') = Abstract!PopFrom(Live(stack))
      BY <1>0, <1>2, PopOK DEF Pop
    <2>2. SavedLive' = SavedLive
      BY <1>2 DEF Pop, SavedLive
    <2>3. Abstract!Pop
      BY <2>1, <2>2 DEF Abstract!Pop, SavedLive
    <2> QED
      BY <2>3 DEF Abstract!Next
  <1>3. CASE Save
    <2>1. stack' = stack /\ hist' = Append(hist, stack)
      BY <1>3 DEF Save
    <2>2. stack \in FastStackType /\ hist \in Seq(FastStackType)
      BY <1>0 DEF WellFormed, CellsOK
    <2>3. /\ Len(hist) \in Nat
          /\ DOMAIN hist = 1 .. Len(hist)
          /\ Len(hist') = Len(hist) + 1
          /\ DOMAIN hist' = 1 .. Len(hist) + 1
          /\ \A i \in 1 .. Len(hist) : hist'[i] = hist[i]
          /\ hist'[Len(hist) + 1] = stack
      BY <2>1, <2>2, AppendProperties, LenProperties
    <2>4. Live(stack) \in Seq(Value)
      BY <1>0, WellFormedFacts
    <2>5. \A i \in 1 .. Len(hist) + 1 : Live(hist'[i]) \in Seq(Value)
      BY <2>3, WellFormedFacts DEF CellsOK
    <2>6. /\ SavedLive' \in Seq(Seq(Value))
          /\ Len(SavedLive') = Len(hist) + 1
          /\ \A i \in 1 .. Len(hist) + 1 : SavedLive'[i] = Live(hist'[i])
      BY <2>3, <2>5 DEF SavedLive
    <2>7. /\ Append(SavedLive, Live(stack)) \in Seq(Seq(Value))
          /\ Len(Append(SavedLive, Live(stack))) = Len(hist) + 1
          /\ \A i \in 1 .. Len(hist) : Append(SavedLive, Live(stack))[i] = Live(hist[i])
          /\ Append(SavedLive, Live(stack))[Len(hist) + 1] = Live(stack)
      BY <2>3, <2>4, SavedLiveFacts, AppendProperties
    <2>8. SavedLive' = Append(SavedLive, Live(stack))
      BY <2>3, <2>6, <2>7, SeqEqual
    <2>9. Abstract!Save
      BY <2>1, <2>8 DEF Abstract!Save, SavedLive
    <2> QED
      BY <2>9 DEF Abstract!Next
  <1>4. CASE Restore
    <2>1. /\ hist # <<>>
          /\ stack' = hist[Len(hist)]
          /\ hist' = SubSeq(hist, 1, Len(hist) - 1)
      BY <1>4 DEF Restore
    <2>2. SavedLive' = SubSeq(SavedLive, 1, Len(SavedLive) - 1)
      BY <2>1, SavedLiveFront
    <2>3. /\ SavedLive # <<>>
          /\ Live(stack') = SavedLive[Len(SavedLive)]
      BY <2>1, SavedLiveFacts, HistoryTop
    <2>4. Abstract!Restore
      BY <2>2, <2>3 DEF Abstract!Restore, SavedLive
    <2> QED
      BY <2>4 DEF Abstract!Next
  <1>5. CASE Forget
    <2>1. /\ hist # <<>>
          /\ stack' = stack
          /\ hist' = SubSeq(hist, 1, Len(hist) - 1)
      BY <1>5 DEF Forget
    <2>2. SavedLive' = SubSeq(SavedLive, 1, Len(SavedLive) - 1)
      BY <2>1, SavedLiveFront
    <2>3. SavedLive # <<>>
      BY <2>1, SavedLiveFacts
    <2>4. Abstract!Forget
      BY <2>1, <2>2, <2>3 DEF Abstract!Forget, SavedLive
    <2> QED
      BY <2>4 DEF Abstract!Next
  <1>6. CASE UNCHANGED vars
    BY <1>6 DEF vars, SavedLive
  <1> QED
    BY <1>1, <1>2, <1>3, <1>4, <1>5, <1>6 DEF Next

(* The array with a cursor implements the sequence with saved copies that   *)
(* every opcode handler is written against: no history of pushes into a     *)
(* reused cell, growth or restored copies ever shows through.               *)
THEOREM FastStackImplementsStack == Spec => Refinement
  <1>1. Init => Abstract!Init
    BY InitRefines
  <1>2. CellsOK /\ CellsOK' /\ [Next]_vars => [Abstract!Next]_<<Live(stack), SavedLive>>
    BY NextRefines
  <1> QED
    BY <1>1, <1>2, CellsAlwaysOK, PTL DEF Refinement, Spec, Abstract!Spec, SavedLive
==============================================================================
