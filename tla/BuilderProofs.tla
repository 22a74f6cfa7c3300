---------------------------- MODULE BuilderProofs ----------------------------
(***************************************************************************)
(* For every code object, whatever its instructions, operands, version and *)
(* exception table: the open blocks, the tree and the parked handlers are  *)
(* well formed at every step of BuildFromCode, and a closed block is never *)
(* touched again.                                                          *)
(*                                                                         *)
(* The first part says what the moves of AstBlocks do to a builder state,  *)
(* for every state they can meet.  Good collects what every builder state  *)
(* satisfies; H is the set of handlers of the code object's exception      *)
(* table.  Stays relates the state a handler starts from to the ones it    *)
(* goes through while the open blocks are the same, Leads to those after a *)
(* block was opened or closed.  The second part has the inductive          *)
(* invariant of BuildFromCode and takes its handlers apart into moves; the *)
(* ones that open and close blocks, and the theorems, are in               *)
(* BuildFromCodeProofs.                                                    *)
(***************************************************************************)
EXTENDS BuildFromCode, FiniteSetTheorems, SequenceTheorems, TLAPS

-----------------------------------------------------------------------------
(* The shape of the data.  What a record or a sequence holds is left open  *)
(* where nothing depends on it.                                            *)

IsSeq(s) == Len(s) \in Nat /\ s = [i \in 1 .. Len(s) |-> s[i]]

NodeFields    == {"kind", "id", "args", "made"}
BlockFields   == {"type", "end", "inited", "nodes", "expr", "neg", "var", "filter",
                  "start", "comp", "fin", "exc"}
HandlerFields == {"active", "container", "expect_as", "expect_check", "as_name"}
BuilderFields == {"heap", "blocks", "cur", "stack", "hist", "done", "zce", "fault"}

\* a node that is no block: all the operand stack ever holds
Plain(n) == DOMAIN n = NodeFields /\ n.kind # "block" /\ (n.kind = "kwmap" => IsSeq(n.args))
PlainSeq(s) == IsSeq(s) /\ \A i \in 1 .. Len(s) : Plain(s[i])

OperandsOK(stack, hist) ==
  PlainSeq(stack) /\ IsSeq(hist) /\ \A i \in 1 .. Len(hist) : PlainSeq(hist[i])

BlockOK(blk) == DOMAIN blk = BlockFields /\ IsSeq(blk.nodes)

HeapOK(heap) ==
  /\ IsSeq(heap) /\ 1 <= Len(heap)
  /\ \A i \in 1 .. Len(heap) : BlockOK(heap[i]) /\ (heap[i].type = "MAIN" <=> i = MAIN)

ZceShape(zce) ==
  /\ DOMAIN zce = {"now", "outer", "pending"}
  /\ DOMAIN zce.now = HandlerFields
  /\ IsSeq(zce.outer)
  /\ \A i \in 1 .. Len(zce.outer) : DOMAIN zce.outer[i] = HandlerFields

-----------------------------------------------------------------------------
(* What holds between them *)

\* the containers that are open again for their handlers
Held(zce) ==
  {zce.outer[i].container : i \in 1 .. Len(zce.outer)}
    \cup (IF zce.now.active >= 0 THEN {zce.now.container} ELSE {})

\* the open blocks
OpenOf(blocks) == {blocks[i] : i \in 1 .. Len(blocks)}

NestedIn(heap, blocks, held) ==
  /\ IsSeq(blocks)
  /\ \A i \in 1 .. Len(blocks) : blocks[i] \in 1 .. Len(heap)
  /\ \A i, j \in 1 .. Len(blocks) : blocks[i] = blocks[j] => i = j
  /\ \A i, j \in 1 .. Len(blocks) : j < i => blocks[i] \in held \/ blocks[j] < blocks[i]
  /\ 1 <= Len(blocks) => blocks[1] = MAIN

\* the k-th node of block i is a block, namely
LinkAt(heap, i, k) ==
  i \in 1 .. Len(heap) /\ k \in 1 .. Len(heap[i].nodes) /\ heap[i].nodes[k].kind = "block"
To(heap, i, k) == heap[i].nodes[k].id

Linked(heap, c) == \E i, k : LinkAt(heap, i, k) /\ To(heap, i, k) = c

\* the containers of the exception table
Table(heap, H) == {i \in 1 .. Len(heap) : heap[i].type = "CONTAINER" /\ heap[i].exc \in H}

\* each block is linked once, under an older one, and not while it is open
TreeIn(heap, open, table) ==
  /\ \A i, k : LinkAt(heap, i, k) =>
       /\ To(heap, i, k) \in 1 .. Len(heap)
       /\ To(heap, i, k) \in table \/ To(heap, i, k) > i \/ To(heap, i, k) = MAIN
       /\ To(heap, i, k) \in table \/ To(heap, i, k) \notin open
  /\ \A i, k, j, m :
       LinkAt(heap, i, k) /\ LinkAt(heap, j, m) /\ To(heap, i, k) = To(heap, j, m) =>
         (i = j /\ k = m) \/ To(heap, i, k) \in table

ParkedIn(heap, open, pending, H) ==
  \A p \in pending :
    /\ p = <<p[1], p[2]>> /\ p[1] \in H
    /\ p[2] \in Table(heap, H) /\ heap[p[2]].exc = p[1]
    /\ p[2] \notin open /\ Linked(heap, p[2])

ChainOK(zce) ==
  /\ zce.now.active \in Int /\ -1 <= zce.now.active
  /\ \A i \in 1 .. Len(zce.outer) :
       zce.outer[i].active \in Nat /\ zce.outer[i].active < zce.now.active
  /\ \A i, j \in 1 .. Len(zce.outer) : i < j => zce.outer[i].active < zce.outer[j].active

\* with an exception table every container comes from it
OnlyTable(heap, H) ==
  \A i \in 1 .. Len(heap) : heap[i].type = "CONTAINER" /\ H # {} => heap[i].exc \in H

Good(H, bs) ==
  /\ DOMAIN bs = BuilderFields
  /\ OperandsOK(bs.stack, bs.hist)
  /\ HeapOK(bs.heap)
  /\ bs.cur \in 1 .. Len(bs.heap)
  /\ ZceShape(bs.zce)
  /\ NestedIn(bs.heap, bs.blocks, Held(bs.zce))
  /\ TreeIn(bs.heap, OpenOf(bs.blocks), Table(bs.heap, H))
  /\ Held(bs.zce) \subseteq Table(bs.heap, H)
  /\ OnlyTable(bs.heap, H)
  /\ ParkedIn(bs.heap, OpenOf(bs.blocks), bs.zce.pending, H)
  /\ ChainOK(bs.zce)

\* curblock is the innermost open block
Settled(bs) == 1 <= Len(bs.blocks) /\ bs.cur = TopId(bs)

-----------------------------------------------------------------------------
(* Sequences *)

LEMMA IntervalLen ==
  ASSUME NEW n \in Nat, NEW m \in Nat, 1 .. n = 1 .. m
  PROVE  n = m
<1>1. CASE n < m
  <2>1. m \in 1 .. m /\ m \notin 1 .. n  BY <1>1
  <2> QED  BY <2>1
<1>2. CASE m < n
  <2>1. n \in 1 .. n /\ n \notin 1 .. m  BY <1>2
  <2> QED  BY <2>1
<1> QED  BY <1>1, <1>2

\* a function on 1 .. n is a sequence of length n
LEMMA FcnIsSeq ==
  ASSUME NEW n \in Nat, NEW f, f = [i \in 1 .. n |-> f[i]]
  PROVE  IsSeq(f) /\ Len(f) = n /\ DOMAIN f = 1 .. n
<1> DEFINE S == {f[i] : i \in 1 .. n}
<1>1. f \in Seq(S)  BY SeqDef
<1>2. Len(f) \in Nat /\ DOMAIN f = 1 .. Len(f)  BY <1>1, LenProperties
<1>3. 1 .. Len(f) = 1 .. n  BY <1>2
<1>4. Len(f) = n  BY <1>2, <1>3, IntervalLen
<1> QED  BY <1>2, <1>4 DEF IsSeq

LEMMA SeqIsSeq ==
  ASSUME NEW S, NEW s \in Seq(S)
  PROVE  IsSeq(s)
BY LenProperties DEF IsSeq

LEMMA IsSeqDomain ==
  ASSUME NEW s, IsSeq(s)
  PROVE  DOMAIN s = 1 .. Len(s) /\ Len(s) \in Nat
BY DEF IsSeq

LEMMA IsSeqElements ==
  ASSUME NEW s, IsSeq(s), NEW T, \A i \in 1 .. Len(s) : s[i] \in T
  PROVE  s \in Seq(T)
<1>1. s \in [1 .. Len(s) -> T]  BY DEF IsSeq
<1> QED  BY <1>1, SeqDef DEF IsSeq

LEMMA EmptySeqLen ==
  /\ IsSeq(<<>>) /\ Len(<<>>) = 0
  /\ \A s : IsSeq(s) => (s = <<>> <=> Len(s) = 0)
<1>1. IsSeq(<<>>) /\ Len(<<>>) = 0
  <2>1. <<>> \in Seq({}) /\ Len(<<>>) = 0  BY EmptySeq
  <2> QED  BY <2>1, SeqIsSeq
<1>2. ASSUME NEW s, IsSeq(s), Len(s) = 0  PROVE s = <<>>
  <2>1. s \in Seq({})  BY <1>2, IsSeqElements
  <2> QED  BY <1>2, <2>1, EmptySeq
<1> QED  BY <1>1, <1>2

LEMMA AppendSeq ==
  ASSUME NEW s, IsSeq(s), NEW e
  PROVE  /\ IsSeq(Append(s, e)) /\ Len(Append(s, e)) = Len(s) + 1
         /\ \A i \in 1 .. Len(s) : Append(s, e)[i] = s[i]
         /\ Append(s, e)[Len(s) + 1] = e
<1> DEFINE T == {s[i] : i \in 1 .. Len(s)} \cup {e}
<1>1. s \in Seq(T)  BY IsSeqElements
<1>2. e \in T  OBVIOUS
<1> HIDE DEF T
<1>3. Append(s, e) \in Seq(T)  BY <1>1, <1>2, AppendProperties
<1>4. IsSeq(Append(s, e))  BY <1>3, SeqIsSeq
<1>5. /\ Len(Append(s, e)) = Len(s) + 1
      /\ \A i \in 1 .. Len(s) : Append(s, e)[i] = s[i]
      /\ Append(s, e)[Len(s) + 1] = e
  BY <1>1, <1>2, AppendProperties
<1> QED  BY <1>4, <1>5

LEMMA SubSeqSeq ==
  ASSUME NEW s, IsSeq(s), NEW n \in 0 .. Len(s)
  PROVE  /\ IsSeq(SubSeq(s, 1, n)) /\ Len(SubSeq(s, 1, n)) = n
         /\ \A i \in 1 .. n : SubSeq(s, 1, n)[i] = s[i]
<1> DEFINE T == {s[i] : i \in 1 .. Len(s)}
<1>1. s \in Seq(T)  BY IsSeqElements
<1>2. Len(s) \in Nat  BY DEF IsSeq
<1>3. \A i \in 1 .. n : s[i] \in T  BY <1>2
<1> HIDE DEF T
<1>4. /\ SubSeq(s, 1, n) \in Seq(T)
      /\ Len(SubSeq(s, 1, n)) = IF 1 <= n THEN n - 1 + 1 ELSE 0
      /\ \A i \in 1 .. n - 1 + 1 : SubSeq(s, 1, n)[i] = s[1 + i - 1]
  BY <1>2, <1>3, SubSeqProperties
<1>5. IsSeq(SubSeq(s, 1, n))  BY <1>4, SeqIsSeq
<1>6. Len(SubSeq(s, 1, n)) = n  BY <1>2, <1>4
<1>7. \A i \in 1 .. n : SubSeq(s, 1, n)[i] = s[i]  BY <1>2, <1>4
<1> QED  BY <1>5, <1>6, <1>7

LEMMA PopSeq ==
  ASSUME NEW s, IsSeq(s)
  PROVE  /\ IsSeq(PopFrom(s))
         /\ Len(s) = 0 => PopFrom(s) = s
         /\ 1 <= Len(s) => /\ Len(PopFrom(s)) = Len(s) - 1
                           /\ \A i \in 1 .. Len(s) - 1 : PopFrom(s)[i] = s[i]
<1>1. CASE Len(s) = 0
  BY <1>1, EmptySeqLen DEF PopFrom
<1>2. CASE 1 <= Len(s)
  <2>1. s # <<>> /\ Len(s) - 1 \in 0 .. Len(s)  BY <1>2, EmptySeqLen DEF IsSeq
  <2>2. PopFrom(s) = SubSeq(s, 1, Len(s) - 1)  BY <2>1 DEF PopFrom
  <2>3. /\ IsSeq(SubSeq(s, 1, Len(s) - 1)) /\ Len(SubSeq(s, 1, Len(s) - 1)) = Len(s) - 1
        /\ \A i \in 1 .. Len(s) - 1 : SubSeq(s, 1, Len(s) - 1)[i] = s[i]
    BY <2>1, SubSeqSeq
  <2> QED  BY <1>2, <2>2, <2>3
<1>3. Len(s) = 0 \/ 1 <= Len(s)  BY DEF IsSeq
<1> QED  BY <1>1, <1>2, <1>3

LEMMA ConcatSeq ==
  ASSUME NEW s, IsSeq(s), NEW t, IsSeq(t)
  PROVE  /\ IsSeq(s \o t) /\ Len(s \o t) = Len(s) + Len(t)
         /\ \A i \in 1 .. Len(s) : (s \o t)[i] = s[i]
         /\ \A i \in 1 .. Len(t) : (s \o t)[Len(s) + i] = t[i]
         /\ \A i \in 1 .. Len(s) + Len(t) :
              (s \o t)[i] = IF i <= Len(s) THEN s[i] ELSE t[i - Len(s)]
<1> DEFINE T == {s[i] : i \in 1 .. Len(s)} \cup {t[i] : i \in 1 .. Len(t)}
<1>1. s \in Seq(T) /\ t \in Seq(T)  BY IsSeqElements
<1> HIDE DEF T
<1>2. s \o t \in Seq(T)  BY <1>1, ConcatProperties
<1>3. Len(s) \in Nat /\ Len(t) \in Nat  BY DEF IsSeq
<1>4. /\ Len(s \o t) = Len(s) + Len(t)
      /\ \A i \in 1 .. Len(s) + Len(t) :
           (s \o t)[i] = IF i <= Len(s) THEN s[i] ELSE t[i - Len(s)]
  BY <1>1, ConcatProperties
<1>5. IsSeq(s \o t)  BY <1>2, SeqIsSeq
<1>6. \A i \in 1 .. Len(s) : (s \o t)[i] = s[i]  BY <1>3, <1>4
<1>7. ASSUME NEW i \in 1 .. Len(t)  PROVE (s \o t)[Len(s) + i] = t[i]
  <2>1. Len(s) + i \in 1 .. Len(s) + Len(t) /\ ~(Len(s) + i <= Len(s)) /\ Len(s) + i - Len(s) = i
    BY <1>3
  <2> QED  BY <1>4, <2>1
<1> QED  BY <1>4, <1>5, <1>6, <1>7

-----------------------------------------------------------------------------
(* From one builder state to another.  Final: what x has closed is the     *)
(* same in y, and still closed; and no handler but one that x was          *)
(* rebuilding is being rebuilt.                                            *)
Final(x, y) ==
  /\ Len(x.heap) <= Len(y.heap)
  /\ \A i \in 1 .. Len(x.heap) :
       /\ y.heap[i].type = x.heap[i].type
       /\ i \in OpenOf(x.blocks) \/ (y.heap[i] = x.heap[i] /\ i \notin OpenOf(y.blocks))
  /\ y.zce.now.active <= x.zce.now.active

Stays(H, x, y) ==
  /\ Good(H, y) /\ Final(x, y)
  /\ y.blocks = x.blocks /\ y.cur = x.cur
  /\ y.fault = "none" => x.fault = "none"

\* the same handlers are being rebuilt
SameHandlers(z1, z2) ==
  /\ ZceShape(z2)
  /\ z1.outer = z2.outer /\ z1.pending = z2.pending
  /\ z1.now.active = z2.now.active /\ z1.now.container = z2.now.container

\* only operands have changed, or a flag of the handler
OperandMove(x, y) ==
  /\ DOMAIN y = BuilderFields
  /\ OperandsOK(y.stack, y.hist)
  /\ y.heap = x.heap /\ y.blocks = x.blocks /\ y.cur = x.cur
  /\ SameHandlers(x.zce, y.zce)
  /\ y.fault = "none" => x.fault = "none"

LEMMA SameHandlersHeld ==
  ASSUME NEW z1, NEW z2, SameHandlers(z1, z2), ChainOK(z1)
  PROVE  Held(z2) = Held(z1) /\ ChainOK(z2)
BY DEF SameHandlers, Held, ChainOK

LEMMA StaysGood ==
  ASSUME NEW H, NEW x, NEW bs, Stays(H, x, bs)
  PROVE  Good(H, bs)
BY DEF Stays

LEMMA StaysSelf ==
  ASSUME NEW H, NEW x, Good(H, x)
  PROVE  Stays(H, x, x)
<1>1. \A i \in 1 .. Len(x.heap) : i \in OpenOf(x.blocks) \/ i \notin OpenOf(x.blocks)
  OBVIOUS
<1>2. Len(x.heap) <= Len(x.heap) /\ x.zce.now.active <= x.zce.now.active
  BY DEF Good, HeapOK, IsSeq, ChainOK
<1>3. Final(x, x)  BY <1>1, <1>2 DEF Final
<1> QED  BY <1>3 DEF Stays

\* the lemma of all moves on the operand stack
LEMMA OperandStays ==
  ASSUME NEW H, NEW x, NEW bs, NEW y, Stays(H, x, bs), OperandMove(bs, y)
  PROVE  Stays(H, x, y)
<1>1. Held(y.zce) = Held(bs.zce) /\ ChainOK(y.zce) /\ ZceShape(y.zce)
  BY SameHandlersHeld DEF Stays, Good, OperandMove, SameHandlers
<1>2. Good(H, y)  BY <1>1 DEF Stays, Good, OperandMove, SameHandlers
<1>3. Final(x, y)  BY DEF Stays, Final, OperandMove, SameHandlers
<1> QED  BY <1>2, <1>3 DEF Stays, OperandMove

LEMMA NodePlain ==
  ASSUME NEW kind, NEW id, NEW args, kind # "block", kind # "kwmap"
  PROVE  Plain(Node(kind, id, args))
BY DEF Plain, Node, NodeFields

LEMMA NullPlain == Plain(Null)
BY NodePlain DEF Null

LEMMA ArgPlain ==
  ASSUME NEW H, NEW bs, Good(H, bs), NEW i
  PROVE  Plain(Arg(bs, i))
<1>1. CASE i \in 1 .. Len(bs.stack)
  <2>1. Len(bs.stack) + 1 - i \in 1 .. Len(bs.stack)
    BY <1>1 DEF Good, OperandsOK, PlainSeq, IsSeq
  <2>2. Plain(bs.stack[Len(bs.stack) + 1 - i])
    BY <2>1 DEF Good, OperandsOK, PlainSeq
  <2> QED  BY <1>1, <2>2 DEF Arg, TopAt
<1>2. CASE i \notin 1 .. Len(bs.stack)
  BY <1>2, NullPlain DEF Arg, TopAt
<1> QED  BY <1>1, <1>2

LEMMA SameHandlersSelf ==
  ASSUME NEW H, NEW bs, Good(H, bs)
  PROVE  SameHandlers(bs.zce, bs.zce)
BY DEF SameHandlers, Good

\* a new operand stack
LEMMA StackMove ==
  ASSUME NEW H, NEW bs, Good(H, bs), NEW s, PlainSeq(s)
  PROVE  OperandMove(bs, [bs EXCEPT !.stack = s])
BY SameHandlersSelf DEF OperandMove, Good, BuilderFields, OperandsOK

LEMMA PushStays ==
  ASSUME NEW H, NEW x, NEW bs, Stays(H, x, bs), NEW n, Plain(n)
  PROVE  Stays(H, x, Push(bs, n))
<1>1. PlainSeq(bs.stack)  BY DEF Stays, Good, OperandsOK
<1>2. PlainSeq(Append(bs.stack, n))
  <2>1. IsSeq(bs.stack) /\ Len(bs.stack) \in Nat  BY <1>1 DEF PlainSeq, IsSeq
  <2> QED  BY <1>1, <2>1, AppendSeq DEF PlainSeq
<1>3. Push(bs, n) = [bs EXCEPT !.stack = Append(bs.stack, n)]  BY DEF Push, PushTo
<1> QED  BY <1>2, <1>3, StackMove, OperandStays, StaysGood

LEMMA PopStays ==
  ASSUME NEW H, NEW x, NEW bs, Stays(H, x, bs)
  PROVE  Stays(H, x, Pop(bs))
<1>1. PlainSeq(bs.stack)  BY DEF Stays, Good, OperandsOK
<1>2. PlainSeq(PopFrom(bs.stack))
  <2>1. IsSeq(bs.stack) /\ Len(bs.stack) \in Nat  BY <1>1 DEF PlainSeq, IsSeq
  <2>2. CASE Len(bs.stack) = 0  BY <1>1, <2>1, <2>2, PopSeq
  <2>3. CASE 1 <= Len(bs.stack)  BY <1>1, <2>1, <2>3, PopSeq DEF PlainSeq
  <2> QED  BY <2>1, <2>2, <2>3
<1>3. Pop(bs) = [bs EXCEPT !.stack = PopFrom(bs.stack)]  BY DEF Pop
<1> QED  BY <1>2, <1>3, StackMove, OperandStays, StaysGood

LEMMA DropSeq ==
  ASSUME NEW s, PlainSeq(s), NEW n \in Int
  PROVE  PlainSeq(DropFrom(s, n))
<1>1. IsSeq(s) /\ Len(s) \in Nat  BY DEF PlainSeq, IsSeq
<1>2. CASE n <= 0  BY <1>2 DEF DropFrom
<1>3. CASE ~(n <= 0)
  <2> DEFINE m == IF n < Len(s) THEN Len(s) - n ELSE 0
  <2>1. m \in 0 .. Len(s)  BY <1>1, <1>3
  <2>2. DropFrom(s, n) = SubSeq(s, 1, m)  BY <1>3 DEF DropFrom
  <2> HIDE DEF m
  <2>3. IsSeq(SubSeq(s, 1, m)) /\ Len(SubSeq(s, 1, m)) = m
        /\ \A i \in 1 .. m : SubSeq(s, 1, m)[i] = s[i]
    BY <1>1, <2>1, SubSeqSeq
  <2> QED  BY <1>1, <2>1, <2>2, <2>3 DEF PlainSeq
<1> QED  BY <1>2, <1>3

LEMMA DropStays ==
  ASSUME NEW H, NEW x, NEW bs, Stays(H, x, bs), NEW n \in Int
  PROVE  Stays(H, x, Drop(bs, n))
<1>1. PlainSeq(DropFrom(bs.stack, n))  BY DropSeq DEF Stays, Good, OperandsOK
<1>2. Drop(bs, n) = [bs EXCEPT !.stack = DropFrom(bs.stack, n)]  BY DEF Drop
<1> QED  BY <1>1, <1>2, StackMove, OperandStays, StaysGood

LEMMA CrashStays ==
  ASSUME NEW H, NEW x, NEW bs, Stays(H, x, bs), NEW what, what # "none"
  PROVE  Stays(H, x, Crash(bs, what)) /\ Crash(bs, what).fault # "none"
<1>1. Good(H, bs)  BY StaysGood
<1>2. SameHandlers(bs.zce, bs.zce)  BY <1>1, SameHandlersSelf
<1>3. OperandMove(bs, Crash(bs, what)) /\ Crash(bs, what).fault # "none"
  BY <1>1, <1>2 DEF Crash, OperandMove, Good, BuilderFields
<1> QED  BY <1>3, OperandStays

\* a new history, or a new stack and a new history
LEMMA HistMove ==
  ASSUME NEW H, NEW bs, Good(H, bs), NEW h, IsSeq(h), \A i \in 1 .. Len(h) : PlainSeq(h[i])
  PROVE  /\ OperandMove(bs, [bs EXCEPT !.hist = h])
         /\ \A s : PlainSeq(s) => OperandMove(bs, [bs EXCEPT !.stack = s, !.hist = h])
BY SameHandlersSelf DEF OperandMove, Good, BuilderFields, OperandsOK

LEMMA SaveStays ==
  ASSUME NEW H, NEW x, NEW bs, Stays(H, x, bs)
  PROVE  Stays(H, x, SaveStack(bs))
<1>1. Good(H, bs) /\ PlainSeq(bs.stack) /\ IsSeq(bs.hist)
      /\ \A i \in 1 .. Len(bs.hist) : PlainSeq(bs.hist[i])
  BY DEF Stays, Good, OperandsOK
<1> DEFINE h == Append(bs.hist, bs.stack)
<1>2. IsSeq(h) /\ \A i \in 1 .. Len(h) : PlainSeq(h[i])
  <2>1. Len(bs.hist) \in Nat  BY <1>1 DEF IsSeq
  <2> QED  BY <1>1, <2>1, AppendSeq
<1>3. SaveStack(bs) = [bs EXCEPT !.hist = h]  BY DEF SaveStack
<1> HIDE DEF h
<1>4. OperandMove(bs, [bs EXCEPT !.hist = h])  BY <1>1, <1>2, HistMove
<1> QED  BY <1>3, <1>4, OperandStays

\* the saved stacks but the last
LEMMA FrontOfHist ==
  ASSUME NEW H, NEW bs, Good(H, bs), bs.hist # <<>>
  PROVE  /\ IsSeq(PopFrom(bs.hist)) /\ PlainSeq(bs.hist[Len(bs.hist)])
         /\ \A i \in 1 .. Len(PopFrom(bs.hist)) : PlainSeq(PopFrom(bs.hist)[i])
<1>1. IsSeq(bs.hist) /\ \A i \in 1 .. Len(bs.hist) : PlainSeq(bs.hist[i])
  BY DEF Good, OperandsOK
<1>2. Len(bs.hist) \in Nat /\ 1 <= Len(bs.hist)  BY <1>1, EmptySeqLen DEF IsSeq
<1>3. /\ IsSeq(PopFrom(bs.hist)) /\ Len(PopFrom(bs.hist)) = Len(bs.hist) - 1
      /\ \A i \in 1 .. Len(bs.hist) - 1 : PopFrom(bs.hist)[i] = bs.hist[i]
  BY <1>1, <1>2, PopSeq
<1> QED  BY <1>1, <1>2, <1>3

LEMMA ForgetStays ==
  ASSUME NEW H, NEW x, NEW bs, Stays(H, x, bs)
  PROVE  Stays(H, x, ForgetStack(bs))
<1>1. Good(H, bs)  BY StaysGood
<1>2. CASE bs.fault = "none" /\ bs.hist # <<>>
  <2>1. OperandMove(bs, [bs EXCEPT !.hist = PopFrom(bs.hist)])
    BY <1>1, <1>2, FrontOfHist, HistMove
  <2>2. ForgetStack(bs) = [bs EXCEPT !.hist = PopFrom(bs.hist)]
    BY <1>2 DEF ForgetStack, WithHist
  <2> QED  BY <2>1, <2>2, OperandStays
<1>3. CASE ~(bs.fault = "none" /\ bs.hist # <<>>)
  BY <1>3, CrashStays DEF ForgetStack, WithHist
<1> QED  BY <1>2, <1>3

LEMMA RestoreStays ==
  ASSUME NEW H, NEW x, NEW bs, Stays(H, x, bs)
  PROVE  Stays(H, x, RestoreStack(bs))
<1>1. Good(H, bs)  BY StaysGood
<1>2. CASE bs.fault = "none" /\ bs.hist # <<>>
  <2>1. OperandMove(bs, [bs EXCEPT !.stack = bs.hist[Len(bs.hist)], !.hist = PopFrom(bs.hist)])
    BY <1>1, <1>2, FrontOfHist, HistMove
  <2>2. RestoreStack(bs) = [bs EXCEPT !.stack = bs.hist[Len(bs.hist)], !.hist = PopFrom(bs.hist)]
    BY <1>2 DEF RestoreStack, WithHist
  <2> QED  BY <2>1, <2>2, OperandStays
<1>3. CASE ~(bs.fault = "none" /\ bs.hist # <<>>)
  BY <1>3, CrashStays DEF RestoreStack, WithHist
<1> QED  BY <1>2, <1>3

\* a stack whose nodes got an identity or more operands
LEMMA TouchedSeq ==
  ASSUME NEW s, PlainSeq(s), NEW t, t = [i \in 1 .. Len(s) |-> t[i]],
         \A i \in 1 .. Len(s) : Plain(t[i])
  PROVE  PlainSeq(t)
<1>1. Len(s) \in Nat  BY DEF PlainSeq, IsSeq
<1>2. IsSeq(t) /\ Len(t) = Len(s)  BY <1>1, FcnIsSeq
<1> QED  BY <1>2 DEF PlainSeq

LEMMA MadeStays ==
  ASSUME NEW H, NEW x, NEW bs, Stays(H, x, bs), NEW at
  PROVE  Stays(H, x, Made(bs, at))
<1>1. Good(H, bs) /\ PlainSeq(bs.stack)  BY DEF Stays, Good, OperandsOK
<1> DEFINE t == [i \in 1 .. Len(bs.stack) |->
                  IF bs.stack[i] # Null /\ bs.stack[i].made = 0
                  THEN [bs.stack[i] EXCEPT !.made = at] ELSE bs.stack[i]]
<1>2. DOMAIN bs.stack = 1 .. Len(bs.stack)  BY <1>1, IsSeqDomain DEF PlainSeq
<1>3. Made(bs, at) = [bs EXCEPT !.stack = t]  BY <1>2 DEF Made
<1>4. ASSUME NEW i \in 1 .. Len(bs.stack)  PROVE Plain(t[i])
  <2>1. Plain(bs.stack[i])  BY <1>1 DEF PlainSeq
  <2> QED  BY <2>1 DEF Plain, NodeFields
<1>5. t = [i \in 1 .. Len(bs.stack) |-> t[i]]  OBVIOUS
<1> HIDE DEF t
<1>6. PlainSeq(t)  BY <1>1, <1>4, <1>5, TouchedSeq
<1> QED  BY <1>1, <1>3, <1>6, StackMove, OperandStays

LEMMA ProcessedStays ==
  ASSUME NEW H, NEW x, NEW bs, Stays(H, x, bs), NEW node
  PROVE  Stays(H, x, SetProcessed(bs, node))
<1>1. Good(H, bs)  BY StaysGood
<1>2. SameHandlers(bs.zce, bs.zce)  BY <1>1, SameHandlersSelf
<1>3. OperandMove(bs, SetProcessed(bs, node))
  BY <1>1, <1>2 DEF SetProcessed, OperandMove, Good, BuilderFields
<1> QED  BY <1>3, OperandStays

\* the same of a map that is added to
LEMMA AddedSeq ==
  ASSUME NEW s, PlainSeq(s), NEW made, NEW kv, IsSeq(kv)
  PROVE  PlainSeq([i \in DOMAIN s |-> IF s[i].made = made
                                      THEN [s[i] EXCEPT !.args = @ \o kv] ELSE s[i]])
<1> DEFINE t == [i \in 1 .. Len(s) |-> IF s[i].made = made
                                       THEN [s[i] EXCEPT !.args = s[i].args \o kv] ELSE s[i]]
<1>1. DOMAIN s = 1 .. Len(s)  BY IsSeqDomain DEF PlainSeq
<1>2. ASSUME NEW i \in 1 .. Len(s)  PROVE Plain(t[i])
  <2>1. Plain(s[i])  BY DEF PlainSeq
  <2>2. IsSeq(s[i].args) => IsSeq(s[i].args \o kv)  BY ConcatSeq
  <2>3. Plain([s[i] EXCEPT !.args = s[i].args \o kv])  BY <2>1, <2>2 DEF Plain, NodeFields
  <2> QED  BY <2>1, <2>3
<1>3. t = [i \in 1 .. Len(s) |-> t[i]]  OBVIOUS
<1>4. t = [i \in DOMAIN s |-> IF s[i].made = made
                              THEN [s[i] EXCEPT !.args = @ \o kv] ELSE s[i]]
  BY <1>1
<1> HIDE DEF t
<1>5. PlainSeq(t)  BY <1>2, <1>3, TouchedSeq
<1> QED  BY <1>4, <1>5

LEMMA PairSeq ==
  ASSUME NEW u, NEW v
  PROVE  IsSeq(<<u, v>>) /\ Len(<<u, v>>) = 2
<1>1. <<u, v>> \in Seq({u, v}) /\ Len(<<u, v>>) = 2  OBVIOUS
<1> QED  BY <1>1, SeqIsSeq

LEMMA AddToMapStays ==
  ASSUME NEW H, NEW x, NEW bs, Stays(H, x, bs), NEW map, NEW key, NEW value
  PROVE  Stays(H, x, AddToMap(bs, map, key, value))
<1>1. Good(H, bs) /\ PlainSeq(bs.stack) /\ IsSeq(bs.hist)
      /\ \A i \in 1 .. Len(bs.hist) : PlainSeq(bs.hist[i])
  BY DEF Stays, Good, OperandsOK
<1> DEFINE Added(s) == [i \in DOMAIN s |-> IF s[i].made = map.made
                                           THEN [s[i] EXCEPT !.args = @ \o <<key, value>>] ELSE s[i]]
           h == [i \in 1 .. Len(bs.hist) |-> Added(bs.hist[i])]
<1>2. IsSeq(<<key, value>>)  BY PairSeq
<1>3. \A s : PlainSeq(s) => PlainSeq(Added(s))  BY <1>2, AddedSeq
<1>4. DOMAIN bs.hist = 1 .. Len(bs.hist) /\ Len(bs.hist) \in Nat  BY <1>1, IsSeqDomain
<1>5. AddToMap(bs, map, key, value) = [bs EXCEPT !.stack = Added(bs.stack), !.hist = h]
  BY <1>4 DEF AddToMap
<1>6. \A i \in 1 .. Len(bs.hist) : h[i] = Added(bs.hist[i])  OBVIOUS
<1>7. h = [i \in 1 .. Len(bs.hist) |-> h[i]]  OBVIOUS
<1> HIDE DEF Added, h
<1>8. IsSeq(h) /\ Len(h) = Len(bs.hist)  BY <1>4, <1>7, FcnIsSeq
<1>9. \A i \in 1 .. Len(h) : PlainSeq(h[i])  BY <1>1, <1>3, <1>6, <1>8
<1>10. OperandMove(bs, [bs EXCEPT !.stack = Added(bs.stack), !.hist = h])
  BY <1>1, <1>3, <1>8, <1>9, HistMove
<1> QED  BY <1>5, <1>10, OperandStays

\* the operands that a handler takes
LEMMA ArgsSeq ==
  ASSUME NEW H, NEW bs, Good(H, bs), NEW n \in Nat
  PROVE  /\ PlainSeq(Args(bs, n)) /\ Len(Args(bs, n)) = n /\ IsSeq(Args(bs, n))
         /\ \A i \in 1 .. n : Plain(Args(bs, n)[i])
<1> DEFINE t == Args(bs, n)
<1>1. t = [i \in 1 .. n |-> t[i]] /\ \A i \in 1 .. n : t[i] = TopAt(bs.stack, n + 1 - i)
  BY DEF Args
<1>2. \A i \in 1 .. n : Plain(t[i])  BY <1>1, ArgPlain DEF Arg
<1> HIDE DEF t
<1>3. IsSeq(t) /\ Len(t) = n  BY <1>1, FcnIsSeq
<1>4. PlainSeq(t)  BY <1>2, <1>3 DEF PlainSeq
<1> QED  BY <1>2, <1>3, <1>4 DEF t

\* more operands on top of a stack
LEMMA ConcatPlain ==
  ASSUME NEW s, PlainSeq(s), NEW t, PlainSeq(t)
  PROVE  PlainSeq(s \o t)
<1>1. IsSeq(s) /\ IsSeq(t) /\ Len(s) \in Nat /\ Len(t) \in Nat  BY DEF PlainSeq, IsSeq
<1>2. ASSUME NEW i \in 1 .. Len(s) + Len(t)  PROVE Plain((s \o t)[i])
  <2>1. (s \o t)[i] = IF i <= Len(s) THEN s[i] ELSE t[i - Len(s)]  BY <1>1, ConcatSeq
  <2>2. i <= Len(s) \/ i - Len(s) \in 1 .. Len(t)  BY <1>1
  <2> QED  BY <1>1, <2>1, <2>2 DEF PlainSeq
<1> QED  BY <1>1, <1>2, ConcatSeq DEF PlainSeq

LEMMA StackStays ==
  ASSUME NEW H, NEW x, NEW bs, Stays(H, x, bs), NEW s, PlainSeq(s)
  PROVE  Stays(H, x, [bs EXCEPT !.stack = s])
BY StackMove, OperandStays, StaysGood

-----------------------------------------------------------------------------
(* Moves that change an open block, but link nothing                       *)

\* block i has become blk
HeapMove(x, y, i, blk) ==
  /\ DOMAIN y = BuilderFields
  /\ OperandsOK(y.stack, y.hist)
  /\ y.heap = [x.heap EXCEPT ![i] = blk]
  /\ y.blocks = x.blocks /\ y.cur = x.cur
  /\ SameHandlers(x.zce, y.zce)
  /\ y.fault = "none" => x.fault = "none"

\* blk has no more links than the block old of heap, and still those to containers
NoNewLink(heap, old, blk) ==
  /\ \A k \in 1 .. Len(blk.nodes) :
       blk.nodes[k].kind = "block" => k \in 1 .. Len(old.nodes) /\ old.nodes[k] = blk.nodes[k]
  /\ \A k \in 1 .. Len(old.nodes) :
       old.nodes[k].kind = "block" /\ heap[old.nodes[k].id].type = "CONTAINER" =>
         k \in 1 .. Len(blk.nodes) /\ blk.nodes[k] = old.nodes[k]

\* t is s but for its i-th element
Replaced(s, i, e, t) == t = [s EXCEPT ![i] = e]

LEMMA ExceptSeqLen ==
  ASSUME NEW s, IsSeq(s), NEW i \in 1 .. Len(s), NEW e, NEW t, Replaced(s, i, e, t)
  PROVE  /\ IsSeq(t) /\ Len(t) = Len(s) /\ t[i] = e
         /\ \A j \in 1 .. Len(s) : j # i => t[j] = s[j]
<1>1. DOMAIN s = 1 .. Len(s) /\ Len(s) \in Nat  BY IsSeqDomain
<1>2. t = [j \in 1 .. Len(s) |-> t[j]] /\ t[i] = e
      /\ \A j \in 1 .. Len(s) : j # i => t[j] = s[j]
  BY <1>1 DEF Replaced
<1>3. IsSeq(t) /\ Len(t) = Len(s)  BY <1>1, <1>2, FcnIsSeq
<1> QED  BY <1>2, <1>3

LEMMA OpenInHeap ==
  ASSUME NEW H, NEW bs, Good(H, bs), NEW i \in OpenOf(bs.blocks)
  PROVE  i \in 1 .. Len(bs.heap)
BY DEF Good, NestedIn, OpenOf

LEMMA HeapStays ==
  ASSUME NEW H, NEW x, NEW bs, Stays(H, x, bs), NEW y, NEW i \in OpenOf(bs.blocks), NEW blk,
         HeapMove(bs, y, i, blk),
         BlockOK(blk), blk.type = bs.heap[i].type, blk.exc = bs.heap[i].exc \/ H = {},
         NoNewLink(bs.heap, bs.heap[i], blk)
  PROVE  Stays(H, x, y)
<1> DEFINE h == bs.heap
           g == y.heap
<1>1. Good(H, bs)  BY StaysGood
<1>2. i \in 1 .. Len(h) /\ IsSeq(h)  BY <1>1, OpenInHeap DEF Good, HeapOK
<1>3. /\ IsSeq(g) /\ Len(g) = Len(h) /\ g[i] = blk
      /\ \A j \in 1 .. Len(h) : j # i => g[j] = h[j]
  <2>1. Replaced(h, i, blk, g)  BY DEF HeapMove, Replaced
  <2> QED  BY <1>2, <2>1, ExceptSeqLen
<1>4. \A j \in 1 .. Len(h) : g[j].type = h[j].type /\ (g[j].exc = h[j].exc \/ H = {})
  BY <1>3
<1>5. HeapOK(g)
  BY <1>1, <1>3, <1>4 DEF Good, HeapOK
<1>6. Table(g, H) = Table(h, H)  BY <1>3, <1>4 DEF Table
<1>7. \A j, k : LinkAt(g, j, k) => LinkAt(h, j, k) /\ To(g, j, k) = To(h, j, k)
  BY <1>2, <1>3 DEF LinkAt, To, NoNewLink
<1>8. \A c \in Table(h, H) : Linked(h, c) => Linked(g, c)
  <2> SUFFICES ASSUME NEW c \in Table(h, H), NEW j, NEW k, LinkAt(h, j, k), To(h, j, k) = c
               PROVE  LinkAt(g, j, k) /\ To(g, j, k) = c
    BY DEF Linked
  <2>1. h[c].type = "CONTAINER"  BY DEF Table
  <2> QED  BY <1>2, <1>3, <2>1 DEF LinkAt, To, NoNewLink
<1>9. Held(y.zce) = Held(bs.zce) /\ ChainOK(y.zce) /\ ZceShape(y.zce)
  BY <1>1, SameHandlersHeld DEF Good, HeapMove, SameHandlers
<1>10. NestedIn(g, y.blocks, Held(y.zce))
  BY <1>1, <1>3, <1>9 DEF Good, NestedIn, HeapMove
<1>11. TreeIn(g, OpenOf(y.blocks), Table(g, H))
  <2> DEFINE open == OpenOf(bs.blocks)
             table == Table(h, H)
  <2>1. TreeIn(h, open, table)  BY <1>1 DEF Good
  <2> HIDE DEF open, table, h, g
  <2>2. TreeIn(g, open, table)
    BY <1>3, <1>7, <2>1 DEF TreeIn
  <2> QED  BY <1>6, <2>2 DEF HeapMove, open, table, h, g
<1>12. OnlyTable(g, H)  BY <1>1, <1>3, <1>4 DEF Good, OnlyTable
<1>13. ParkedIn(g, OpenOf(y.blocks), y.zce.pending, H)
  <2> SUFFICES ASSUME NEW p \in bs.zce.pending
               PROVE  /\ p = <<p[1], p[2]>> /\ p[1] \in H
                      /\ p[2] \in Table(g, H) /\ g[p[2]].exc = p[1]
                      /\ p[2] \notin OpenOf(bs.blocks) /\ Linked(g, p[2])
    BY DEF ParkedIn, HeapMove, SameHandlers
  <2>1. /\ p = <<p[1], p[2]>> /\ p[1] \in H
        /\ p[2] \in Table(h, H) /\ h[p[2]].exc = p[1]
        /\ p[2] \notin OpenOf(bs.blocks) /\ Linked(h, p[2])
    BY <1>1 DEF Good, ParkedIn
  <2>2. g[p[2]].exc = p[1]  BY <1>4, <2>1 DEF Table
  <2> QED  BY <1>6, <1>8, <2>1, <2>2
<1>14. Good(H, y)
  BY <1>1, <1>3, <1>5, <1>6, <1>9, <1>10, <1>11, <1>12, <1>13 DEF Good, HeapMove
<1>15. Final(x, y)
  BY <1>2, <1>3, <1>4 DEF Stays, Final, HeapMove, SameHandlers, Good, HeapOK, IsSeq
<1> QED  BY <1>14, <1>15 DEF Stays, HeapMove

\* curblock is one of the open blocks
CurOpen(bs) == bs.cur \in OpenOf(bs.blocks)

\* the nodes of block i have become ns
LEMMA NodesStays ==
  ASSUME NEW H, NEW x, NEW bs, Stays(H, x, bs), NEW i \in OpenOf(bs.blocks), NEW ns, IsSeq(ns),
         \A k \in 1 .. Len(ns) :
           ns[k].kind = "block" => k \in 1 .. Len(bs.heap[i].nodes) /\ bs.heap[i].nodes[k] = ns[k],
         \A k \in 1 .. Len(bs.heap[i].nodes) :
           bs.heap[i].nodes[k].kind = "block" /\ bs.heap[bs.heap[i].nodes[k].id].type = "CONTAINER" =>
             k \in 1 .. Len(ns) /\ ns[k] = bs.heap[i].nodes[k]
  PROVE  Stays(H, x, [bs EXCEPT !.heap[i].nodes = ns])
<1> DEFINE blk == [bs.heap[i] EXCEPT !.nodes = ns]
           y == [bs EXCEPT !.heap[i].nodes = ns]
<1>1. Good(H, bs) /\ i \in 1 .. Len(bs.heap)  BY StaysGood, OpenInHeap
<1>2. DOMAIN bs.heap[i] = BlockFields  BY <1>1 DEF Good, HeapOK, BlockOK
<1>3. blk.nodes = ns /\ blk.type = bs.heap[i].type /\ blk.exc = bs.heap[i].exc /\ DOMAIN blk = BlockFields
  BY <1>2 DEF BlockFields
<1>4. SameHandlers(bs.zce, bs.zce)  BY <1>1, SameHandlersSelf
<1>5. HeapMove(bs, y, i, blk)  BY <1>1, <1>4 DEF HeapMove, Good, BuilderFields
<1> HIDE DEF blk, y
<1>6. BlockOK(blk) /\ NoNewLink(bs.heap, bs.heap[i], blk)  BY <1>3 DEF BlockOK, NoNewLink
<1>7. Stays(H, x, y)  BY <1>3, <1>5, <1>6, HeapStays
<1> QED  BY <1>7 DEF y

\* something else of block i has changed: no link is touched
LEMMA FieldStays ==
  ASSUME NEW H, NEW x, NEW bs, Stays(H, x, bs), NEW y, NEW i \in OpenOf(bs.blocks), NEW blk,
         HeapMove(bs, y, i, blk), DOMAIN blk = BlockFields,
         blk.type = bs.heap[i].type, blk.nodes = bs.heap[i].nodes, blk.exc = bs.heap[i].exc \/ H = {}
  PROVE  Stays(H, x, y)
<1>1. Good(H, bs) /\ i \in 1 .. Len(bs.heap)  BY StaysGood, OpenInHeap
<1>2. IsSeq(bs.heap[i].nodes)  BY <1>1 DEF Good, HeapOK, BlockOK
<1>3. BlockOK(blk) /\ NoNewLink(bs.heap, bs.heap[i], blk)  BY <1>2 DEF BlockOK, NoNewLink
<1> QED  BY <1>3, HeapStays

LEMMA AppendStays ==
  ASSUME NEW H, NEW x, NEW bs, Stays(H, x, bs), NEW i \in OpenOf(bs.blocks),
         NEW n, n.kind # "block"
  PROVE  Stays(H, x, AppendAt(bs, i, n))
<1> DEFINE old == bs.heap[i].nodes
           ns == Append(old, n)
<1>1. Good(H, bs) /\ i \in 1 .. Len(bs.heap)  BY StaysGood, OpenInHeap
<1>2. IsSeq(old) /\ Len(old) \in Nat  BY <1>1 DEF Good, HeapOK, BlockOK, IsSeq
<1>3. /\ IsSeq(ns) /\ Len(ns) = Len(old) + 1 /\ ns[Len(old) + 1] = n
      /\ \A k \in 1 .. Len(old) : ns[k] = old[k]
  BY <1>2, AppendSeq
<1> HIDE DEF ns
<1>4. \A k \in 1 .. Len(ns) : ns[k].kind = "block" => k \in 1 .. Len(old) /\ old[k] = ns[k]
  BY <1>2, <1>3
<1>5. \A k \in 1 .. Len(old) : k \in 1 .. Len(ns) /\ ns[k] = old[k]
  BY <1>2, <1>3
<1>6. Stays(H, x, [bs EXCEPT !.heap[i].nodes = ns])
  BY <1>3, <1>4, <1>5, NodesStays
<1>7. CASE bs.fault = "none"
  <2>1. AppendAt(bs, i, n) = [bs EXCEPT !.heap[i].nodes = ns]
    BY <1>7 DEF AppendAt, ns
  <2> QED  BY <1>6, <2>1
<1>8. CASE bs.fault # "none"
  BY <1>8 DEF AppendAt
<1> QED  BY <1>7, <1>8

LEMMA EmitStays ==
  ASSUME NEW H, NEW x, NEW bs, Stays(H, x, bs), CurOpen(x), NEW n, n.kind # "block"
  PROVE  Stays(H, x, Emit(bs, n))
<1>1. bs.cur \in OpenOf(bs.blocks)  BY DEF Stays, CurOpen
<1> QED  BY <1>1, AppendStays DEF Emit

\* the last node of the current block is not a container
DropsNoContainer(bs) ==
  LET ns == bs.heap[bs.cur].nodes
  IN 1 <= Len(ns) /\ ns[Len(ns)].kind = "block" => bs.heap[ns[Len(ns)].id].type # "CONTAINER"

LEMMA RemoveLastStays ==
  ASSUME NEW H, NEW x, NEW bs, Stays(H, x, bs), CurOpen(x), DropsNoContainer(bs)
  PROVE  Stays(H, x, RemoveLast(bs))
<1> DEFINE i == bs.cur
           old == bs.heap[i].nodes
           ns == PopFrom(old)
<1>1. i \in OpenOf(bs.blocks)  BY DEF Stays, CurOpen
<1>2. Good(H, bs) /\ i \in 1 .. Len(bs.heap)  BY <1>1, StaysGood, OpenInHeap
<1>3. IsSeq(old) /\ Len(old) \in Nat  BY <1>2 DEF Good, HeapOK, BlockOK, IsSeq
<1>4. /\ IsSeq(ns)
      /\ Len(old) = 0 => ns = old
      /\ 1 <= Len(old) => Len(ns) = Len(old) - 1 /\ \A k \in 1 .. Len(old) - 1 : ns[k] = old[k]
  BY <1>3, PopSeq
<1>5. 1 <= Len(old) /\ old[Len(old)].kind = "block" => bs.heap[old[Len(old)].id].type # "CONTAINER"
  BY DEF DropsNoContainer
<1> HIDE DEF ns
<1>6. \A k \in 1 .. Len(ns) : k \in 1 .. Len(old) /\ old[k] = ns[k]
  BY <1>3, <1>4
<1>7. \A k \in 1 .. Len(old) :
        old[k].kind = "block" /\ bs.heap[old[k].id].type = "CONTAINER" => k \in 1 .. Len(ns) /\ ns[k] = old[k]
  BY <1>3, <1>4, <1>5
<1>8. Stays(H, x, [bs EXCEPT !.heap[i].nodes = ns])
  BY <1>1, <1>4, <1>6, <1>7, NodesStays
<1>9. RemoveLast(bs) = IF bs.fault # "none" THEN bs ELSE [bs EXCEPT !.heap[i].nodes = ns]
  BY DEF RemoveLast, ns
<1> QED  BY <1>8, <1>9

-----------------------------------------------------------------------------
(* Moves that open and close blocks                                        *)

\* y comes from x by the moves of a handler
Leads(H, x, y) ==
  /\ Good(H, x) /\ Good(H, y) /\ Final(x, y)
  /\ y.fault = "none" => x.fault = "none"

\* and has curblock in its place
Goes(H, x, y) == Leads(H, x, y) /\ (y.fault = "none" => Settled(y))

LEMMA FinalTrans ==
  ASSUME NEW H, NEW x, NEW y, NEW z, Good(H, x), Good(H, y), Good(H, z), Final(x, y), Final(y, z)
  PROVE  Final(x, z)
<1>1. Len(x.heap) \in Nat /\ Len(y.heap) \in Nat /\ Len(z.heap) \in Nat
  BY DEF Good, HeapOK, IsSeq
<1>2. x.zce.now.active \in Int /\ y.zce.now.active \in Int /\ z.zce.now.active \in Int
  BY DEF Good, ChainOK
<1>3. Len(x.heap) <= Len(z.heap) /\ 1 .. Len(x.heap) \subseteq 1 .. Len(y.heap)
  BY <1>1 DEF Final
<1>4. \A i \in 1 .. Len(x.heap) :
        /\ z.heap[i].type = x.heap[i].type
        /\ i \in OpenOf(x.blocks) \/ (z.heap[i] = x.heap[i] /\ i \notin OpenOf(z.blocks))
  BY <1>3 DEF Final
<1>5. z.zce.now.active <= x.zce.now.active  BY <1>2 DEF Final
<1> QED  BY <1>3, <1>4, <1>5 DEF Final

LEMMA LeadsSelf ==
  ASSUME NEW H, NEW x, Good(H, x)
  PROVE  Leads(H, x, x) /\ (Settled(x) => Goes(H, x, x))
BY StaysSelf DEF Leads, Goes, Stays

LEMMA LeadsStays ==
  ASSUME NEW H, NEW x, NEW y, NEW z, Leads(H, x, y), Stays(H, y, z)
  PROVE  Leads(H, x, z) /\ (Goes(H, x, y) => Goes(H, x, z))
<1>1. Final(x, z)  BY FinalTrans DEF Leads, Stays
<1>2. Leads(H, x, z)  BY <1>1 DEF Leads, Stays
<1>3. Goes(H, x, y) => Goes(H, x, z)  BY <1>2 DEF Goes, Stays, Settled, TopId
<1> QED  BY <1>2, <1>3

LEMMA LeadsTrans ==
  ASSUME NEW H, NEW x, NEW y, NEW z, Leads(H, x, y), Leads(H, y, z)
  PROVE  Leads(H, x, z)
BY FinalTrans DEF Leads

\* the innermost open block
LEMMA TopFacts ==
  ASSUME NEW H, NEW bs, Good(H, bs), bs.blocks # <<>>
  PROVE  /\ Len(bs.blocks) \in Nat /\ 1 <= Len(bs.blocks)
         /\ TopId(bs) \in OpenOf(bs.blocks) /\ TopId(bs) \in 1 .. Len(bs.heap)
<1>1. IsSeq(bs.blocks)  BY DEF Good, NestedIn
<1>2. Len(bs.blocks) \in Nat /\ 1 <= Len(bs.blocks)  BY <1>1, EmptySeqLen DEF IsSeq
<1>3. TopId(bs) \in OpenOf(bs.blocks)  BY <1>2 DEF TopId, OpenOf
<1> QED  BY <1>2, <1>3, OpenInHeap

LEMMA NoBlocks ==
  ASSUME NEW H, NEW bs, Good(H, bs)
  PROVE  /\ bs.blocks = <<>> <=> ~(1 <= Len(bs.blocks))
         /\ bs.blocks = <<>> => Len(bs.blocks) = 0
         /\ Settled(bs) => bs.blocks # <<>>
BY TopFacts, EmptySeqLen DEF Settled

LEMMA SettledCur ==
  ASSUME NEW H, NEW bs, Good(H, bs), Settled(bs)
  PROVE  CurOpen(bs) /\ bs.blocks # <<>>
BY TopFacts, NoBlocks DEF Settled, CurOpen

LEMMA CrashGoes ==
  ASSUME NEW H, NEW x, NEW bs, Leads(H, x, bs), NEW what, what # "none"
  PROVE  Goes(H, x, Crash(bs, what)) /\ Crash(bs, what).fault # "none"
<1>1. Stays(H, bs, bs)  BY StaysSelf DEF Leads
<1>2. Stays(H, bs, Crash(bs, what)) /\ Crash(bs, what).fault # "none"  BY <1>1, CrashStays
<1> QED  BY <1>2, LeadsStays DEF Goes

LEMMA ToTopGoes ==
  ASSUME NEW H, NEW x, NEW bs, Leads(H, x, bs)
  PROVE  /\ Goes(H, x, ToTop(bs))
         /\ bs.fault = "none" /\ bs.blocks # <<>> => ToTop(bs) = [bs EXCEPT !.cur = TopId(bs)]
<1>1. CASE bs.fault = "none" /\ bs.blocks # <<>>
  <2> DEFINE y == [bs EXCEPT !.cur = TopId(bs)]
  <2>1. TopId(bs) \in 1 .. Len(bs.heap) /\ 1 <= Len(bs.blocks)
    BY <1>1, TopFacts DEF Leads
  <2>2. Good(H, y)  BY <2>1 DEF Leads, Good, BuilderFields
  <2>3. Final(x, y)  BY DEF Leads, Final
  <2>4. Settled(y)  BY <2>1 DEF Settled, TopId, Leads, Good, BuilderFields
  <2>5. ToTop(bs) = y  BY <1>1 DEF ToTop, WithBlocks
  <2>6. y.fault = bs.fault  OBVIOUS
  <2> HIDE DEF y
  <2>7. Goes(H, x, y)  BY <2>2, <2>3, <2>4, <2>6 DEF Goes, Leads
  <2> QED  BY <2>5, <2>7 DEF y
<1>2. CASE ~(bs.fault = "none" /\ bs.blocks # <<>>)
  BY <1>2, CrashGoes DEF ToTop, WithBlocks
<1> QED  BY <1>1, <1>2

\* a closed block that can be linked
Loose(H, x, c) ==
  /\ c \in 1 .. Len(x.heap) /\ c \notin OpenOf(x.blocks)
  /\ c \in Table(x.heap, H) \/ (~Linked(x.heap, c) /\ \A j \in OpenOf(x.blocks) : j < c)

LEMMA PopLeads ==
  ASSUME NEW H, NEW x, NEW bs, Leads(H, x, bs), bs.fault = "none", bs.blocks # <<>>
  PROVE  /\ PopBlock(bs) = [bs EXCEPT !.blocks = PopFrom(bs.blocks)]
         /\ Leads(H, x, PopBlock(bs)) /\ Loose(H, PopBlock(bs), TopId(bs))
         /\ Len(PopBlock(bs).blocks) = Len(bs.blocks) - 1
<1> DEFINE y == [bs EXCEPT !.blocks = PopFrom(bs.blocks)]
           n == Len(bs.blocks)
           c == TopId(bs)
<1>1. Good(H, bs) /\ DOMAIN bs = BuilderFields  BY DEF Leads, Good
<1>2. n \in Nat /\ 1 <= n /\ c \in OpenOf(bs.blocks) /\ c \in 1 .. Len(bs.heap)
  BY <1>1, TopFacts
<1>3. IsSeq(bs.blocks)  BY <1>1 DEF Good, NestedIn
<1>4. /\ y.heap = bs.heap /\ y.zce = bs.zce /\ y.cur = bs.cur /\ y.stack = bs.stack
      /\ y.hist = bs.hist /\ y.fault = bs.fault /\ y.blocks = PopFrom(bs.blocks)
      /\ DOMAIN y = BuilderFields
  BY <1>1 DEF BuilderFields
<1>5. PopBlock(bs) = y  BY DEF PopBlock, WithBlocks
<1> HIDE DEF y
<1>6. /\ IsSeq(y.blocks) /\ Len(y.blocks) = n - 1
      /\ \A i \in 1 .. n - 1 : y.blocks[i] = bs.blocks[i] /\ i \in 1 .. n /\ i # n
  BY <1>2, <1>3, <1>4, PopSeq
<1>7. OpenOf(y.blocks) \subseteq OpenOf(bs.blocks) /\ \A j \in OpenOf(y.blocks) : \E i \in 1 .. n - 1 : j = bs.blocks[i]
  BY <1>2, <1>6 DEF OpenOf
<1>8. c = bs.blocks[n]  BY DEF TopId
<1>9. c \notin OpenOf(y.blocks) /\ (c \in Held(bs.zce) \/ \A j \in OpenOf(y.blocks) : j < c)
  <2>1. /\ \A i \in 1 .. n - 1 : bs.blocks[i] = c => FALSE
        /\ \A i \in 1 .. n - 1 : c \in Held(bs.zce) \/ bs.blocks[i] < c
    <3>1. \A i \in 1 .. n - 1 : i \in 1 .. n /\ n \in 1 .. n /\ i < n /\ i # n
      BY <1>2
    <3>2. /\ \A i, j \in 1 .. n : bs.blocks[i] = bs.blocks[j] => i = j
          /\ \A i, j \in 1 .. n : j < i => bs.blocks[i] \in Held(bs.zce) \/ bs.blocks[j] < bs.blocks[i]
      BY <1>1 DEF Good, NestedIn
    <3> QED  BY <1>8, <3>1, <3>2
  <2> QED  BY <1>7, <2>1
<1>10. NestedIn(y.heap, y.blocks, Held(y.zce))
  <2> DEFINE s == bs.blocks
             t == y.blocks
             held == Held(bs.zce)
  <2>1. /\ \A i \in 1 .. n : s[i] \in 1 .. Len(bs.heap)
        /\ \A i, j \in 1 .. n : s[i] = s[j] => i = j
        /\ \A i, j \in 1 .. n : j < i => s[i] \in held \/ s[j] < s[i]
        /\ s[1] = MAIN
    BY <1>1, <1>2 DEF Good, NestedIn
  <2>2. Len(t) = n - 1 /\ (\A i \in 1 .. n - 1 : t[i] = s[i] /\ i \in 1 .. n) /\ IsSeq(t)
    BY <1>6
  <2> HIDE DEF s, t, held
  <2>3. /\ \A i \in 1 .. Len(t) : t[i] \in 1 .. Len(bs.heap)
        /\ \A i, j \in 1 .. Len(t) : t[i] = t[j] => i = j
        /\ \A i, j \in 1 .. Len(t) : j < i => t[i] \in held \/ t[j] < t[i]
    BY <2>1, <2>2
  <2>4. 1 <= Len(t) => t[1] = MAIN  BY <1>2, <2>1, <2>2
  <2> QED  BY <1>4, <2>2, <2>3, <2>4 DEF NestedIn, t, held
<1>11. TreeIn(y.heap, OpenOf(y.blocks), Table(y.heap, H))
  BY <1>1, <1>4, <1>7 DEF Good, TreeIn
<1>12. ParkedIn(y.heap, OpenOf(y.blocks), y.zce.pending, H)
  BY <1>1, <1>4, <1>7 DEF Good, ParkedIn
<1>13. Good(H, y)
  BY <1>1, <1>4, <1>10, <1>11, <1>12 DEF Good
<1>14. Final(bs, y)
  BY <1>1, <1>4, <1>7 DEF Final, Good, HeapOK, IsSeq, ChainOK
<1>15. Leads(H, x, y)
  BY <1>1, <1>4, <1>13, <1>14, LeadsTrans DEF Leads
<1>16. c \in Table(bs.heap, H) \/ ~Linked(bs.heap, c)
  BY <1>1, <1>2 DEF Good, TreeIn, Linked
<1>17. Loose(H, y, c)
  BY <1>1, <1>2, <1>4, <1>9, <1>16 DEF Loose, Good
<1> QED  BY <1>5, <1>6, <1>15, <1>17 DEF y

\* a new block: empty, and no second module
NewBlock(H, blk) ==
  /\ DOMAIN blk = BlockFields /\ blk.nodes = <<>> /\ blk.type # "MAIN"
  /\ blk.type = "CONTAINER" => H = {} \/ blk.exc \in H

LEMMA PushLeads ==
  ASSUME NEW H, NEW x, NEW bs, Leads(H, x, bs), bs.fault = "none" => bs.blocks # <<>>,
         NEW blk, NewBlock(H, blk)
  PROVE  /\ Leads(H, x, PushBlock(bs, blk))
         /\ PushBlock(bs, blk).fault = bs.fault
         /\ bs.fault = "none" => /\ PushBlock(bs, blk).blocks # <<>>
                                 /\ Len(PushBlock(bs, blk).blocks) = Len(bs.blocks) + 1
<1>1. CASE bs.fault # "none"  BY <1>1 DEF PushBlock
<1>2. CASE bs.fault = "none"
  <2> DEFINE n == Len(bs.heap)
             m == Len(bs.blocks)
             y == [bs EXCEPT !.heap = Append(bs.heap, blk), !.blocks = Append(bs.blocks, n + 1)]
  <2>1. Good(H, bs) /\ DOMAIN bs = BuilderFields  BY DEF Leads, Good
  <2>2. m \in Nat /\ 1 <= m /\ IsSeq(bs.blocks)  BY <1>2, <2>1, TopFacts DEF Good, NestedIn
  <2>3. n \in Nat /\ 1 <= n /\ IsSeq(bs.heap)  BY <2>1 DEF Good, HeapOK, IsSeq
  <2>4. PushBlock(bs, blk) = y  BY <1>2 DEF PushBlock
  <2>5. /\ y.zce = bs.zce /\ y.cur = bs.cur /\ y.stack = bs.stack
        /\ y.hist = bs.hist /\ y.fault = bs.fault
        /\ y.heap = Append(bs.heap, blk) /\ y.blocks = Append(bs.blocks, n + 1)
        /\ DOMAIN y = BuilderFields
    BY <2>1 DEF BuilderFields
  <2> HIDE DEF y
  <2>6. /\ IsSeq(y.heap) /\ Len(y.heap) = n + 1 /\ y.heap[n + 1] = blk
        /\ \A i \in 1 .. n : y.heap[i] = bs.heap[i]
    BY <2>3, <2>5, AppendSeq
  <2>7. /\ IsSeq(y.blocks) /\ Len(y.blocks) = m + 1 /\ y.blocks[m + 1] = n + 1
        /\ \A i \in 1 .. m : y.blocks[i] = bs.blocks[i]
    BY <2>2, <2>5, AppendSeq
  <2>8. OpenOf(y.blocks) = OpenOf(bs.blocks) \cup {n + 1}
    BY <2>2, <2>7 DEF OpenOf
  <2>9. BlockOK(blk) /\ Len(blk.nodes) = 0
    BY EmptySeqLen DEF NewBlock, BlockOK
  <2>10. HeapOK(y.heap)
    BY <2>1, <2>3, <2>6, <2>9 DEF Good, HeapOK, NewBlock, MAIN
  <2>11. Table(bs.heap, H) \subseteq Table(y.heap, H)
         /\ \A i \in 1 .. n : i \in Table(y.heap, H) => i \in Table(bs.heap, H)
    BY <2>3, <2>6 DEF Table
  <2>12. \A i, k : LinkAt(y.heap, i, k) <=> LinkAt(bs.heap, i, k)
    BY <2>3, <2>6, <2>9 DEF LinkAt
  <2>13. \A i, k : LinkAt(bs.heap, i, k) => To(y.heap, i, k) = To(bs.heap, i, k)
    BY <2>6 DEF LinkAt, To
  <2>14. \A i \in 1 .. m : bs.blocks[i] \in 1 .. n /\ bs.blocks[i] < n + 1
    BY <2>1, <2>3 DEF Good, NestedIn
  <2>15. NestedIn(y.heap, y.blocks, Held(y.zce))
    <3>0. \A i \in 1 .. m + 1 : i \in 1 .. m \/ i = m + 1  BY <2>2
    <3>1. ASSUME NEW i \in 1 .. m + 1  PROVE y.blocks[i] \in 1 .. Len(y.heap)
      <4>1. CASE i \in 1 .. m  BY <2>3, <2>6, <2>7, <2>14, <4>1
      <4>2. CASE i = m + 1      BY <2>3, <2>6, <2>7, <4>2
      <4> QED  BY <3>0, <4>1, <4>2
    <3>2. \A i, j \in 1 .. m : bs.blocks[i] = bs.blocks[j] => i = j  BY <2>1 DEF Good, NestedIn
    <3>7. \A i \in 1 .. m : y.blocks[i] = bs.blocks[i] /\ y.blocks[i] # n + 1
      BY <2>3, <2>7, <2>14
    <3>3. ASSUME NEW i \in 1 .. m + 1, NEW j \in 1 .. m + 1, y.blocks[i] = y.blocks[j]  PROVE i = j
      <4>1. CASE i \in 1 .. m /\ j \in 1 .. m  BY <3>2, <3>3, <3>7, <4>1
      <4>2. CASE i = m + 1 \/ j = m + 1       BY <2>7, <3>0, <3>3, <3>7, <4>2
      <4> QED  BY <3>0, <4>1, <4>2
    <3>4. \A i, j \in 1 .. m : j < i => bs.blocks[i] \in Held(bs.zce) \/ bs.blocks[j] < bs.blocks[i]
      BY <2>1 DEF Good, NestedIn
    <3>5. \A i, j \in 1 .. m + 1 : j < i => y.blocks[i] \in Held(y.zce) \/ y.blocks[j] < y.blocks[i]
      BY <2>2, <2>5, <2>7, <2>14, <3>4
    <3>6. y.blocks[1] = MAIN  BY <2>1, <2>2, <2>7 DEF Good, NestedIn
    <3> QED  BY <2>7, <3>1, <3>3, <3>5, <3>6 DEF NestedIn
  <2>16. TreeIn(y.heap, OpenOf(y.blocks), Table(y.heap, H))
    <3>1. TreeIn(bs.heap, OpenOf(bs.blocks), Table(bs.heap, H))  BY <2>1 DEF Good
    <3>2. \A i, k : LinkAt(y.heap, i, k) => To(bs.heap, i, k) \in 1 .. n /\ To(y.heap, i, k) = To(bs.heap, i, k)
      BY <2>12, <2>13, <3>1 DEF TreeIn
    <3>3. \A i, k : LinkAt(y.heap, i, k) => To(y.heap, i, k) \in 1 .. Len(y.heap) /\ To(y.heap, i, k) # n + 1
      BY <2>3, <2>6, <3>2
    <3> QED  BY <2>8, <2>11, <2>12, <3>1, <3>2, <3>3 DEF TreeIn
  <2>17. OnlyTable(y.heap, H)
    BY <2>1, <2>3, <2>6 DEF Good, OnlyTable, NewBlock
  <2>18. ParkedIn(y.heap, OpenOf(y.blocks), y.zce.pending, H)
    <3> SUFFICES ASSUME NEW p \in bs.zce.pending
                 PROVE  /\ p = <<p[1], p[2]>> /\ p[1] \in H
                        /\ p[2] \in Table(y.heap, H) /\ y.heap[p[2]].exc = p[1]
                        /\ p[2] \notin OpenOf(y.blocks) /\ Linked(y.heap, p[2])
      BY <2>5 DEF ParkedIn
    <3>1. /\ p = <<p[1], p[2]>> /\ p[1] \in H
          /\ p[2] \in Table(bs.heap, H) /\ bs.heap[p[2]].exc = p[1]
          /\ p[2] \notin OpenOf(bs.blocks) /\ Linked(bs.heap, p[2])
      BY <2>1 DEF Good, ParkedIn
    <3>2. p[2] \in 1 .. n  BY <3>1 DEF Table
    <3>3. Linked(y.heap, p[2])  BY <2>12, <2>13, <3>1 DEF Linked
    <3> QED  BY <2>3, <2>6, <2>8, <2>11, <3>1, <3>2, <3>3
  <2>19. Held(y.zce) \subseteq Table(y.heap, H)  BY <2>1, <2>5, <2>11 DEF Good
  <2>20. Good(H, y)
    BY <2>1, <2>3, <2>5, <2>6, <2>10, <2>15, <2>16, <2>17, <2>18, <2>19 DEF Good
  <2>21. Final(bs, y)
    BY <2>1, <2>3, <2>5, <2>6, <2>8 DEF Final, Good, ChainOK
  <2>22. Leads(H, x, y)  BY <2>1, <2>5, <2>20, <2>21, LeadsTrans DEF Leads
  <2>23. y.blocks # <<>>  BY <2>2, <2>7, EmptySeqLen
  <2> QED  BY <2>4, <2>5, <2>7, <2>22, <2>23
<1> QED  BY <1>1, <1>2

LEMMA OpenGoes ==
  ASSUME NEW H, NEW x, NEW bs, Leads(H, x, bs), bs.fault = "none" => bs.blocks # <<>>,
         NEW blk, NewBlock(H, blk)
  PROVE  Goes(H, x, Open(bs, blk)) /\ Open(bs, blk).fault = bs.fault
<1>1. /\ Leads(H, x, PushBlock(bs, blk)) /\ PushBlock(bs, blk).fault = bs.fault
      /\ bs.fault = "none" => PushBlock(bs, blk).blocks # <<>>
  BY PushLeads
<1>2. ToTop(PushBlock(bs, blk)).fault = bs.fault
  BY <1>1 DEF ToTop, WithBlocks, Crash, Leads, Good, BuilderFields
<1> QED  BY <1>1, <1>2, ToTopGoes DEF Open

\* block i is given a link to the closed block c
LEMMA LinkLoose ==
  ASSUME NEW H, NEW x, NEW bs, Leads(H, x, bs), bs.fault = "none",
         NEW c, Loose(H, bs, c),
         NEW i, i \in OpenOf(bs.blocks) \/ (i = MAIN /\ c = MAIN /\ MAIN \in OpenOf(x.blocks))
  PROVE  /\ Leads(H, x, AppendAt(bs, i, BlockNode(c)))
         /\ AppendAt(bs, i, BlockNode(c)).blocks = bs.blocks
         /\ AppendAt(bs, i, BlockNode(c)).cur = bs.cur
         /\ AppendAt(bs, i, BlockNode(c)).fault = bs.fault
         /\ AppendAt(bs, i, BlockNode(c)).zce = bs.zce
         /\ AppendAt(bs, i, BlockNode(c)).hist = bs.hist
         /\ Linked(AppendAt(bs, i, BlockNode(c)).heap, c)
         /\ \A j \in 1 .. Len(bs.heap) :
              /\ AppendAt(bs, i, BlockNode(c)).heap[j].type = bs.heap[j].type
              /\ AppendAt(bs, i, BlockNode(c)).heap[j].exc = bs.heap[j].exc
         /\ Len(AppendAt(bs, i, BlockNode(c)).heap) = Len(bs.heap)
<1> DEFINE h == bs.heap
           old == h[i].nodes
           n == Len(old) + 1
           ns == Append(old, BlockNode(c))
           blk == [h[i] EXCEPT !.nodes = ns]
           y == [bs EXCEPT !.heap[i].nodes = ns]
           g == y.heap
           open == OpenOf(bs.blocks)
           table == Table(h, H)
<1>1. Good(H, bs) /\ DOMAIN bs = BuilderFields  BY DEF Leads, Good
<1>2. i \in 1 .. Len(h) /\ IsSeq(h)
  <2>1. IsSeq(h) /\ MAIN \in 1 .. Len(h)  BY <1>1 DEF Good, HeapOK, IsSeq, MAIN
  <2>2. i \in OpenOf(bs.blocks) => i \in 1 .. Len(h)  BY <1>1, OpenInHeap
  <2> QED  BY <2>1, <2>2
<1>3. DOMAIN h[i] = BlockFields /\ IsSeq(old) /\ Len(old) \in Nat
  BY <1>1, <1>2 DEF Good, HeapOK, BlockOK, IsSeq
<1>4. /\ IsSeq(ns) /\ Len(ns) = n /\ ns[n] = BlockNode(c)
      /\ \A k \in 1 .. Len(old) : ns[k] = old[k] /\ k \in 1 .. n
  BY <1>3, AppendSeq
<1>5. BlockNode(c).kind = "block" /\ BlockNode(c).id = c  BY DEF BlockNode, Node
<1>6. /\ blk.nodes = ns /\ blk.type = h[i].type /\ blk.exc = h[i].exc
      /\ DOMAIN blk = BlockFields
  BY <1>3 DEF BlockFields
<1>7. /\ y.zce = bs.zce /\ y.cur = bs.cur /\ y.stack = bs.stack /\ y.blocks = bs.blocks
      /\ y.hist = bs.hist /\ y.fault = bs.fault
      /\ g = [h EXCEPT ![i] = blk] /\ DOMAIN y = BuilderFields
  BY <1>1 DEF BuilderFields
<1>8. AppendAt(bs, i, BlockNode(c)) = y  BY DEF AppendAt
<1> HIDE DEF y, blk, ns
<1>9. /\ IsSeq(g) /\ Len(g) = Len(h) /\ g[i] = blk
      /\ \A j \in 1 .. Len(h) : j # i => g[j] = h[j]
  <2>1. Replaced(h, i, blk, g)  BY <1>7 DEF Replaced
  <2> QED  BY <1>2, <2>1, ExceptSeqLen
<1>10. \A j \in 1 .. Len(h) : g[j].type = h[j].type /\ g[j].exc = h[j].exc
  BY <1>6, <1>9
<1>11. HeapOK(g)
  BY <1>1, <1>4, <1>6, <1>9, <1>10 DEF Good, HeapOK, BlockOK
<1>12. Table(g, H) = table  BY <1>9, <1>10 DEF Table
<1>13. LinkAt(g, i, n) /\ To(g, i, n) = c
  BY <1>2, <1>3, <1>4, <1>5, <1>6, <1>9 DEF LinkAt, To
<1>14. \A j, k : LinkAt(h, j, k) => LinkAt(g, j, k) /\ To(g, j, k) = To(h, j, k)
  <2> SUFFICES ASSUME NEW j, NEW k, LinkAt(h, j, k)
               PROVE  LinkAt(g, j, k) /\ To(g, j, k) = To(h, j, k)
    OBVIOUS
  <2>1. CASE j # i  BY <1>9, <2>1 DEF LinkAt, To
  <2>2. CASE j = i  BY <1>4, <1>6, <1>9, <2>2 DEF LinkAt, To
  <2> QED  BY <2>1, <2>2
<1>15. \A j, k : LinkAt(g, j, k) => (j = i /\ k = n) \/ (LinkAt(h, j, k) /\ To(g, j, k) = To(h, j, k))
  <2> SUFFICES ASSUME NEW j, NEW k, LinkAt(g, j, k), ~(j = i /\ k = n)
               PROVE  LinkAt(h, j, k) /\ To(g, j, k) = To(h, j, k)
    OBVIOUS
  <2>1. CASE j # i  BY <1>9, <2>1 DEF LinkAt, To
  <2>2. CASE j = i
    <3>1. k \in 1 .. n /\ k # n  BY <1>4, <1>6, <1>9, <2>2 DEF LinkAt
    <3>2. k \in 1 .. Len(old)  BY <1>3, <3>1
    <3> QED  BY <1>2, <1>4, <1>6, <1>9, <2>2, <3>2 DEF LinkAt, To
  <2> QED  BY <2>1, <2>2
<1>16. c \in 1 .. Len(h) /\ c \notin open /\ (c \in table \/ ~Linked(h, c))
       /\ (c \in table \/ c > i \/ c = MAIN)
  BY <1>2, <1>7 DEF Loose
<1>17. NestedIn(g, y.blocks, Held(y.zce))
  BY <1>1, <1>7, <1>9 DEF Good, NestedIn
<1>18. TreeIn(g, open, table)
  <2>1. TreeIn(h, open, table)  BY <1>1 DEF Good
  <2>2. \A j, k : LinkAt(h, j, k) => c \in table \/ To(h, j, k) # c
    BY <1>16 DEF Linked
  <2> HIDE DEF open, table, h, g, n
  <2>3. \A j, k : LinkAt(g, j, k) =>
          /\ To(g, j, k) \in 1 .. Len(g)
          /\ To(g, j, k) \in table \/ To(g, j, k) > j \/ To(g, j, k) = MAIN
          /\ To(g, j, k) \in table \/ To(g, j, k) \notin open
    BY <1>9, <1>13, <1>15, <1>16, <2>1 DEF TreeIn
  <2>4. ASSUME NEW j, NEW k, NEW l, NEW m, LinkAt(g, j, k), LinkAt(g, l, m), To(g, j, k) = To(g, l, m)
        PROVE  (j = l /\ k = m) \/ To(g, j, k) \in table
    <3>1. CASE j = i /\ k = n  BY <1>13, <1>15, <2>2, <2>4, <3>1
    <3>2. CASE l = i /\ m = n  BY <1>13, <1>15, <2>2, <2>4, <3>2
    <3>3. CASE ~(j = i /\ k = n) /\ ~(l = i /\ m = n)
      BY <1>15, <2>1, <2>4, <3>3 DEF TreeIn
    <3> QED  BY <3>1, <3>2, <3>3
  <2> QED  BY <2>3, <2>4 DEF TreeIn
<1>19. OnlyTable(g, H)  BY <1>1, <1>9, <1>10 DEF Good, OnlyTable
<1>20. ParkedIn(g, open, y.zce.pending, H)
  <2> SUFFICES ASSUME NEW p \in bs.zce.pending
               PROVE  /\ p = <<p[1], p[2]>> /\ p[1] \in H
                      /\ p[2] \in Table(g, H) /\ g[p[2]].exc = p[1]
                      /\ p[2] \notin open /\ Linked(g, p[2])
    BY <1>7 DEF ParkedIn
  <2>1. /\ p = <<p[1], p[2]>> /\ p[1] \in H
        /\ p[2] \in Table(h, H) /\ h[p[2]].exc = p[1]
        /\ p[2] \notin open /\ Linked(h, p[2])
    BY <1>1 DEF Good, ParkedIn
  <2>2. g[p[2]].exc = p[1]  BY <1>10, <2>1 DEF Table
  <2>3. Linked(g, p[2])  BY <1>14, <2>1 DEF Linked
  <2> QED  BY <1>12, <2>1, <2>2, <2>3
<1>21. Good(H, y)
  BY <1>1, <1>7, <1>9, <1>11, <1>12, <1>17, <1>18, <1>19, <1>20 DEF Good
<1>22. Final(x, y)
  <2>1. i \in 1 .. Len(x.heap) => i \in OpenOf(x.blocks)
    BY DEF Leads, Final
  <2> QED  BY <1>1, <1>7, <1>9, <1>10, <2>1 DEF Leads, Final, Good, HeapOK, IsSeq
<1>23. Leads(H, x, y)  BY <1>7, <1>21, <1>22 DEF Leads
<1>24. Linked(g, c)  BY <1>13 DEF Linked
<1> QED  BY <1>7, <1>8, <1>9, <1>10, <1>23, <1>24

\* the closed block c is linked in the innermost open one
LEMMA LinkTop ==
  ASSUME NEW H, NEW x, NEW bs, Leads(H, x, bs), NEW c, bs.fault = "none" => Loose(H, bs, c)
  PROVE  /\ Leads(H, x, LinkToTop(bs, c))
         /\ LinkToTop(bs, c).fault = "none" =>
              /\ bs.fault = "none" /\ bs.blocks # <<>>
              /\ LinkToTop(bs, c).blocks = bs.blocks /\ LinkToTop(bs, c).cur = bs.cur
              /\ LinkToTop(bs, c).zce = bs.zce /\ LinkToTop(bs, c).hist = bs.hist
              /\ Linked(LinkToTop(bs, c).heap, c)
              /\ \A j \in 1 .. Len(bs.heap) :
                   /\ LinkToTop(bs, c).heap[j].type = bs.heap[j].type
                   /\ LinkToTop(bs, c).heap[j].exc = bs.heap[j].exc
         /\ bs.fault = "none" /\ bs.blocks # <<>> => LinkToTop(bs, c).fault = "none"
<1>1. CASE bs.fault = "none" /\ bs.blocks # <<>>
  <2>1. TopId(bs) \in OpenOf(bs.blocks)  BY <1>1, TopFacts DEF Leads
  <2>2. LinkToTop(bs, c) = AppendAt(bs, TopId(bs), BlockNode(c))
    BY <1>1 DEF LinkToTop, WithBlocks
  <2> QED  BY <1>1, <2>1, <2>2, LinkLoose
<1>2. CASE ~(bs.fault = "none" /\ bs.blocks # <<>>)
  <2>1. LinkToTop(bs, c) = Crash(bs, "ub")  BY <1>2 DEF LinkToTop, WithBlocks
  <2> QED  BY <1>2, <2>1, CrashGoes DEF Goes
<1> QED  BY <1>1, <1>2

\* blocks.pop() of what may be empty
LEMMA PopAny ==
  ASSUME NEW H, NEW x, NEW bs, Leads(H, x, bs)
  PROVE  /\ Leads(H, x, PopBlock(bs))
         /\ PopBlock(bs).fault = "none" =>
              /\ bs.fault = "none" /\ bs.blocks # <<>>
              /\ Loose(H, PopBlock(bs), TopId(bs))
              /\ Len(PopBlock(bs).blocks) = Len(bs.blocks) - 1
              /\ PopBlock(bs) = [bs EXCEPT !.blocks = PopFrom(bs.blocks)]
         /\ bs.fault = "none" /\ bs.blocks # <<>> => PopBlock(bs).fault = "none"
<1>1. CASE bs.fault = "none" /\ bs.blocks # <<>>
  <2>1. [bs EXCEPT !.blocks = PopFrom(bs.blocks)].fault = bs.fault  OBVIOUS
  <2> QED  BY <1>1, <2>1, PopLeads
<1>2. CASE ~(bs.fault = "none" /\ bs.blocks # <<>>)
  <2>1. PopBlock(bs) = Crash(bs, "ub")  BY <1>2 DEF PopBlock, WithBlocks
  <2> QED  BY <1>2, <2>1, CrashGoes DEF Goes
<1> QED  BY <1>1, <1>2

LEMMA CloseCurGoes ==
  ASSUME NEW H, NEW x, NEW bs, Goes(H, x, bs)
  PROVE  /\ Goes(H, x, CloseCur(bs))
         /\ CloseCur(bs).fault = "none" => bs.fault = "none"
<1> DEFINE p == PopBlock(bs)
           l == LinkToTop(p, bs.cur)
<1>1. Leads(H, x, bs)  BY DEF Goes
<1>2. bs.fault = "none" => bs.cur = TopId(bs)  BY DEF Goes, Settled
<1>3. Leads(H, x, p) /\ (p.fault = "none" => bs.fault = "none" /\ Loose(H, p, TopId(bs)))
  BY <1>1, PopAny
<1>4. p.fault = "none" => Loose(H, p, bs.cur)  BY <1>2, <1>3
<1> HIDE DEF p
<1>5. Leads(H, x, l) /\ (l.fault = "none" => bs.fault = "none")
  BY <1>3, <1>4, LinkTop
<1> HIDE DEF l
<1>6. Goes(H, x, ToTop(l)) /\ (ToTop(l).fault = "none" => l.fault = "none")
  BY <1>5, ToTopGoes DEF ToTop, WithBlocks, Crash
<1> QED  BY <1>5, <1>6 DEF CloseCur, l, p

\* two blocks or more are open unless curblock is the module's
LEMMA NotMain ==
  ASSUME NEW H, NEW bs, Good(H, bs), Settled(bs), bs.heap[bs.cur].type # "MAIN"
  PROVE  2 <= Len(bs.blocks)
<1>1. bs.blocks # <<>>  BY NoBlocks
<1>2. Len(bs.blocks) \in Nat /\ 1 <= Len(bs.blocks)  BY <1>1, TopFacts
<1>3. bs.blocks[1] = MAIN /\ bs.heap[MAIN].type = "MAIN"
  BY <1>2 DEF Good, NestedIn, HeapOK, MAIN, IsSeq
<1> QED  BY <1>2, <1>3 DEF Settled, TopId
-----------------------------------------------------------------------------

\* the operand is a number, and no instruction sets a try up where a table does
InsOK == ins.arg \in Int /\ (ins.op \in {"SETUP_EXCEPT", "SETUP_FINALLY"} => Handlers = {})

\* a jump that walks over the open blocks is at the innermost of them
WalkOK ==
  /\ DOMAIN walk = {"prev", "push", "spam", "todo"}
  /\ IsFiniteSet(walk.todo) /\ \A r \in walk.todo : r.handler \in Handlers
  /\ pc \in {"absolute", "forward"} => b.blocks # <<>> /\ walk.prev = TopId(b)
  /\ pc = "forward" => 2 <= Len(b.blocks) \/ (pos = Size /\ b.cur = TopId(b))

(* The inductive invariant.  The handler that is being rebuilt started     *)
(* before the next instruction: one that starts now comes after it.        *)
IInv ==
  /\ prog \in UNION {Programs[i] : i \in DOMAIN Programs}
  /\ pc \in {"fetch", "closing", "regions", "entering", "exec", "forward", "absolute", "done", "crashed"}
  /\ pos \in 0 .. Size /\ curpos \in Nat
  /\ InsOK
  /\ WalkOK
  /\ Good(Handlers, b)
  /\ b.zce.now.active < pos
  /\ pc # "crashed" => b.fault = "none"
  /\ pc \in {"closing", "regions", "entering", "exec"} \/ (pc \in {"fetch", "done"} /\ pos < Size) => Settled(b)
  /\ pc \in {"closing", "regions", "entering"} => b.zce.now.active < curpos /\ curpos < pos
  /\ pc \in {"regions", "entering"} => Handlers # {}

\* the blocks that were closed are as they were
Kept == \A i \in 1 .. Len(b.heap) : i \in OpenOf(b.blocks) \/ b'.heap[i] = b.heap[i]

StepOK == IInv' /\ Kept /\ (Nearer \/ UNCHANGED vars)

-----------------------------------------------------------------------------
(* The code object *)

LEMMA SizeNat ==
  ASSUME prog \in UNION {Programs[i] : i \in DOMAIN Programs}
  PROVE  Size \in Nat /\ \A k \in 1 .. Size : prog.code[k].arg \in Int
<1>1. prog.code \in Seq([op : STRING, arg : Int])  BY ProgramsAssumption
<1>2. Len(prog.code) \in Nat /\ prog.code \in [1 .. Len(prog.code) -> [op : STRING, arg : Int]]
  BY <1>1, LenProperties
<1> QED  BY <1>2 DEF Size

LEMMA SameCode ==
  ASSUME prog' = prog
  PROVE  Handlers' = Handlers /\ Size' = Size
BY DEF Handlers, Size, Ver, OpcodeAt

LEMMA StageIs ==
  /\ (pc = "closing" => Stage = 6) /\ (pc = "regions" => Stage = 5) /\ (pc = "entering" => Stage = 4)
  /\ (pc = "exec" => Stage = 3) /\ (pc = "absolute" => Stage = 2) /\ (pc = "forward" => Stage = 2)
  /\ (pc = "fetch" => Stage = 1) /\ (pc = "done" => Stage = 0) /\ (pc = "crashed" => Stage = 0)
BY DEF Stage

LEMMA StageWillBe ==
  /\ (pc' = "closing" => Stage' = 6) /\ (pc' = "regions" => Stage' = 5) /\ (pc' = "entering" => Stage' = 4)
  /\ (pc' = "exec" => Stage' = 3) /\ (pc' = "absolute" => Stage' = 2) /\ (pc' = "forward" => Stage' = 2)
  /\ (pc' = "fetch" => Stage' = 1) /\ (pc' = "done" => Stage' = 0) /\ (pc' = "crashed" => Stage' = 0)
BY DEF Stage

\* a step to a later stage of the instruction
LEMMA NextStage ==
  ASSUME pos' = pos,
         \/ pc = "closing" /\ pc' \in {"regions", "exec", "crashed"}
         \/ pc = "regions" /\ pc' \in {"entering", "crashed"}
         \/ pc = "entering" /\ pc' \in {"exec", "crashed"}
         \/ pc = "exec" /\ pc' \in {"absolute", "forward", "fetch", "done", "crashed"}
         \/ pc \in {"absolute", "forward"} /\ pc' \in {"fetch", "crashed"}
         \/ pc = "fetch" /\ pc' = "done"
  PROVE  Nearer
BY StageIs, StageWillBe DEF Nearer

\* a step that leaves one block, or more, fewer to close
LEMMA FewerBlocks ==
  ASSUME pos' = pos, pc' = pc, pc # "entering", Len(b'.blocks) < Len(b.blocks)
  PROVE  Nearer
<1>1. Left = Len(b.blocks) /\ Left' = Len(b'.blocks)  BY DEF Left
<1>2. Stage' = Stage  BY DEF Stage
<1> QED  BY <1>1, <1>2 DEF Nearer

LEMMA FinalKept ==
  ASSUME NEW nb, Final(b, nb), b' = nb
  PROVE  Kept
BY DEF Final, Kept

-----------------------------------------------------------------------------
(* The ends of the handlers *)

LEMMA BreakStep ==
  ASSUME IInv, pc \in {"exec", "absolute", "forward"},
         NEW nb, NEW np, Leads(Handlers, b, nb), np \in pos .. Size,
         nb.fault = "none" => Settled(nb) \/ np = Size,
         BreakAt(nb, np)
  PROVE  StepOK
<1> DEFINE mb == Made(nb, pos)
<1>1. Stays(Handlers, nb, nb)  BY StaysSelf DEF Leads
<1>2. Stays(Handlers, nb, mb)  BY <1>1, MadeStays
<1>3. Leads(Handlers, b, mb) /\ mb.fault = nb.fault /\ (Settled(nb) => Settled(mb))
  <2>1. mb.fault = nb.fault  BY DEF Made
  <2> QED  BY <1>2, <2>1, LeadsStays DEF Goes, Stays, Settled, TopId
<1>4. /\ b' = mb /\ pos' = np /\ pc' = (IF nb.fault = "none" THEN "fetch" ELSE "crashed")
      /\ walk' = NoWalk /\ prog' = prog /\ curpos' = curpos /\ ins' = ins
  BY DEF BreakAt
<1> HIDE DEF mb
<1>5. Handlers' = Handlers /\ Size' = Size  BY <1>4, SameCode
<1>6. Good(Handlers', b')  BY <1>3, <1>4, <1>5 DEF Leads
<1>7. Size \in Nat /\ pos \in 0 .. Size  BY SizeNat DEF IInv
<1>8. b'.zce.now.active < pos'
  <2>1. mb.zce.now.active <= b.zce.now.active  BY <1>3 DEF Leads, Final
  <2>2. mb.zce.now.active \in Int /\ b.zce.now.active \in Int  BY <1>3 DEF Leads, Good, ChainOK
  <2> QED  BY <1>4, <1>7, <2>1, <2>2 DEF IInv
<1>9. InsOK'  BY <1>4, <1>5 DEF IInv, InsOK
<1>10. WalkOK'  BY <1>4, FS_EmptySet DEF WalkOK, NoWalk
<1>11. IInv'
  <2>1. prog' \in UNION {Programs[i] : i \in DOMAIN Programs} /\ pos' \in 0 .. Size' /\ curpos' \in Nat
    BY <1>4, <1>5, <1>7 DEF IInv
  <2>2. pc' # "crashed" => b'.fault = "none"  BY <1>3, <1>4
  <2>3. pc' = "fetch" /\ pos' < Size' => Settled(b')
    BY <1>3, <1>4, <1>5, <1>7
  <2>4. pc' \in {"fetch", "crashed"}  BY <1>4
  <2> QED  BY <1>6, <1>8, <1>9, <1>10, <2>1, <2>2, <2>3, <2>4 DEF IInv
<1>12. Kept  BY <1>3, <1>4, FinalKept DEF Leads
<1>13. Nearer
  <2>1. CASE np = pos
    <3>1. pc' \in {"fetch", "crashed"}  BY <1>4
    <3> QED  BY <1>4, <2>1, <3>1, NextStage
  <2>2. CASE np # pos
    <3>1. pos < np  BY <1>7, <2>2
    <3> QED  BY <1>4, <3>1 DEF Nearer
  <2> QED  BY <2>1, <2>2
<1> QED  BY <1>11, <1>12, <1>13 DEF StepOK

\* the same of the ends that most handlers have
LEMMA GoesStep ==
  ASSUME IInv, pc \in {"exec", "absolute", "forward"}, NEW nb, Goes(Handlers, b, nb), BreakAt(nb, pos)
  PROVE  StepOK
<1>1. pos \in pos .. Size  BY SizeNat DEF IInv
<1> QED  BY <1>1, BreakStep DEF Goes

LEMMA StaysStep ==
  ASSUME IInv, pc = "exec", NEW nb, Stays(Handlers, b, nb), BreakAt(nb, pos)
  PROVE  StepOK
<1>1. Goes(Handlers, b, b)  BY LeadsSelf DEF IInv
<1> QED  BY <1>1, LeadsStays, GoesStep DEF Goes

\* what a handler starts from
LEMMA Start ==
  ASSUME IInv, pc = "exec"
  PROVE  /\ Stays(Handlers, b, b) /\ Goes(Handlers, b, b) /\ Leads(Handlers, b, b)
         /\ Good(Handlers, b) /\ CurOpen(b) /\ b.blocks # <<>>
         /\ ins.arg \in Int /\ b.fault = "none" /\ Settled(b)
<1>1. Good(Handlers, b) /\ Settled(b) /\ b.fault = "none" /\ ins.arg \in Int  BY DEF IInv, InsOK
<1> QED  BY <1>1, StaysSelf, LeadsSelf, SettledCur

-----------------------------------------------------------------------------
(* Handlers that only move operands *)

LEMMA OpNop == ASSUME IInv, Nop PROVE StepOK
BY Start, StaysStep DEF Nop, On, Break

LEMMA OpLoadTwo == ASSUME IInv, LoadTwo PROVE StepOK
BY Start, StaysStep, PushStays, NodePlain DEF LoadTwo, On, Break, NameNode

LEMMA OpIgnored == ASSUME IInv, Ignored PROVE StepOK
BY Start, StaysStep DEF Ignored, On, Break

LEMMA OpPopIgnored == ASSUME IInv, PopIgnored PROVE StepOK
BY Start, StaysStep, PopStays DEF PopIgnored, On, Break

LEMMA OpLoadName == ASSUME IInv, LoadName PROVE StepOK
BY Start, StaysStep, PushStays, NodePlain DEF LoadName, On, Break, NameNode

LEMMA OpLoadCommon == ASSUME IInv, LoadCommon PROVE StepOK
BY Start, StaysStep, PushStays, NodePlain DEF LoadCommon, On, Break, NameNode

LEMMA OpLoadGlobal == ASSUME IInv, LoadGlobal PROVE StepOK
BY Start, StaysStep, PushStays, NodePlain, NullPlain DEF LoadGlobal, On, Break, NameNode

LEMMA OpPushNull == ASSUME IInv, PushNull PROVE StepOK
BY Start, StaysStep, PushStays, PopStays, ArgPlain, NullPlain DEF PushNull, On, Break

LEMMA OpCopy == ASSUME IInv, Copy PROVE StepOK
BY Start, StaysStep, PushStays, ArgPlain DEF Copy, On, Break

LEMMA OpSmallInt == ASSUME IInv, SmallInt PROVE StepOK
BY Start, StaysStep, PushStays, NodePlain DEF SmallInt, On, Break

LEMMA OpLoadConst == ASSUME IInv, LoadConst PROVE StepOK
<1> DEFINE n == CASE ins.arg = 0      -> Null
                  [] ins.arg = 1      -> Node("tuple", 0, <<>>)
                  [] ins.arg \in CODE -> Node("code", ins.arg, <<>>)
                  [] OTHER            -> Node("object", ins.arg, <<>>)
<1>1. Plain(n)  BY NodePlain, NullPlain
<1>2. pc = "exec" /\ BreakAt(Push(b, n), pos)  BY DEF LoadConst, On, Break
<1> HIDE DEF n
<1> QED  BY <1>1, <1>2, Start, StaysStep, PushStays

\* nodes that take a fixed number of operands
LEMMA CombineStep ==
  ASSUME IInv, pc = "exec", NEW kind, kind # "block", kind # "kwmap", NEW n \in Int, Combine(kind, n)
  PROVE  StepOK
BY Start, StaysStep, DropStays, PushStays, NodePlain DEF Combine, Break

LEMMA OpCombines ==
  ASSUME IInv, \/ Binary \/ Subscr \/ Unary \/ BuildList \/ BuildSet \/ BuildString \/ UnaryConvert
               \/ GetAwaitable \/ LoadMethod \/ BuildFunction \/ BuildClass \/ FormatValue
  PROVE  StepOK
BY CombineStep, Start DEF Binary, Subscr, Unary, BuildList, BuildSet, BuildString, UnaryConvert,
   GetAwaitable, LoadMethod, BuildFunction, BuildClass, FormatValue, On, Bit

LEMMA OpCompare == ASSUME IInv, \/ Compare \/ ContainsOp \/ IsOp PROVE StepOK
BY Start, StaysStep, DropStays, PushStays, NodePlain DEF Compare, ContainsOp, IsOp, Test, On, Break

LEMMA OpLoadLocals == ASSUME IInv, LoadLocals \/ LoadBuildClass PROVE StepOK
BY Start, StaysStep, PushStays, NodePlain DEF LoadLocals, LoadBuildClass, On, Break

LEMMA OpBuildTuple == ASSUME IInv, BuildTuple PROVE StepOK
BY Start, StaysStep, CombineStep DEF BuildTuple, On, Break

LEMMA OpLoadAttr == ASSUME IInv, LoadAttr PROVE StepOK
<1> DEFINE attr == Node("attr", ins.arg \div 2, Args(b, 1))
<1>1. Plain(attr)  BY NodePlain
<1>2. pc = "exec"  BY DEF LoadAttr, On
<1>3. \/ Combine("attr", 1) \/ BreakAt(b, pos)
      \/ BreakAt(Push(Push(Pop(b), Null), attr), pos) \/ BreakAt(Push(Pop(b), attr), pos)
  BY DEF LoadAttr, Break
<1> HIDE DEF attr
<1>4. Combine("attr", 1) => StepOK  BY <1>2, CombineStep
<1>5. BreakAt(b, pos) => StepOK  BY <1>2, Start, StaysStep
<1>6. Stays(Handlers, b, Push(Pop(b), attr)) /\ Stays(Handlers, b, Push(Push(Pop(b), Null), attr))
  BY <1>1, <1>2, Start, PushStays, PopStays, NullPlain
<1> QED  BY <1>2, <1>3, <1>4, <1>5, <1>6, StaysStep

LEMMA BitInt ==
  ASSUME NEW n \in Int
  PROVE  \A w \in {1, 2, 4, 8, 16} : Bit(n, w) \in {0, 1}
<1>1. \A m \in Int : m % 2 \in {0, 1}  OBVIOUS
<1>2. \A w \in {1, 2, 4, 8, 16} : n \div w \in Int  OBVIOUS
<1> QED  BY <1>1, <1>2 DEF Bit

LEMMA OpBuildInterpolation == ASSUME IInv, BuildInterpolation PROVE StepOK
<1> DEFINE k == Bit(ins.arg, 1) + 2
           n == Node("formatted", ins.arg, <<Arg(b, k)>> \o Args(b, Bit(ins.arg, 1)))
<1>1. k \in Int  BY BitInt, Start DEF BuildInterpolation, On
<1>2. Plain(n)  BY NodePlain
<1>3. pc = "exec" /\ BreakAt(Push(Drop(b, k), n), pos)  BY DEF BuildInterpolation, On, Break
<1> HIDE DEF k, n
<1> QED  BY <1>1, <1>2, <1>3, Start, StaysStep, DropStays, PushStays

LEMMA OpMakeFunction == ASSUME IInv, MakeFunction PROVE StepOK
<1> DEFINE qual == IF IsCode(Arg(b, 1)) THEN 0 ELSE 1
           n    == DefaultOperands
           made == Node("function", 0, Append(Args(Drop(b, 1 + qual), n), Arg(b, 1 + qual)))
<1>1. pc = "exec"  BY DEF MakeFunction, On
<1>2. n \in Int
  <2>1. ins.arg \in Int  BY <1>1, Start
  <2>2. \A w \in {1, 2, 4, 8, 16} : Bit(ins.arg, w) \in Int  BY <2>1, BitInt
  <2>3. DefCount \in Int /\ KwDefCount \in Int /\ Annotations \in Int
    BY <2>1 DEF DefCount, KwDefCount, Annotations
  <2> QED  BY <2>2, <2>3 DEF DefaultOperands
<1>3. 1 + qual \in Int /\ Plain(made)  BY NodePlain
<1>4. \/ BreakAt(Crash(b, "bad_cast"), pos)
      \/ BreakAt(Push(Drop(Drop(b, 1 + qual), n), made), pos)
  BY DEF MakeFunction, Break
<1> HIDE DEF qual, n, made
<1> QED  BY <1>1, <1>2, <1>3, <1>4, Start, StaysStep, DropStays, PushStays, CrashStays

-----------------------------------------------------------------------------
(* Calls *)

\* how many elements an initial or a final part of a stack has
LEMMA PartSize ==
  ASSUME NEW n \in Nat, NEW S, S \subseteq 1 .. n
  PROVE  Cardinality(S) \in Nat /\ IsFiniteSet(S)
<1>1. IsFiniteSet(1 .. n)  BY FS_Interval
<1>2. IsFiniteSet(S)  BY <1>1, FS_Subset
<1> QED  BY <1>2, FS_CardinalityType

LEMMA BasesNat ==
  ASSUME NEW H, NEW bs, Good(H, bs)
  PROVE  Bases(bs) \in Nat
<1>1. Len(bs.stack) \in Nat  BY DEF Good, OperandsOK, PlainSeq, IsSeq
<1> QED  BY <1>1, PartSize DEF Bases

\* the defs that a call refers to by name are no blocks
LEMMA DefsSeq ==
  ASSUME NEW args, IsSeq(args)
  PROVE  IsSeq(Defs(args)) /\ \A k \in 1 .. Len(Defs(args)) : Defs(args)[k].kind # "block"
<1> DEFINE at == {i \in DOMAIN args : IsDef(args[i])}
           n  == Cardinality(at)
           d  == Defs(args)
           Nth(k) == args[CHOOSE i \in at : Cardinality({j \in at : j >= i}) = k]
<1>1. n \in Nat  BY IsSeqDomain, PartSize
<1>2. d = [k \in 1 .. n |-> StoreNode(Nth(k), DefName(Nth(k)))]  BY DEF Defs
<1> HIDE DEF Nth, n, at
<1>3. d = [k \in 1 .. n |-> d[k]] /\ \A k \in 1 .. n : d[k].kind # "block"
  BY <1>2 DEF StoreNode, Node
<1> HIDE DEF d
<1>4. IsSeq(d) /\ Len(d) = n  BY <1>1, <1>3, FcnIsSeq
<1> QED  BY <1>3, <1>4 DEF d

LEMMA EmitDefsStays ==
  ASSUME NEW H, NEW x, NEW bs, Stays(H, x, bs), CurOpen(x), NEW args, IsSeq(args)
  PROVE  Stays(H, x, EmitDefs(bs, args))
<1> DEFINE i == bs.cur
           old == bs.heap[i].nodes
           d == Defs(args)
           ns == old \o d
<1>1. i \in OpenOf(bs.blocks)  BY DEF Stays, CurOpen
<1>2. Good(H, bs) /\ i \in 1 .. Len(bs.heap)  BY <1>1, StaysGood, OpenInHeap
<1>3. IsSeq(old) /\ Len(old) \in Nat  BY <1>2 DEF Good, HeapOK, BlockOK, IsSeq
<1>4. IsSeq(d) /\ \A k \in 1 .. Len(d) : d[k].kind # "block"  BY DefsSeq
<1>5. Len(d) \in Nat  BY <1>4, IsSeqDomain
<1> HIDE DEF d
<1>6. /\ IsSeq(ns) /\ Len(ns) = Len(old) + Len(d)
      /\ \A k \in 1 .. Len(old) : ns[k] = old[k]
      /\ \A k \in 1 .. Len(old) + Len(d) : ns[k] = IF k <= Len(old) THEN old[k] ELSE d[k - Len(old)]
  BY <1>3, <1>4, ConcatSeq
<1> HIDE DEF ns
<1>7. \A k \in 1 .. Len(old) + Len(d) : k \in 1 .. Len(old) \/ k - Len(old) \in 1 .. Len(d)
  BY <1>3, <1>5
<1>8. \A k \in 1 .. Len(ns) : ns[k].kind = "block" => k \in 1 .. Len(old) /\ old[k] = ns[k]
  BY <1>3, <1>4, <1>5, <1>6, <1>7
<1>9. \A k \in 1 .. Len(old) : k \in 1 .. Len(ns) /\ ns[k] = old[k]
  BY <1>3, <1>5, <1>6
<1>10. Stays(H, x, [bs EXCEPT !.heap[i].nodes = ns])
  BY <1>1, <1>6, <1>8, <1>9, NodesStays
<1>11. EmitDefs(bs, args) = Crash(bs, "bad_cast") \/ EmitDefs(bs, args) = [bs EXCEPT !.heap[i].nodes = ns]
  BY DEF EmitDefs, ns, d
<1> QED  BY <1>10, <1>11, CrashStays

LEMMA DecoratedStep ==
  ASSUME IInv, pc = "exec", NEW rest, Stays(Handlers, b, rest), NEW callee,
         NEW args, IsSeq(args), NEW kws, Decorated(rest, callee, args, kws)
  PROVE  StepOK
<1> DEFINE call == Call(callee, [i \in DOMAIN args |-> PassedAs(args[i])], kws)
<1>1. Plain(call)  BY NodePlain DEF Call
<1>2. BreakAt(Push(EmitDefs(rest, args), call), pos)  BY DEF Decorated, Break
<1> HIDE DEF call
<1> QED  BY <1>1, <1>2, Start, EmitDefsStays, PushStays, StaysStep

\* the number of keyword arguments that a map of them holds
LEMMA KwLen ==
  ASSUME NEW H, NEW bs, Good(H, bs), NEW i, Arg(bs, i).kind = "kwmap"
  PROVE  Len(Arg(bs, i).args) \in Nat
BY ArgPlain DEF Plain, IsSeq

LEMMA OpCallFunction == ASSUME IInv, CallFunction PROVE StepOK
<1> DEFINE bases == Bases(b)
           named == Ver >= 311 /\ Arg(b, 1).kind = "kwmap"
           kws   == IF Ver < 311 THEN Args(b, 2 * KwCount) ELSE IF named THEN Arg(b, 1).args ELSE <<>>
           b1    == IF named THEN Pop(b) ELSE Drop(b, Len(kws))
           n     == AtLeast0(PosCount - (IF named THEN Len(kws) ELSE 0))
           rest  == Drop(b1, n + 1)
           below == IF ins.op = "CALL" /\ Arg(rest, 1) = Null THEN Pop(rest) ELSE rest
           class == Node("class", 0, <<Arg(b, bases + 2), Arg(b, bases + 1)>> \o Args(b, bases))
<1>1. pc = "exec"  BY DEF CallFunction, On
<1>2. Good(Handlers, b) /\ Stays(Handlers, b, b) /\ ins.arg \in Int  BY <1>1, Start
<1>3. bases + 3 \in Int /\ Plain(class)  BY <1>2, BasesNat, NodePlain
<1>4. Len(kws) \in Nat
  <2>1. 2 * KwCount \in Nat  BY <1>2 DEF KwCount
  <2>2. Len(Args(b, 2 * KwCount)) \in Nat  BY <1>2, <2>1, ArgsSeq
  <2>3. named => Len(Arg(b, 1).args) \in Nat  BY <1>2, KwLen
  <2>4. Len(<<>>) \in Nat  BY EmptySeqLen
  <2> QED  BY <2>2, <2>3, <2>4
<1>5. n \in Nat
  <2>1. PosCount \in Int  BY <1>2 DEF PosCount
  <2>2. PosCount - (IF named THEN Len(kws) ELSE 0) \in Int  BY <1>4, <2>1
  <2> QED  BY <2>2 DEF AtLeast0
<1>6. \/ BreakAt(Push(Drop(b, bases + 3), class), pos)
      \/ Decorated(below, Arg(b1, n + 1), Args(b1, n), kws)
  BY DEF CallFunction, Break
<1> HIDE DEF bases, class, kws, named, n
<1>7. Stays(Handlers, b, b1)  BY <1>2, <1>4, PopStays, DropStays
<1> HIDE DEF b1
<1>8. n + 1 \in Int /\ Good(Handlers, b1)  BY <1>5, <1>7, StaysGood
<1>9. Stays(Handlers, b, below)  BY <1>7, <1>8, PopStays, DropStays
<1>10. IsSeq(Args(b1, n))  BY <1>5, <1>8, ArgsSeq
<1>11. Stays(Handlers, b, Push(Drop(b, bases + 3), class))  BY <1>2, <1>3, DropStays, PushStays
<1> HIDE DEF below
<1> QED  BY <1>1, <1>6, <1>9, <1>10, <1>11, StaysStep, DecoratedStep

LEMMA ArgsAny ==
  ASSUME NEW H, NEW bs, Good(H, bs), NEW n \in Int
  PROVE  IsSeq(Args(bs, n)) /\ PlainSeq(Args(bs, n))
<1>1. CASE n >= 0  BY <1>1, ArgsSeq
<1>2. CASE n < 0
  <2>1. 1 .. n = 1 .. 0  BY <1>2
  <2>2. Args(bs, n) = [i \in 1 .. 0 |-> Args(bs, n)[i]]  BY <2>1 DEF Args
  <2>3. IsSeq(Args(bs, n)) /\ Len(Args(bs, n)) = 0  BY <2>2, FcnIsSeq
  <2> QED  BY <2>3 DEF PlainSeq
<1> QED  BY <1>1, <1>2

LEMMA OpKwNames == ASSUME IInv, KwNames PROVE StepOK
<1> DEFINE n   == IF ins.arg = EMPTY_TUPLE THEN 0 ELSE NameCount(Node("object", ins.arg, <<>>))
           map == Node("kwmap", ins.arg, Args(b, n))
<1>1. pc = "exec"  BY DEF KwNames, On
<1>2. Good(Handlers, b) /\ Stays(Handlers, b, b) /\ ins.arg \in Int  BY <1>1, Start
<1>3. n \in Int  BY <1>2 DEF NameCount, Node
<1>4. Plain(map)  BY <1>2, <1>3, ArgsAny DEF Plain, Node, NodeFields
<1>5. BreakAt(Crash(b, "bad_cast"), pos) \/ BreakAt(Push(Drop(b, n), map), pos)
  BY DEF KwNames, Break
<1> HIDE DEF n, map
<1> QED  BY <1>1, <1>2, <1>3, <1>4, <1>5, CrashStays, DropStays, PushStays, StaysStep

LEMMA CallPlain ==
  ASSUME NEW callee, NEW args, NEW kws
  PROVE  Plain(Call(callee, args, kws))
BY NodePlain DEF Call

LEMMA OpCallMethod == ASSUME IInv, CallMethod PROVE StepOK
<1>1. pc = "exec"  BY DEF CallMethod, On
<1>2. Good(Handlers, b) /\ Stays(Handlers, b, b) /\ ins.arg \in Int  BY <1>1, Start
<1>3. IsSeq(Args(b, ins.arg)) /\ Stays(Handlers, b, Drop(b, ins.arg + 1))
  BY <1>2, ArgsAny, DropStays
<1> QED  BY <1>1, <1>3, DecoratedStep DEF CallMethod

LEMMA OpCallKw == ASSUME IInv, CallKw PROVE StepOK
<1> DEFINE n    == NameCount(Arg(b, 1))
           b1   == Drop(b, n + 1)
           m    == AtLeast0(ins.arg - n)
           call == Call(Arg(b1, m + 1), Args(b1, m), Args(Pop(b), n))
<1>1. pc = "exec"  BY DEF CallKw, On
<1>2. Stays(Handlers, b, b) /\ ins.arg \in Int  BY <1>1, Start
<1>3. Plain(call)  BY CallPlain
<1>4. \/ BreakAt(Crash(b, "bad_cast"), pos)
      \/ Arg(b, 1).id \in TUPLE /\ BreakAt(Push(Drop(b1, m + 1), call), pos)
  BY DEF CallKw, Break, IsTuple
<1>5. Arg(b, 1).id \in TUPLE => n \in Int /\ m \in Int  BY <1>2 DEF NameCount, TUPLE, AtLeast0
<1> HIDE DEF n, m, call
<1>6. Arg(b, 1).id \in TUPLE => Stays(Handlers, b, Push(Drop(b1, m + 1), call))
  BY <1>2, <1>3, <1>5, DropStays, PushStays
<1> QED  BY <1>1, <1>2, <1>4, <1>6, CrashStays, StaysStep

LEMMA OpCallNoKw == ASSUME IInv, CallNoKw \/ CallIntrinsic \/ UnaryCall PROVE StepOK
<1>1. CASE CallNoKw
  BY <1>1, Start, CallPlain, DropStays, PushStays, StaysStep DEF CallNoKw, On, Break
<1>2. CASE CallIntrinsic
  BY <1>2, Start, CallPlain, DropStays, PushStays, StaysStep DEF CallIntrinsic, On, Break
<1>3. CASE UnaryCall
  BY <1>3, Start, CallPlain, PopStays, PushStays, StaysStep DEF UnaryCall, On, Break
<1> QED  BY <1>1, <1>2, <1>3

LEMMA OpCallFunctionVarKw == ASSUME IInv, CallFunctionVarKw PROVE StepOK
<1> DEFINE stars == IF ins.op = "CALL_FUNCTION_VAR_KW" THEN 2 ELSE 1
           rest  == Drop(b, stars)
           all   == PosCount + 2 * KwCount
           call  == Call(Arg(rest, all + 1), Args(Drop(rest, 2 * KwCount), PosCount),
                         Args(rest, 2 * KwCount) \o Args(b, stars))
<1>1. pc = "exec" /\ BreakAt(Push(Drop(rest, all + 1), call), pos)
  BY DEF CallFunctionVarKw, On, Break
<1>2. Stays(Handlers, b, b) /\ ins.arg \in Int  BY <1>1, Start
<1>3. Plain(call)  BY CallPlain
<1>4. stars \in Int /\ all + 1 \in Int  BY <1>2 DEF PosCount, KwCount
<1> HIDE DEF stars, all, call
<1> QED  BY <1>1, <1>2, <1>3, <1>4, DropStays, PushStays, StaysStep

LEMMA OpCallFunctionEx == ASSUME IInv, CallFunctionEx PROVE StepOK
<1> DEFINE kw   == Bit(ins.arg, 1)
           args == IF Arg(b, 1 + kw) = Null THEN <<>> ELSE <<Arg(b, 1 + kw)>>
           kws  == IF kw = 1 /\ Arg(b, 1) # Null THEN <<Arg(b, 1), Null>> ELSE <<>>
           call == Call(Arg(b, kw + 2), args, kws)
<1>1. pc = "exec" /\ BreakAt(Push(Drop(b, kw + 2), call), pos)
  BY DEF CallFunctionEx, On, Break
<1>2. Stays(Handlers, b, b) /\ ins.arg \in Int  BY <1>1, Start
<1>3. Plain(call)  BY CallPlain
<1>4. kw + 2 \in Int
  <2>1. kw \in {0, 1}  BY <1>2, BitInt
  <2> QED  BY <2>1
<1> HIDE DEF kw, call
<1> QED  BY <1>1, <1>2, <1>3, <1>4, DropStays, PushStays, StaysStep

LEMMA OpInvalid == ASSUME IInv, BinaryCall \/ BuildUnpack PROVE StepOK
BY Start, NodePlain, DropStays, PushStays, StaysStep DEF BinaryCall, BuildUnpack, InvalidNode, On, Break

-----------------------------------------------------------------------------
(* Rotations, copies and imports *)

LEMMA PairPlain ==
  ASSUME NEW u, NEW v, Plain(u), Plain(v)
  PROVE  PlainSeq(<<u, v>>)
<1>1. IsSeq(<<u, v>>) /\ Len(<<u, v>>) = 2  BY PairSeq
<1> QED  BY <1>1 DEF PlainSeq

LEMMA PopPlain ==
  ASSUME NEW H, NEW bs, Good(H, bs)
  PROVE  PlainSeq(bs.stack) /\ PlainSeq(PopFrom(bs.stack))
<1>1. Stays(H, bs, Pop(bs))  BY StaysSelf, PopStays
<1>2. Pop(bs).stack = PopFrom(bs.stack)  BY DEF Pop, Good, BuilderFields
<1> QED  BY <1>1, <1>2 DEF Stays, Good, OperandsOK

LEMMA RotStays ==
  ASSUME IInv, pc = "exec", NEW n \in {2, 3, 4}
  PROVE  Stays(Handlers, b, Rot(n))
<1> DEFINE top  == Args(b, n - 1)
           rest == Drop(b, n - 1)
           base == IF Arg(rest, 1).kind = "chain" THEN Pop(rest) ELSE rest
           two  == <<top[n - 1], Arg(base, 1)>>
           low  == SubSeq(top, 1, n - 2)
           s    == PopFrom(base.stack) \o two \o low
<1>1. Good(Handlers, b) /\ Stays(Handlers, b, b)  BY Start
<1>2. /\ IsSeq(top) /\ Len(top) = n - 1 /\ \A i \in 1 .. n - 1 : Plain(top[i])
  BY <1>1, ArgsSeq
<1>3. Stays(Handlers, b, base)  BY <1>1, DropStays, PopStays
<1>4. Rot(n) = [base EXCEPT !.stack = s]  BY DEF Rot
<1> HIDE DEF top, base
<1>5. PlainSeq(low)
  <2>1. n - 2 \in 0 .. Len(top)  BY <1>2
  <2>2. IsSeq(low) /\ Len(low) = n - 2 /\ \A i \in 1 .. n - 2 : low[i] = top[i]
    BY <1>2, <2>1, SubSeqSeq
  <2>3. \A i \in 1 .. n - 2 : i \in 1 .. n - 1  OBVIOUS
  <2> HIDE DEF low
  <2> QED  BY <1>2, <2>2, <2>3 DEF PlainSeq
<1>6. PlainSeq(two)
  <2>1. Plain(top[n - 1])  BY <1>2
  <2>2. Plain(Arg(base, 1))  BY <1>3, StaysGood, ArgPlain
  <2> QED  BY <2>1, <2>2, PairPlain
<1>7. PlainSeq(PopFrom(base.stack))  BY <1>3, StaysGood, PopPlain
<1> HIDE DEF two, low
<1>8. PlainSeq(s)  BY <1>5, <1>6, <1>7, ConcatPlain
<1> HIDE DEF s
<1> QED  BY <1>3, <1>4, <1>8, StackStays

LEMMA OpRotate == ASSUME IInv, Rotate PROVE StepOK
BY RotStays, StaysStep DEF Rotate, On, Break

LEMMA OpDupTop == ASSUME IInv, DupTop PROVE StepOK
<1> DEFINE v == Arg(b, 1)
           chain == Node("chain", 0, <<v>>)
<1>1. pc = "exec"  BY DEF DupTop, On
<1>2. Stays(Handlers, b, b) /\ Good(Handlers, b)  BY <1>1, Start
<1>3. Plain(v) /\ Plain(chain) /\ Plain(Null) /\ Plain(Arg(b, 2))
  BY <1>2, ArgPlain, NullPlain, NodePlain
<1>4. \/ BreakAt(Push(b, Null), pos)
      \/ BreakAt(Push(Push(Pop(b), Arg(b, 2)), v), pos)
      \/ BreakAt(Push(Push(b, v), chain), pos)
  BY DEF DupTop, Break
<1> HIDE DEF v, chain
<1> QED  BY <1>1, <1>2, <1>3, <1>4, PushStays, PopStays, StaysStep

LEMMA OpDupTopX == ASSUME IInv, DupTopX PROVE StepOK
<1> DEFINE s == DropFrom(b.stack, ins.arg) \o Args(b, ins.arg) \o Args(b, ins.arg)
<1>1. pc = "exec"  BY DEF DupTopX, On
<1>2. Stays(Handlers, b, b) /\ Good(Handlers, b) /\ ins.arg \in Int  BY <1>1, Start
<1>3. PlainSeq(Args(b, ins.arg)) /\ PlainSeq(DropFrom(b.stack, ins.arg))
  BY <1>2, ArgsAny, PopPlain, DropSeq
<1>4. PlainSeq(s)  BY <1>3, ConcatPlain
<1>5. BreakAt([b EXCEPT !.stack = s], pos)  BY DEF DupTopX, Break
<1> HIDE DEF s
<1> QED  BY <1>1, <1>2, <1>4, <1>5, StackStays, StaysStep

LEMMA OpImport == ASSUME IInv, ImportName \/ ImportFrom PROVE StepOK
BY Start, NodePlain, DropStays, PushStays, StaysStep DEF ImportName, ImportFrom, NameNode, On, Break

LEMMA OpDupTopTwo == ASSUME IInv, DupTopTwo PROVE StepOK
BY Start, ArgPlain, PopStays, PushStays, StaysStep DEF DupTopTwo, On, Break

-----------------------------------------------------------------------------
(* Containers and slices *)

LEMMA OpBuildMap == ASSUME IInv, BuildMap PROVE StepOK
<1> DEFINE pairs == Node("map", 0, [j \in 1 .. 2 * ins.arg |-> Arg(b, IF j % 2 = 1 THEN j + 1 ELSE j - 1)])
           map   == Node("map", 0, <<>>)
<1>1. pc = "exec"  BY DEF BuildMap, On
<1>2. Stays(Handlers, b, b) /\ ins.arg \in Int  BY <1>1, Start
<1>3. Plain(pairs) /\ Plain(map)  BY NodePlain
<1>4. \/ BreakAt(Push(Drop(b, 2 * ins.arg), pairs), pos)
      \/ BreakAt(Push(Pop(b), map), pos) \/ BreakAt(Push(b, map), pos)
  BY DEF BuildMap, Break
<1> HIDE DEF pairs, map
<1>5. Stays(Handlers, b, Push(Drop(b, 2 * ins.arg), pairs))
  <2>1. 2 * ins.arg \in Int  BY <1>2
  <2> QED  BY <1>2, <1>3, <2>1, DropStays, PushStays
<1>6. Stays(Handlers, b, Push(Pop(b), map)) /\ Stays(Handlers, b, Push(b, map))
  BY <1>2, <1>3, PopStays, PushStays
<1> QED  BY <1>1, <1>4, <1>5, <1>6, StaysStep

LEMMA OpBuildConstKeyMap == ASSUME IInv, BuildConstKeyMap PROVE StepOK
<1> DEFINE map == Node("constmap", 0, [j \in 1 .. ins.arg + 1 |-> Arg(b, j)])
<1>1. pc = "exec" /\ BreakAt(Push(Drop(b, ins.arg + 1), map), pos)  BY DEF BuildConstKeyMap, On, Break
<1>2. Plain(map)  BY NodePlain
<1> HIDE DEF map
<1> QED  BY <1>1, <1>2, Start, DropStays, PushStays, StaysStep

LEMMA OpStoreMap == ASSUME IInv, StoreMap PROVE StepOK
BY Start, DropStays, AddToMapStays, CrashStays, StaysStep DEF StoreMap, On, Break

LEMMA ExtendStep ==
  ASSUME IInv, pc = "exec", NEW kind \in {"list", "set"}, NEW constants, Extend(kind, constants)
  PROVE  StepOK
BY Start, NodePlain, DropStays, PushStays, CrashStays, StaysStep DEF Extend, Break

LEMMA OpExtend == ASSUME IInv, ListExtend \/ SetUpdate PROVE StepOK
BY ExtendStep DEF ListExtend, SetUpdate, On

LEMMA SlicePlain == ASSUME NEW u, NEW v PROVE Plain(SliceOf(u, v))
BY NodePlain DEF SliceOf

LEMMA OpBuildSlice == ASSUME IInv, BuildSlice PROVE StepOK
<1> DEFINE two   == SliceOf(Arg(b, 2), Arg(b, 1))
           three == SliceOf(SliceOf(Arg(b, 3), Arg(b, 2)), Arg(b, 1))
<1>1. pc = "exec"  BY DEF BuildSlice, On
<1>2. \/ BreakAt(Push(Drop(b, 2), two), pos) \/ BreakAt(Push(Drop(b, 3), three), pos)
      \/ BreakAt(b, pos)
  BY DEF BuildSlice, Break
<1>3. Plain(two) /\ Plain(three)  BY SlicePlain
<1> HIDE DEF two, three
<1> QED  BY <1>1, <1>2, <1>3, Start, DropStays, PushStays, StaysStep

LEMMA SlicedPlain == Bounds \in 0 .. 2 /\ Plain(Sliced) /\ Plain(SlicedBy)
BY NodePlain DEF Bounds, Sliced, SlicedBy

LEMMA OpSlice == ASSUME IInv, Slice \/ BinarySlice PROVE StepOK
<1>1. pc = "exec" /\ (BreakAt(Push(Drop(b, Bounds + 1), Sliced), pos) \/ BreakAt(Push(Drop(b, 3), SlicedBy), pos))
  BY DEF Slice, BinarySlice, On, Break
<1>2. Bounds + 1 \in Int  BY SlicedPlain
<1> QED  BY <1>1, <1>2, SlicedPlain, Start, DropStays, PushStays, StaysStep

LEMMA OpBuildTemplate == ASSUME IInv, BuildTemplate PROVE StepOK
<1>1. pc = "exec" /\ \E args : BreakAt(Push(Drop(b, 2), Node("template", 0, args)), pos)
  BY DEF BuildTemplate, On, Break
<1> QED  BY <1>1, NodePlain, Start, DropStays, PushStays, StaysStep

\* every handler that only moves operands
LEMMA OperandsStep == ASSUME IInv, Operands PROVE StepOK
BY OpNop, OpIgnored, OpPopIgnored, OpLoadName, OpLoadCommon, OpLoadTwo, OpLoadGlobal, OpLoadConst,
   OpPushNull, OpCopy, OpSmallInt, OpCombines, OpCompare, OpBuildTuple, OpBuildInterpolation,
   OpBuildTemplate, OpKwNames, OpBuildMap, OpBuildConstKeyMap, OpStoreMap, OpExtend, OpBuildSlice,
   OpSlice, OpInvalid, OpLoadAttr, OpLoadLocals, OpMakeFunction, OpCallFunction, OpCallMethod,
   OpCallFunctionVarKw, OpCallFunctionEx, OpCallKw, OpCallNoKw, OpRotate, OpDupTop, OpDupTopTwo,
   OpDupTopX, OpImport
   DEF Operands

-----------------------------------------------------------------------------
(* Fields of the current block, and flags of the handler                   *)

LEMMA SetIndexStays ==
  ASSUME NEW H, NEW x, NEW bs, Stays(H, x, bs), CurOpen(x), NEW target
  PROVE  Stays(H, x, SetIndex(bs, target))
<1> DEFINE i == bs.cur
           blk == [bs.heap[i] EXCEPT !.var = target, !.inited = 1]
           y == SetIndex(bs, target)
<1>1. i \in OpenOf(bs.blocks) /\ Good(H, bs)  BY DEF Stays, CurOpen
<1>2. i \in 1 .. Len(bs.heap)  BY <1>1, OpenInHeap
<1>3. DOMAIN bs.heap[i] = BlockFields /\ DOMAIN bs.heap = 1 .. Len(bs.heap) /\ DOMAIN bs = BuilderFields
  BY <1>1, <1>2, IsSeqDomain DEF Good, HeapOK, BlockOK
<1>4. SameHandlers(bs.zce, bs.zce)  BY <1>1, SameHandlersSelf
<1>5. /\ DOMAIN blk = BlockFields /\ blk.type = bs.heap[i].type
      /\ blk.nodes = bs.heap[i].nodes /\ blk.exc = bs.heap[i].exc
  BY <1>3 DEF BlockFields
<1>6. y.heap = [bs.heap EXCEPT ![i] = blk]
  BY <1>2, <1>3 DEF SetIndex, BuilderFields
<1>7. HeapMove(bs, y, i, blk)
  BY <1>1, <1>3, <1>4, <1>6 DEF HeapMove, SetIndex, BuilderFields, Good
<1> QED  BY <1>1, <1>5, <1>7, FieldStays

LEMMA SetWithStays ==
  ASSUME NEW H, NEW x, NEW bs, Stays(H, x, bs), CurOpen(x), NEW expr, NEW target
  PROVE  Stays(H, x, SetWith(bs, expr, target))
<1> DEFINE i == bs.cur
           blk == [bs.heap[i] EXCEPT !.expr = expr, !.inited = 1, !.var = target]
           y == SetWith(bs, expr, target)
<1>1. i \in OpenOf(bs.blocks) /\ Good(H, bs)  BY DEF Stays, CurOpen
<1>2. i \in 1 .. Len(bs.heap)  BY <1>1, OpenInHeap
<1>3. DOMAIN bs.heap[i] = BlockFields /\ DOMAIN bs.heap = 1 .. Len(bs.heap) /\ DOMAIN bs = BuilderFields
  BY <1>1, <1>2, IsSeqDomain DEF Good, HeapOK, BlockOK
<1>4. SameHandlers(bs.zce, bs.zce)  BY <1>1, SameHandlersSelf
<1>5. /\ DOMAIN blk = BlockFields /\ blk.type = bs.heap[i].type
      /\ blk.nodes = bs.heap[i].nodes /\ blk.exc = bs.heap[i].exc
  BY <1>3 DEF BlockFields
<1>6. y.heap = [bs.heap EXCEPT ![i] = blk]
  BY <1>2, <1>3 DEF SetWith, BuilderFields
<1>7. HeapMove(bs, y, i, blk)
  BY <1>1, <1>3, <1>4, <1>6 DEF HeapMove, SetWith, BuilderFields, Good
<1> QED  BY <1>1, <1>5, <1>7, FieldStays

\* what the handler expects next
LEMMA FlagStays ==
  ASSUME NEW H, NEW x, NEW bs, Stays(H, x, bs), NEW v
  PROVE  /\ Stays(H, x, [bs EXCEPT !.zce.now.expect_check = v])
         /\ Stays(H, x, [bs EXCEPT !.zce.now.expect_as = v])
<1>1. Good(H, bs)  BY StaysGood
<1>2. DOMAIN bs = BuilderFields /\ ZceShape(bs.zce)  BY <1>1 DEF Good
<1>3. OperandMove(bs, [bs EXCEPT !.zce.now.expect_check = v])
  BY <1>1, <1>2 DEF OperandMove, SameHandlers, Good, ZceShape, BuilderFields, HandlerFields
<1>4. OperandMove(bs, [bs EXCEPT !.zce.now.expect_as = v])
  BY <1>1, <1>2 DEF OperandMove, SameHandlers, Good, ZceShape, BuilderFields, HandlerFields
<1> QED  BY <1>3, <1>4, OperandStays

-----------------------------------------------------------------------------
(* Stores                                                                  *)

\* more operands do not make a node a block
LEMMA PlainArgs ==
  ASSUME NEW n, Plain(n), n.kind # "kwmap", NEW v
  PROVE  Plain([n EXCEPT !.args = v]) /\ [n EXCEPT !.args = v].kind # "block"
BY DEF Plain, NodeFields

LEMMA AssignStays ==
  ASSUME NEW H, NEW x, NEW bs, Stays(H, x, bs), CurOpen(x), NEW value, Plain(value), NEW target
  PROVE  Stays(H, x, Assign(bs, value, target))
<1> DEFINE full == [value EXCEPT !.args = Append(@, target)]
           store == StoreNode(value, target)
<1>1. store.kind # "block"  BY DEF StoreNode, Node
<1>2. value.kind = "chain" => Plain(full) /\ full.kind # "block"  BY PlainArgs
<1>3. \/ value.kind = "chain" /\ Assign(bs, value, target) = Emit(Pop(bs), full)
      \/ value.kind = "chain" /\ Assign(bs, value, target) = Push(Pop(bs), full)
      \/ Assign(bs, value, target) = Emit(bs, store)
  BY DEF Assign, AppendToChain
<1> HIDE DEF full, store
<1>4. Stays(H, x, Emit(bs, store))  BY <1>1, EmitStays
<1>5. Stays(H, x, Pop(bs))  BY PopStays
<1>6. value.kind = "chain" => Stays(H, x, Emit(Pop(bs), full)) /\ Stays(H, x, Push(Pop(bs), full))
  BY <1>2, <1>5, EmitStays, PushStays
<1> QED  BY <1>3, <1>4, <1>6

LEMMA UnpackStep ==
  ASSUME IInv, pc = "exec", NEW bs, Stays(Handlers, b, bs), NEW target, NEW indexable,
         UnpackInto(bs, target, indexable)
  PROVE  StepOK
<1> DEFINE top  == Arg(bs, 1)
           tup  == IF top.kind = "tuple" THEN [top EXCEPT !.args = Append(@, target)] ELSE top
           rest == Drop(bs, 2)
           val  == Arg(bs, 2)
<1>1. Good(Handlers, bs) /\ CurOpen(b)  BY Start, StaysGood
<1>2. Plain(top) /\ Plain(val)  BY <1>1, ArgPlain
<1>3. Plain(tup)  BY <1>2, PlainArgs
<1>4. \/ BreakAt(Push(Pop(bs), tup), pos) \/ BreakAt(bs, pos)
      \/ BreakAt(SetIndex(rest, tup), pos) \/ BreakAt(Assign(rest, val, tup), pos)
  BY DEF UnpackInto
<1> HIDE DEF tup, val
<1>5. Stays(Handlers, b, rest)  BY DropStays
<1> HIDE DEF rest
<1>6. Stays(Handlers, b, Push(Pop(bs), tup))  BY <1>3, PopStays, PushStays
<1>7. Stays(Handlers, b, SetIndex(rest, tup))  BY <1>1, <1>5, SetIndexStays
<1>8. Stays(Handlers, b, Assign(rest, val, tup))  BY <1>1, <1>2, <1>5, AssignStays DEF val
<1> QED  BY <1>4, <1>6, <1>7, <1>8, StaysStep

LEMMA OpStoreAsName == ASSUME IInv, StoreAsName PROVE StepOK
<1> DEFINE bs == Pop(b)
           i == b.cur
           blk == [bs.heap[i] EXCEPT !.var = NameNode(ins.arg)]
           y == [bs EXCEPT !.zce.now.expect_as = FALSE, !.zce.now.as_name = NameNode(ins.arg),
                           !.heap[i].var = NameNode(ins.arg)]
<1>1. pc = "exec" /\ BreakAt(y, pos)  BY DEF StoreAsName, On, Break
<1>2. Stays(Handlers, b, bs)  BY <1>1, Start, PopStays
<1>3. Good(Handlers, bs) /\ i \in OpenOf(bs.blocks)
  BY <1>1, <1>2, Start DEF Stays, CurOpen
<1>4. i \in 1 .. Len(bs.heap)  BY <1>3, OpenInHeap
<1>5. /\ DOMAIN bs.heap[i] = BlockFields /\ DOMAIN bs.heap = 1 .. Len(bs.heap)
      /\ DOMAIN bs = BuilderFields /\ ZceShape(bs.zce)
  BY <1>3, <1>4, IsSeqDomain DEF Good, HeapOK, BlockOK
<1> HIDE DEF bs
<1>6. SameHandlers(bs.zce, y.zce)
  BY <1>5 DEF SameHandlers, ZceShape, BuilderFields, HandlerFields
<1>7. /\ DOMAIN blk = BlockFields /\ blk.type = bs.heap[i].type
      /\ blk.nodes = bs.heap[i].nodes /\ blk.exc = bs.heap[i].exc
  BY <1>5 DEF BlockFields
<1>8. y.heap = [bs.heap EXCEPT ![i] = blk]
  BY <1>4, <1>5 DEF BuilderFields
<1>9. HeapMove(bs, y, i, blk)
  BY <1>3, <1>5, <1>6, <1>8 DEF HeapMove, BuilderFields, Good
<1>10. Stays(Handlers, b, y)  BY <1>2, <1>3, <1>7, <1>9, FieldStays
<1> HIDE DEF y
<1> QED  BY <1>1, <1>10, StaysStep

LEMMA OpStoreCleared == ASSUME IInv, StoreCleared PROVE StepOK
BY Start, PopStays, StaysStep DEF StoreCleared, On, Break

LEMMA OpStoreFast == ASSUME IInv, StoreFast PROVE StepOK
<1> DEFINE value == Arg(b, 1)
           rest  == Pop(b)
           name  == NameNode(ins.arg)
<1>1. pc = "exec"  BY DEF StoreFast, On
<1>2. Stays(Handlers, b, b) /\ CurOpen(b) /\ Plain(value)  BY <1>1, Start, ArgPlain
<1>3. Stays(Handlers, b, rest)  BY <1>2, PopStays
<1>4. \/ UnpackInto(b, name, TRUE) \/ BreakAt(rest, pos)
      \/ BreakAt(SetIndex(rest, name), pos) \/ BreakAt(SetWith(rest, value, name), pos)
      \/ BreakAt(Assign(rest, value, name), pos)
  BY DEF StoreFast, Break
<1> HIDE DEF value, rest, name
<1>5. /\ Stays(Handlers, b, SetIndex(rest, name)) /\ Stays(Handlers, b, SetWith(rest, value, name))
      /\ Stays(Handlers, b, Assign(rest, value, name))
  BY <1>2, <1>3, SetIndexStays, SetWithStays, AssignStays
<1> QED  BY <1>1, <1>2, <1>3, <1>4, <1>5, StaysStep, UnpackStep

LEMMA OpStoreName == ASSUME IInv, StoreName PROVE StepOK
<1> DEFINE value  == Arg(b, 1)
           rest   == Pop(b)
           name   == NameNode(ins.arg)
           module == Arg(rest, 1)
           import == [module EXCEPT !.args = Append(@, StoreNode(value, name))]
<1>1. pc = "exec"  BY DEF StoreName, On
<1>2. Stays(Handlers, b, b) /\ CurOpen(b) /\ Plain(value)  BY <1>1, Start, ArgPlain
<1>3. Stays(Handlers, b, rest) /\ Plain(module)  BY <1>2, PopStays, ArgPlain, StaysGood
<1>4. \/ UnpackInto(b, name, TRUE) \/ BreakAt(rest, pos)
      \/ BreakAt(SetIndex(rest, name), pos) \/ BreakAt(SetWith(rest, value, name), pos)
      \/ BreakAt(Assign(rest, value, name), pos)
      \/ module.kind = "import" /\ BreakAt(Push(Pop(rest), import), pos)
  BY DEF StoreName, StoreImported, Break
<1>5. module.kind = "import" => Plain(import)  BY <1>3, PlainArgs
<1> HIDE DEF value, rest, name, import, module
<1>6. /\ Stays(Handlers, b, SetIndex(rest, name)) /\ Stays(Handlers, b, SetWith(rest, value, name))
      /\ Stays(Handlers, b, Assign(rest, value, name))
  BY <1>2, <1>3, SetIndexStays, SetWithStays, AssignStays
<1>7. module.kind = "import" => Stays(Handlers, b, Push(Pop(rest), import))
  BY <1>3, <1>5, PopStays, PushStays
<1> QED  BY <1>1, <1>2, <1>3, <1>4, <1>6, <1>7, StaysStep, UnpackStep

\* an operand below the target's own is stored
LEMMA StoreStep ==
  ASSUME IInv, pc = "exec", NEW bs, Stays(Handlers, b, bs), NEW k, NEW target,
         BreakAt(Assign(bs, Arg(b, k), target), pos)
  PROVE  StepOK
<1>1. CurOpen(b) /\ Plain(Arg(b, k))  BY Start, ArgPlain
<1>2. Stays(Handlers, b, Assign(bs, Arg(b, k), target))  BY <1>1, AssignStays
<1> QED  BY <1>2, StaysStep

LEMMA OpStoreGlobal == ASSUME IInv, StoreGlobal \/ StoreDeref PROVE StepOK
<1>1. pc = "exec"  BY DEF StoreGlobal, StoreDeref, On
<1>2. Stays(Handlers, b, b) /\ Stays(Handlers, b, Pop(b))  BY <1>1, Start, PopStays
<1>3. \/ UnpackInto(b, NameNode(ins.arg), TRUE) \/ UnpackInto(b, NameNode(ins.arg), FALSE)
      \/ BreakAt(Assign(Pop(b), Arg(b, 1), NameNode(ins.arg)), pos)
  BY DEF StoreGlobal, StoreDeref, Break
<1> QED  BY <1>1, <1>2, <1>3, StoreStep, UnpackStep

LEMMA OpStoreAttr == ASSUME IInv, StoreAttr PROVE StepOK
<1> DEFINE attr == Node("attr", ins.arg, <<Arg(b, 1)>>)
<1>1. pc = "exec"  BY DEF StoreAttr, On
<1>2. Stays(Handlers, b, Pop(b)) /\ Stays(Handlers, b, Drop(b, 2))  BY <1>1, Start, PopStays, DropStays
<1>3. UnpackInto(Pop(b), attr, FALSE) \/ BreakAt(Assign(Drop(b, 2), Arg(b, 2), attr), pos)
  BY DEF StoreAttr, Break
<1> HIDE DEF attr
<1> QED  BY <1>1, <1>2, <1>3, StoreStep, UnpackStep

LEMMA LastIsNoBlock ==
  ASSUME NEW H, NEW bs, Good(H, bs), LastNode(Cur(bs)).kind # "block"
  PROVE  DropsNoContainer(bs)
<1>1. IsSeq(bs.heap[bs.cur].nodes)  BY DEF Good, HeapOK, BlockOK
<1>2. 1 <= Len(bs.heap[bs.cur].nodes) => bs.heap[bs.cur].nodes # <<>>  BY <1>1, EmptySeqLen
<1> QED  BY <1>2 DEF DropsNoContainer, LastNode, Cur

\* the last statement is replaced
LEMMA ReplaceStays ==
  ASSUME NEW H, NEW x, NEW bs, Stays(H, x, bs), CurOpen(x), LastNode(Cur(bs)).kind # "block",
         NEW n, n.kind # "block"
  PROVE  Stays(H, x, Emit(RemoveLast(bs), n)) /\ Stays(H, x, RemoveLast(bs))
BY StaysGood, LastIsNoBlock, RemoveLastStays, EmitStays

LEMMA AnnotateStays ==
  ASSUME NEW H, NEW x, NEW bs, Stays(H, x, bs), CurOpen(x), NEW annotation, annotation.kind # "block"
  PROVE  Stays(H, x, Annotate(bs, annotation))
<1> DEFINE last == LastNode(Cur(bs))
           store == StoreNode(last.args[1], annotation)
<1>1. store.kind # "block"  BY DEF StoreNode, Node
<1>2. \/ last.kind = "store" /\ Annotate(bs, annotation) = Emit(RemoveLast(bs), store)
      \/ Annotate(bs, annotation) = Emit(bs, annotation)
  BY DEF Annotate
<1> HIDE DEF store
<1> QED  BY <1>1, <1>2, ReplaceStays, EmitStays

LEMMA OpStoreSubscr == ASSUME IInv, StoreSubscr PROVE StepOK
<1> DEFINE item == Node("subscr", 0, Args(b, 2))
           note == Node("annotated", 0, <<Arg(b, 1), Arg(b, 3)>>)
           rest == Drop(b, 3)
<1>1. pc = "exec"  BY DEF StoreSubscr, On
<1>2. Stays(Handlers, b, b) /\ CurOpen(b) /\ note.kind # "block" /\ Stays(Handlers, b, rest)
  BY <1>1, Start, DropStays DEF Node
<1>3. \/ UnpackInto(Drop(b, 2), item, FALSE) \/ BreakAt(Crash(b, "ub"), pos)
      \/ BreakAt(Annotate(rest, note), pos)
      \/ BreakAt(AddToMap(rest, Arg(b, 2), Arg(b, 1), Arg(b, 3)), pos)
      \/ BreakAt(Assign(rest, Arg(b, 3), item), pos)
  BY DEF StoreSubscr, Break
<1> HIDE DEF note, rest, item
<1>4. UnpackInto(Drop(b, 2), item, FALSE) \/ BreakAt(Assign(rest, Arg(b, 3), item), pos) => StepOK
  <2>1. Stays(Handlers, b, Drop(b, 2))  BY <1>2, DropStays
  <2> QED  BY <1>1, <1>2, <2>1, StoreStep, UnpackStep
<1>5. Stays(Handlers, b, Annotate(rest, note))  BY <1>2, AnnotateStays
<1>6. Stays(Handlers, b, AddToMap(rest, Arg(b, 2), Arg(b, 1), Arg(b, 3)))  BY <1>2, AddToMapStays
<1>7. Stays(Handlers, b, Crash(b, "ub"))  BY <1>2, CrashStays
<1> QED  BY <1>1, <1>3, <1>4, <1>5, <1>6, <1>7, StaysStep

LEMMA OpSetupAnnotations == ASSUME IInv, SetupAnnotations PROVE StepOK
<1>1. pc = "exec" /\ b' = b /\ pc' = "fetch" /\ pos' = pos /\ prog' = prog /\ curpos' = curpos
      /\ ins' = ins /\ walk' = walk
  BY DEF SetupAnnotations, On
<1>2. Handlers' = Handlers /\ Size' = Size  BY <1>1, SameCode
<1>3. InsOK' /\ WalkOK'  BY <1>1, <1>2 DEF IInv, InsOK, WalkOK
<1>4. Settled(b)'  BY <1>1, Start DEF Settled, TopId
<1>5. Good(Handlers', b')  BY <1>1, <1>2 DEF IInv
<1>6. IInv'  BY <1>1, <1>2, <1>3, <1>4, <1>5 DEF IInv
<1>7. Kept  BY <1>1 DEF Kept
<1>8. Nearer  BY <1>1, NextStage
<1> QED  BY <1>6, <1>7, <1>8 DEF StepOK

LEMMA OpSwap == ASSUME IInv, Swap PROVE StepOK
<1> DEFINE values == Node("tuple", 0, Args(b, ins.arg))
           empty  == Node("tuple", 0, <<>>)
<1>1. pc = "exec" /\ BreakAt(Push(Push(Drop(b, ins.arg), values), empty), pos)  BY DEF Swap, On
<1>2. Plain(values) /\ Plain(empty)  BY NodePlain
<1> HIDE DEF values, empty
<1> QED  BY <1>1, <1>2, Start, DropStays, PushStays, StaysStep

LEMMA OpUnpackSequence == ASSUME IInv, UnpackSequence PROVE StepOK
<1> DEFINE empty == Node("tuple", 0, <<>>)
<1>1. pc = "exec"  BY DEF UnpackSequence, On
<1>2. \/ BreakAt(Push(b, empty), pos) \/ BreakAt(SetIndex(b, empty), pos)
      \/ BreakAt(Assign(Pop(b), Arg(b, 1), empty), pos)
  BY DEF UnpackSequence
<1>3. Plain(empty)  BY NodePlain
<1> HIDE DEF empty
<1>4. Stays(Handlers, b, Push(b, empty)) /\ Stays(Handlers, b, SetIndex(b, empty))
      /\ Stays(Handlers, b, Pop(b))
  BY <1>1, <1>3, Start, PushStays, SetIndexStays, PopStays
<1> QED  BY <1>1, <1>2, <1>4, StaysStep, StoreStep

-----------------------------------------------------------------------------
(* Statements                                                              *)

\* a statement is emitted after n operands were popped
LEMMA EmitStep ==
  ASSUME IInv, pc = "exec", NEW bs, Stays(Handlers, b, bs), NEW n, n.kind # "block",
         BreakAt(Emit(bs, n), pos)
  PROVE  StepOK
<1>1. Stays(Handlers, b, Emit(bs, n))  BY Start, EmitStays
<1> QED  BY <1>1, StaysStep

LEMMA OpStoreSlices == ASSUME IInv, StoreSlice \/ StoreSlicedBy \/ DeleteSlice PROVE StepOK
<1> DEFINE s1 == StoreNode(Arg(b, Bounds + 2), Sliced)
           s2 == StoreNode(Arg(b, 4), SlicedBy)
           s3 == Node("delete", 0, <<Sliced>>)
<1>1. pc = "exec"  BY DEF StoreSlice, StoreSlicedBy, DeleteSlice, On
<1>2. \/ BreakAt(Emit(Drop(b, Bounds + 2), s1), pos) \/ BreakAt(Emit(Drop(b, 4), s2), pos)
      \/ BreakAt(Emit(Drop(b, Bounds + 1), s3), pos)
  BY DEF StoreSlice, StoreSlicedBy, DeleteSlice, Break
<1>3. s1.kind # "block" /\ s2.kind # "block" /\ s3.kind # "block"  BY DEF StoreNode, Node
<1>4. Bounds + 1 \in Int /\ Bounds + 2 \in Int  BY SlicedPlain
<1> HIDE DEF s1, s2, s3
<1>5. /\ Stays(Handlers, b, Drop(b, Bounds + 2)) /\ Stays(Handlers, b, Drop(b, 4))
      /\ Stays(Handlers, b, Drop(b, Bounds + 1))
  BY <1>1, <1>4, Start, DropStays
<1> QED  BY <1>1, <1>2, <1>3, <1>5, EmitStep

LEMMA OpKeywords == ASSUME IInv, BreakLoop \/ ContinueLoop PROVE StepOK
BY Start, EmitStep DEF BreakLoop, ContinueLoop, On, Break, Keyword, Node

LEMMA OpDeletes == ASSUME IInv, DeleteName \/ DeleteSubscr \/ DeleteAttr PROVE StepOK
<1>1. CASE DeleteName
  <2> DEFINE n == Node("delete", 0, <<NameNode(ins.arg)>>)
  <2>1. pc = "exec" /\ (BreakAt(b, pos) \/ BreakAt(Emit(b, n), pos))  BY <1>1 DEF DeleteName, On, Break
  <2>2. n.kind # "block"  BY DEF Node
  <2> HIDE DEF n
  <2> QED  BY <2>1, <2>2, Start, StaysStep, EmitStep
<1>2. CASE DeleteSubscr  BY <1>2, Start, DropStays, EmitStep DEF DeleteSubscr, On, Break, Node
<1>3. CASE DeleteAttr  BY <1>3, Start, PopStays, EmitStep DEF DeleteAttr, On, Break, Node
<1> QED  BY <1>1, <1>2, <1>3

LEMMA OpExec == ASSUME IInv, ExecStmt PROVE StepOK
<1> DEFINE bs == IF Arg(b, 1).kind = "chain" THEN Pop(b) ELSE b
           n  == Node("exec", 0, Args(bs, 3))
<1>1. pc = "exec" /\ BreakAt(Emit(Drop(bs, 3), n), pos)  BY DEF ExecStmt, On, Break
<1>2. n.kind # "block"  BY DEF Node
<1>3. Stays(Handlers, b, bs)  BY <1>1, Start, PopStays
<1> HIDE DEF bs, n
<1>4. Stays(Handlers, b, Drop(bs, 3))  BY <1>3, DropStays
<1> QED  BY <1>1, <1>2, <1>4, EmitStep

LEMMA OpImportStar == ASSUME IInv, ImportStar PROVE StepOK
BY Start, PopStays, EmitStep DEF ImportStar, On, Break, StoreNode, Node

LEMMA PrintStays ==
  ASSUME NEW H, NEW x, NEW bs, Stays(H, x, bs), CurOpen(x), NEW stream, NEW value
  PROVE  Stays(H, x, AddItem(bs, stream, value)) /\ Stays(H, x, EndLine(bs, stream))
<1> DEFINE last == LastNode(Cur(bs))
           more == Node("print", 0, Append(last.args, value))
           line == Node("print", 1, last.args)
<1>1. \/ last.kind = "print" /\ AddItem(bs, stream, value) = Emit(RemoveLast(bs), more)
      \/ AddItem(bs, stream, value) = Emit(bs, PrintNode(value, stream))
  BY DEF AddItem, OpenPrint
<1>2. \/ last.kind = "print" /\ EndLine(bs, stream) = Emit(RemoveLast(bs), line)
      \/ EndLine(bs, stream) = Emit(bs, PrintNode(Null, stream))
  BY DEF EndLine, OpenPrint
<1>3. /\ more.kind # "block" /\ line.kind # "block"
      /\ PrintNode(value, stream).kind # "block" /\ PrintNode(Null, stream).kind # "block"
  BY DEF PrintNode, Node
<1> HIDE DEF more, line
<1> QED  BY <1>1, <1>2, <1>3, ReplaceStays, EmitStays

LEMMA OpPrint == ASSUME IInv, PrintItem \/ PrintNewline PROVE StepOK
<1>1. pc = "exec"  BY DEF PrintItem, PrintNewline, On
<1>2. Stays(Handlers, b, Pop(b)) /\ CurOpen(b)  BY <1>1, Start, PopStays
<1> QED  BY <1>1, <1>2, PrintStays, StaysStep DEF PrintItem, PrintNewline, Break

LEMMA OpPrintTo == ASSUME IInv, PrintItemTo \/ PrintNewlineTo PROVE StepOK
<1>1. pc = "exec"  BY DEF PrintItemTo, PrintNewlineTo, On
<1>2. Stays(Handlers, b, Drop(b, 2)) /\ CurOpen(b)  BY <1>1, Start, DropStays
<1>3. /\ Stays(Handlers, b, AddItem(Drop(b, 2), Arg(b, 1), Arg(b, 2)))
      /\ Stays(Handlers, b, EndLine(Drop(b, 2), Arg(b, 1)))
  BY <1>2, PrintStays
<1>4. \A bs : Stays(Handlers, b, bs) => Stays(Handlers, b, ToStream(bs))
  BY CrashStays, ProcessedStays DEF ToStream
<1> QED  BY <1>1, <1>3, <1>4, StaysStep DEF PrintItemTo, PrintNewlineTo, Break

LEMMA CondBlockNew ==
  ASSUME NEW H, NEW type, type # "MAIN", type # "CONTAINER", NEW end, NEW inited, NEW cond, NEW neg
  PROVE  NewBlock(H, CondBlock(type, end, inited, cond, neg)) /\ NewBlock(H, Block(type, end, inited))
BY DEF NewBlock, CondBlock, Block, BlockFields

LEMMA OpBareExcept == ASSUME IInv, BareExcept PROVE StepOK
<1> DEFINE bs  == [Pop(b) EXCEPT !.zce.now.expect_check = FALSE]
           blk == CondBlock("EXCEPT", curpos, 1, Null, FALSE)
<1>1. pc = "exec" /\ BreakAt(Open(bs, blk), pos)  BY DEF BareExcept, On, Break
<1>2. Stays(Handlers, b, bs) /\ b.blocks # <<>> /\ Leads(Handlers, b, b)
  BY <1>1, Start, PopStays, FlagStays
<1>3. NewBlock(Handlers, blk)  BY CondBlockNew
<1> HIDE DEF bs, blk
<1>4. Leads(Handlers, b, bs) /\ bs.blocks # <<>>  BY <1>2, LeadsStays DEF Stays
<1> QED  BY <1>1, <1>3, <1>4, OpenGoes, GoesStep

LEMMA OpUnnamedExcept == ASSUME IInv, UnnamedExcept PROVE StepOK
BY Start, PopStays, FlagStays, StaysStep DEF UnnamedExcept, On, Break

\* an open block changes, but not what it is or holds
LEMMA BlockStays ==
  ASSUME NEW H, NEW x, NEW bs, Stays(H, x, bs), NEW i \in OpenOf(bs.blocks), NEW blk,
         DOMAIN blk = BlockFields, blk.type = bs.heap[i].type, blk.nodes = bs.heap[i].nodes,
         blk.exc = bs.heap[i].exc \/ H = {}
  PROVE  Stays(H, x, [bs EXCEPT !.heap = [bs.heap EXCEPT ![i] = blk]])
<1> DEFINE y == [bs EXCEPT !.heap = [bs.heap EXCEPT ![i] = blk]]
<1>1. Good(H, bs) /\ SameHandlers(bs.zce, bs.zce)  BY StaysGood, SameHandlersSelf
<1>2. HeapMove(bs, y, i, blk)  BY <1>1 DEF HeapMove, Good, BuilderFields
<1> HIDE DEF y
<1>3. Stays(H, x, y)  BY <1>2, FieldStays
<1> QED  BY <1>3 DEF y

LEMMA FieldsStay ==
  ASSUME NEW H, NEW x, NEW bs, Stays(H, x, bs), NEW i \in OpenOf(bs.blocks), NEW v
  PROVE  /\ Stays(H, x, [bs EXCEPT !.heap[i].inited = v])
         /\ Stays(H, x, [bs EXCEPT !.heap[i].expr = v, !.heap[i].inited = 1])
         /\ Stays(H, x, [bs EXCEPT !.heap[i].filter = v])
         /\ Stays(H, x, [bs EXCEPT !.heap[i].end = v])
         /\ H = {} => Stays(H, x, [bs EXCEPT !.heap[i].exc = v])
<1> DEFINE blk == bs.heap[i]
           With(nb) == [bs EXCEPT !.heap = [bs.heap EXCEPT ![i] = nb]]
<1>1. Good(H, bs) /\ i \in 1 .. Len(bs.heap)  BY StaysGood, OpenInHeap
<1>2. DOMAIN blk = BlockFields /\ DOMAIN bs.heap = 1 .. Len(bs.heap) /\ DOMAIN bs = BuilderFields
  BY <1>1, IsSeqDomain DEF Good, HeapOK, BlockOK
<1>3. /\ [bs EXCEPT !.heap[i].inited = v] = With([blk EXCEPT !.inited = v])
      /\ [bs EXCEPT !.heap[i].expr = v, !.heap[i].inited = 1] = With([blk EXCEPT !.expr = v, !.inited = 1])
      /\ [bs EXCEPT !.heap[i].filter = v] = With([blk EXCEPT !.filter = v])
      /\ [bs EXCEPT !.heap[i].end = v] = With([blk EXCEPT !.end = v])
      /\ [bs EXCEPT !.heap[i].exc = v] = With([blk EXCEPT !.exc = v])
  BY <1>1, <1>2 DEF BuilderFields
<1>4. \A nb : /\ DOMAIN nb = BlockFields /\ nb.type = blk.type /\ nb.nodes = blk.nodes
              /\ nb.exc = blk.exc \/ H = {}
              => Stays(H, x, With(nb))
  BY BlockStays
<1> HIDE DEF With
<1>5. /\ Stays(H, x, With([blk EXCEPT !.inited = v]))
      /\ Stays(H, x, With([blk EXCEPT !.expr = v, !.inited = 1]))
      /\ Stays(H, x, With([blk EXCEPT !.filter = v]))
      /\ Stays(H, x, With([blk EXCEPT !.end = v]))
      /\ H = {} => Stays(H, x, With([blk EXCEPT !.exc = v]))
  BY <1>2, <1>4 DEF BlockFields
<1> QED  BY <1>3, <1>5

LEMMA OpPopTop == ASSUME IInv, PopTop PROVE StepOK
<1> DEFINE value == Arg(b, 1)
           rest  == Pop(b)
           comp  == Node("comprehension", 0, <<value.args[2]>>)
<1>1. pc = "exec"  BY DEF PopTop, On
<1>2. Stays(Handlers, b, rest) /\ Plain(value) /\ Plain(comp) /\ CurOpen(b)
  BY <1>1, Start, PopStays, ArgPlain, NodePlain
<1>3. b.cur \in OpenOf(rest.blocks)  BY <1>2 DEF Stays, CurOpen
<1>4. \/ BreakAt([rest EXCEPT !.heap[b.cur].expr = value, !.heap[b.cur].inited = 1], pos)
      \/ BreakAt([rest EXCEPT !.heap[b.cur].inited = 1], pos)
      \/ BreakAt(rest, pos)
      \/ BreakAt(Push(Emit(rest, value), comp), pos)
      \/ BreakAt(Emit(rest, value), pos)
  BY DEF PopTop, Break
<1>5. value.kind # "block"  BY <1>2 DEF Plain
<1> HIDE DEF value, rest, comp
<1>6. /\ Stays(Handlers, b, [rest EXCEPT !.heap[b.cur].expr = value, !.heap[b.cur].inited = 1])
      /\ Stays(Handlers, b, [rest EXCEPT !.heap[b.cur].inited = 1])
  BY <1>2, <1>3, FieldsStay
<1>7. /\ Stays(Handlers, b, Emit(rest, value)) /\ Stays(Handlers, b, Push(Emit(rest, value), comp))
  BY <1>2, <1>5, EmitStays, PushStays
<1> QED  BY <1>1, <1>2, <1>4, <1>6, <1>7, StaysStep

\* the branch that a return or a raise ends is closed
LEMMA EndBranch ==
  ASSUME IInv, pc = "exec", NEW bs, Stays(Handlers, b, bs)
  PROVE  Goes(Handlers, b, CloseCur(RestoreStack(bs)))
<1>1. Stays(Handlers, b, RestoreStack(bs))  BY RestoreStays
<1>2. Goes(Handlers, b, RestoreStack(bs))  BY <1>1, Start, LeadsStays
<1> QED  BY <1>2, CloseCurGoes

LEMMA OpReturnValue == ASSUME IInv, ReturnValue PROVE StepOK
<1> DEFINE ret == Node("return", 0, <<Arg(b, 1)>>)
           b1  == Emit(Pop(b), ret)
           b2  == CloseCur(RestoreStack(b1))
<1>1. pc = "exec"  BY DEF ReturnValue, On
<1>2. ret.kind # "block"  BY DEF Node
<1>3. \/ BreakAt(b1, pos) \/ BreakAt(Crash(b2, "exit"), pos)
      \/ pos # Size /\ BreakAt(b2, pos + 1)
  BY DEF ReturnValue, Break
<1> HIDE DEF ret
<1>4. Stays(Handlers, b, b1)  BY <1>1, <1>2, Start, PopStays, EmitStays
<1> HIDE DEF b1
<1>5. Goes(Handlers, b, b2)  BY <1>1, <1>4, EndBranch
<1> HIDE DEF b2
<1>6. Goes(Handlers, b, Crash(b2, "exit"))  BY <1>5, CrashGoes DEF Goes
<1>7. pos # Size => pos + 1 \in pos .. Size  BY SizeNat DEF IInv
<1>8. BreakAt(b1, pos) => StepOK  BY <1>1, <1>4, StaysStep
<1>9. BreakAt(Crash(b2, "exit"), pos) => StepOK  BY <1>1, <1>6, GoesStep
<1>10. pos # Size /\ BreakAt(b2, pos + 1) => StepOK  BY <1>1, <1>5, <1>7, BreakStep DEF Goes
<1> QED  BY <1>3, <1>8, <1>9, <1>10

LEMMA OpReturnConst == ASSUME IInv, ReturnConst PROVE StepOK
BY Start, EmitStep DEF ReturnConst, On, Break, Node

LEMMA OpRaise == ASSUME IInv, RaiseVarargs PROVE StepOK
<1> DEFINE raise == Node("raise", 0, Args(b, ins.arg))
           b1    == Emit(Drop(b, ins.arg), raise)
<1>1. pc = "exec"  BY DEF RaiseVarargs, On
<1>2. raise.kind # "block"  BY DEF Node
<1>3. BreakAt(b1, pos) \/ BreakAt(CloseCur(RestoreStack(b1)), pos)
  BY DEF RaiseVarargs, Break
<1> HIDE DEF raise
<1>4. Stays(Handlers, b, b1)  BY <1>1, <1>2, Start, DropStays, EmitStays
<1> HIDE DEF b1
<1> QED  BY <1>1, <1>3, <1>4, EndBranch, StaysStep, GoesStep

LEMMA OpYield == ASSUME IInv, YieldValue \/ YieldFrom PROVE StepOK
<1> DEFINE n1 == Node("yield", 0, <<Arg(b, 1)>>)
           n2 == Node("yieldfrom", 0, <<Arg(b, 2)>>)
<1>1. pc = "exec"  BY DEF YieldValue, YieldFrom, On
<1>2. n1.kind # "block" /\ n2.kind # "block"  BY DEF Node
<1>3. \/ BreakAt(Emit(Pop(b), n1), pos) \/ BreakAt(Pop(b), pos)
      \/ BreakAt(Emit(SetProcessed(Pop(b), Arg(b, 2)), n2), pos)
  BY DEF YieldValue, YieldFrom, Break
<1> HIDE DEF n1, n2
<1>4. Stays(Handlers, b, Pop(b)) /\ Stays(Handlers, b, SetProcessed(Pop(b), Arg(b, 2)))
  BY <1>1, Start, PopStays, ProcessedStays
<1> QED  BY <1>1, <1>2, <1>3, <1>4, EmitStep, StaysStep

LEMMA OpListAppend == ASSUME IInv, ListAppend PROVE StepOK
<1> DEFINE n1 == Node("comprehension", 0, <<Arg(b, 1)>>)
           n2 == Node("subscr", 0, <<Arg(b, 2), Arg(b, 1)>>)
<1>1. pc = "exec"  BY DEF ListAppend, On
<1>2. Plain(n1) /\ Plain(n2)  BY NodePlain
<1>3. BreakAt(Push(Drop(b, 2), n1), pos) \/ BreakAt(Push(Pop(b), n2), pos)
  BY DEF ListAppend, Break
<1> HIDE DEF n1, n2
<1>4. Stays(Handlers, b, Drop(b, 2)) /\ Stays(Handlers, b, Pop(b))  BY <1>1, Start, DropStays, PopStays
<1>5. Stays(Handlers, b, Push(Drop(b, 2), n1)) /\ Stays(Handlers, b, Push(Pop(b), n2))
  BY <1>2, <1>4, PushStays
<1> QED  BY <1>1, <1>3, <1>5, StaysStep

LEMMA StoresStep == ASSUME IInv, Stores PROVE StepOK
BY OpStoreName, OpStoreFast, OpStoreAsName, OpStoreCleared, OpStoreGlobal, OpStoreAttr, OpStoreSubscr,
   OpStoreSlices, OpUnpackSequence, OpSwap, OpSetupAnnotations
   DEF Stores

LEMMA StatementsStep == ASSUME IInv, Statements PROVE StepOK
BY OpKeywords, OpDeletes, OpStoreSlices, OpExec, OpImportStar, OpPrint, OpPrintTo, OpBareExcept,
   OpUnnamedExcept, OpPopTop, OpReturnValue, OpReturnConst, OpRaise, OpYield, OpListAppend
   DEF Statements
=============================================================================
