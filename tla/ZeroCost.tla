------------------------------ MODULE ZeroCost ------------------------------
(***************************************************************************)
(* BuildFromCode on the exceptions of CPython 3.11 and later.  No          *)
(* instruction sets a try up: its body is found by offset in the exception *)
(* table, and its handler follows the code that comes after the statement. *)
(* Before each instruction the loop                                        *)
(*   - closes the try blocks that have ended, links their containers and   *)
(*     parks them in zce.pending under the offset of their handler,        *)
(*   - opens a container and a try for each body that starts here,         *)
(*   - reopens the container whose handler starts here.                    *)
(* zce.now is the handler being rebuilt, zce.outer those around it.        *)
(***************************************************************************)
EXTENDS BuilderState

InHandler(bs) == bs.zce.now.active >= 0

\* the entry of std::map zce_pending for a handler is replaced
Park(bs, handler, container) ==
  [bs EXCEPT !.zce.pending = {p \in @ : p[1] # handler} \cup {<<handler, container>>}]

Parked(bs, handler) == {p[2] : p \in {q \in bs.zce.pending : q[1] = handler}}

RestoreIfSaved(bs) == IF bs.hist # <<>> THEN RestoreStack(bs) ELSE bs

-----------------------------------------------------------------------------
(* Before the instruction *)

CloseTry(bs) ==
  LET tried  == LinkToTop(PopBlock(bs), bs.cur)
      parent == CloseCur(ToTop(tried))
  IN IF tried.fault # "none" THEN tried
     ELSE IF TopBlock(tried).type # "CONTAINER" THEN Crash(tried, "bad_cast")
     ELSE Park(RestoreIfSaved(parent), TopBlock(tried).exc, TopId(tried))

TryEnded == Cur(b).type = "TRY" /\ Cur(b).end <= curpos

CloseEndedTry ==
  /\ pc = "regions" /\ TryEnded
  /\ b' = CloseTry(b)
  /\ pc' = IF b'.fault = "none" THEN "regions" ELSE "crashed"
  /\ UNCHANGED <<prog, annotated, pos, curpos, ins, unpack, else_pop, need_try, cleanBuild, walk>>

OpenTry(bs, region) ==
  IF Parked(bs, region.handler) # {} THEN bs
  ELSE Open(SaveStack(Open(bs, [ContainerBlock(0, region.handler) EXCEPT !.inited = 1])),
            Block("TRY", region.body_end, 1))

\* mutant: the container stays parked
ReopenParked(bs, container) ==
  LET z == bs.zce
  IN SaveStack([bs EXCEPT
       !.zce.now     = [z.now EXCEPT !.active = curpos, !.container = container],
       !.zce.outer   = IF z.now.active >= 0 THEN Append(z.outer, z.now) ELSE z.outer,
       !.blocks      = Append(@, container),
       !.cur         = container])

Reopen(bs, container) ==
  LET z == bs.zce
  IN SaveStack([bs EXCEPT
       !.zce = [now     |-> [z.now EXCEPT !.active = curpos, !.container = container],
                outer   |-> IF z.now.active >= 0 THEN Append(z.outer, z.now) ELSE z.outer,
                pending |-> z.pending \ {<<curpos, container>>}],
       !.blocks = Append(@, container),
       !.cur = container])

\* the bodies that start here
FindBodies ==
  /\ pc = "regions" /\ ~TryEnded
  /\ pc' = "entering"
  /\ walk' = [walk EXCEPT !.todo = {r \in ExceptRegions : r.try_start = curpos}]
  /\ UNCHANGED <<prog, annotated, pos, curpos, ins, b, unpack, else_pop, need_try, cleanBuild>>

\* of the bodies that start together the one with the last handler is outermost
EnterBody ==
  /\ pc = "entering"
  /\ \E r \in walk.todo :
       /\ \A s \in walk.todo : s.handler <= r.handler
       /\ b' = OpenTry(b, r)
       /\ walk' = [walk EXCEPT !.todo = @ \ {r}]
  /\ UNCHANGED <<prog, annotated, pc, pos, curpos, ins, unpack, else_pop, need_try, cleanBuild>>

EnterHandler ==
  /\ pc = "entering" /\ walk.todo = {}
  /\ b' = IF Parked(b, curpos) = {} THEN b ELSE Reopen(b, CHOOSE c \in Parked(b, curpos) : TRUE)
  /\ pc' = "exec"
  /\ UNCHANGED <<prog, annotated, pos, curpos, ins, unpack, else_pop, need_try, cleanBuild, walk>>

-----------------------------------------------------------------------------
(* The instructions of a handler *)

\* the name of no length that stands for the exception
ExcName == NameNode(-1)

PushExcInfo ==
  /\ On({"PUSH_EXC_INFO"})
  /\ Break(IF InHandler(b) THEN [Push(b, ExcName) EXCEPT !.zce.now.expect_check = TRUE] ELSE b)

CheckExcMatch ==
  /\ On({"CHECK_EXC_MATCH"})
  /\ Break(IF InHandler(b)
           THEN [Push(Drop(b, 2), Node("compare", CMP_EXCEPTION, Args(b, 2)))
                   EXCEPT !.zce.now.expect_check = FALSE]
           ELSE b)

\* the class is matched: what comes next may name the exception
NotTaken ==
  /\ On({"NOT_TAKEN"})
  /\ Break(IF InHandler(b) /\ Cur(b).type = "EXCEPT" THEN [b EXCEPT !.zce.now.expect_as = TRUE] ELSE b)

PopExcept ==
  /\ On({"POP_EXCEPT"})
  /\ Break(IF InHandler(b) /\ Cur(b).type = "EXCEPT" THEN RestoreIfSaved(CloseCur(b)) ELSE b)

\* mutant: the copy is not recognised
KeepTrailing(ns) == ns

\* what comes after the last clause of a handler is a copy of the code after
\* the try statement
DropTrailing(ns) ==
  SubSeq(ns, 1, Cardinality({n \in DOMAIN ns : \E i \in n .. Len(ns) : ns[i].kind = "block"}))

LeaveHandler(bs) ==
  LET z  == bs.zce
      n  == Len(z.outer)
      b1 == ToTop(PopBlock([bs EXCEPT !.heap[bs.cur].nodes = DropTrailing(@)]))
  IN [RestoreIfSaved(b1) EXCEPT
        !.zce.now   = IF n > 0 THEN z.outer[n] ELSE NoHandler,
        !.zce.outer = PopFrom(@)]

Reraise ==
  /\ On({"RERAISE", "RAISE_EXCEPTION"})
  /\ Break(IF InHandler(b) /\ Cur(b).type = "CONTAINER" /\ b.cur = b.zce.now.container
           THEN LeaveHandler(b) ELSE b)
=============================================================================
