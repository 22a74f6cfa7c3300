-------------------------- MODULE OperandHandlers ---------------------------
(***************************************************************************)
(* The handlers of BuildFromCode that only move operands: each takes nodes *)
(* off the operand stack and puts a new one back.                          *)
(***************************************************************************)
EXTENDS ZeroCost

(* Handlers that only move operands *)

Nop ==
  On({"NOP", "GET_ITER", "GET_YIELD_FROM_ITER", "SET_LINENO", "RESUME", "PRECALL", "CACHE", "POP_ITER"})
    /\ Break(b)

\* ignored too, although they move operands
Ignored ==
  On({"LOAD_ASSERTION_ERROR", "LIST_TO_TUPLE", "DICT_UPDATE", "DICT_MERGE", "MAP_ADD", "DELETE_DEREF",
      "LOAD_CLOSURE", "EXTENDED_ARG", "GET_ANEXT", "END_ASYNC_FOR", "MATCH_KEYS", "MATCH_CLASS", "GET_LEN",
      "CALL_FINALLY", "BEFORE_WITH", "CHECK_EG_MATCH", "CONVERT_VALUE", "FORMAT_SIMPLE", "FORMAT_WITH_SPEC",
      "GET_AWAITABLE_A", "LOAD_FAST_AND_CLEAR", "LOAD_SUPER_ATTR", "MAKE_CELL", "STORE_FAST_MAYBE_NULL"})
    /\ Break(b)

PopIgnored == On({"STORE_LOCALS", "GEN_START"}) /\ Break(Pop(b))

LoadName ==
  On({"LOAD_NAME", "LOAD_FAST", "LOAD_DEREF", "LOAD_CLASSDEREF"}) /\ Break(Push(b, NameNode(ins.arg)))

\* the well-known builtins have names of their own
LoadCommon == On({"LOAD_COMMON_CONSTANT"}) /\ Break(Push(b, NameNode(-2 - ins.arg)))

\* the two nibbles of the operand are two locals
LoadTwo ==
  On({"LOAD_FAST_LOAD_FAST"})
    /\ Break(Push(Push(b, NameNode(ins.arg \div 16)), NameNode(ins.arg % 16)))

\* from 3.11 the low bit asks for a null below the name
LoadGlobal ==
  /\ On({"LOAD_GLOBAL"})
  /\ Break(IF Ver < 311 THEN Push(b, NameNode(ins.arg))
           ELSE Push(IF ins.arg % 2 = 1 THEN Push(b, Null) ELSE b, NameNode(ins.arg \div 2)))

\* up to 3.13 the callable is loaded after the null, later before it
PushNull ==
  /\ On({"PUSH_NULL"})
  /\ Break(IF Ver >= 314 /\ ~IsEmpty(b.stack) THEN Push(Push(Pop(b), Null), Arg(b, 1)) ELSE Push(b, Null))

Copy == On({"COPY"}) /\ Break(Push(b, Arg(b, ins.arg)))

SmallInt == On({"LOAD_SMALL_INT"}) /\ Break(Push(b, Node("int", ins.arg, <<>>)))

\* None is pushed as a null reference
LoadConst ==
  /\ On({"LOAD_CONST"})
  /\ Break(Push(b, CASE ins.arg = 0     -> Null
                     [] ins.arg = 1     -> Node("tuple", 0, <<>>)
                     [] ins.arg \in CODE -> Node("code", ins.arg, <<>>)
                     [] OTHER           -> Node("object", ins.arg, <<>>)))

\* the bit of that weight
Bit(n, weight) == (n \div weight) % 2

\* nodes that take a fixed number of operands and put one back
Combine(kind, n) == Break(Push(Drop(b, n), Node(kind, ins.arg, Args(b, n))))

Binary  == On({"BINARY_ADD", "INPLACE_ADD", "BINARY_OP"}) /\ Combine("binary", 2)
Subscr  == On({"BINARY_SUBSCR"}) /\ Combine("subscr", 2)

\* the comparison is in the upper bits of the operand from 3.12 on
Compare ==
  /\ On({"COMPARE_OP"})
  /\ LET op == CASE Ver >= 313 -> ins.arg \div 32 [] Ver = 312 -> ins.arg \div 16 [] OTHER -> ins.arg
     IN Break(Push(Drop(b, 2), Node("compare", op, Args(b, 2))))

\* the operand says whether the test is negated
Test(cmp) == Break(Push(Drop(b, 2), Node("compare", IF ins.arg = 0 THEN cmp ELSE cmp + 1, Args(b, 2))))
ContainsOp == On({"CONTAINS_OP"}) /\ Test(CMP_IN)
IsOp       == On({"IS_OP"}) /\ Test(CMP_IS)

Unary   == On({"UNARY_NOT", "UNARY_NEGATIVE"}) /\ Combine("unary", 1)
BuildList == On({"BUILD_LIST"}) /\ Combine("list", ins.arg)
BuildSet  == On({"BUILD_SET"}) /\ Combine("set", ins.arg)
BuildString   == On({"BUILD_STRING"}) /\ Combine("fstring", ins.arg)
UnaryConvert  == On({"UNARY_CONVERT"}) /\ Combine("convert", 1)
GetAwaitable  == On({"GET_AWAITABLE"}) /\ Combine("await", 1)
LoadMethod    == On({"LOAD_METHOD", "LOAD_SPECIAL"}) /\ Combine("attr", 1)
BuildFunction == On({"BUILD_FUNCTION"}) /\ Combine("function", 1)
LoadLocals    == On({"LOAD_LOCALS"}) /\ Break(Push(b, Node("locals", 0, <<>>)))

\* a class body that is a closure: the tuple of its cells is ignored
BuildTuple ==
  /\ On({"BUILD_TUPLE"})
  /\ IF Arg(b, 1).kind = "loadbuildclass" THEN Break(b) ELSE Combine("tuple", ins.arg)

\* an attribute of a module being imported needs no node; from 3.12 the low bit
\* asks for a null below it
LoadAttr ==
  /\ On({"LOAD_ATTR"})
  /\ IF Arg(b, 1).kind = "import" THEN Break(b)
     ELSE IF Ver < 312 THEN Combine("attr", 1)
     ELSE Break(Push(IF ins.arg % 2 = 1 THEN Push(Pop(b), Null) ELSE Pop(b),
                     Node("attr", ins.arg \div 2, Args(b, 1))))

BuildClass == On({"BUILD_CLASS"}) /\ Combine("class", 3)

LoadBuildClass == On({"LOAD_BUILD_CLASS"}) /\ Break(Push(b, Node("loadbuildclass", 0, <<>>)))

FormatValue == On({"FORMAT_VALUE"}) /\ Combine("formatted", 1 + Bit(ins.arg, 4))

\* the source text between the value and its format is dropped
BuildInterpolation ==
  /\ On({"BUILD_INTERPOLATION"})
  /\ LET spec == Bit(ins.arg, 1)
     IN Break(Push(Drop(b, spec + 2), Node("formatted", ins.arg, <<Arg(b, spec + 2)>> \o Args(b, spec))))

(* Making a function: the code object, from 3.3 on below its qualified     *)
(* name, then the defaults, whose layout depends on the version.  A code   *)
(* object or a name that is not a plain constant is a failed cast, and so  *)
(* are defaults (3.6 on) that are not a constant tuple.                    *)
IsCode(n) == n.kind = "code"
IsTuple(n) == n.kind = "object" /\ n.id \in TUPLE
DefCount == ins.arg % 256
KwDefCount == (ins.arg \div 256) % 256
Annotations == (ins.arg \div 65536) % 32768

DefaultOperands ==
  IF Ver <= 303 THEN DefCount + 2 * KwDefCount
  ELSE IF Ver <= 305
  THEN (IF Annotations > 0 THEN 1 + Annotations ELSE 0) + 2 * KwDefCount + DefCount
  ELSE Bit(ins.arg, 1) + Bit(ins.arg, 2) + Bit(ins.arg, 4) + Bit(ins.arg, 8)
       + (IF Ver >= 314 THEN Bit(ins.arg, 16) ELSE 0)

MakeFunction ==
  /\ On({"MAKE_FUNCTION"})
  /\ LET qual == IF IsCode(Arg(b, 1)) THEN 0 ELSE 1
         rest == Drop(b, 1 + qual)
         n    == DefaultOperands
         kwAt == n - Bit(ins.arg, 1)
         badKw  == Ver >= 306 /\ Bit(ins.arg, 2) = 1 /\ Arg(rest, kwAt).kind # "constmap"
         badPos == Ver >= 306 /\ Bit(ins.arg, 1) = 1 /\ ~IsTuple(Arg(rest, n))
     IN Break(IF Arg(b, 1).kind \notin {"object", "code"} \/ badKw \/ badPos
              THEN Crash(b, "bad_cast")
              ELSE Push(Drop(rest, n), Node("function", 0, Append(Args(rest, n), Arg(b, 1 + qual)))))

(* A call.  Under the names and expressions on top (the bases) may lie a   *)
(* class name, a function and LOAD_BUILD_CLASS: then it is a class         *)
(* definition.  Otherwise a function, other than a lambda, among the       *)
(* arguments is what a decorator is applied to: its def is emitted first   *)
(* and the call refers to it by name.                                      *)
CanBeBase(n) == n.kind \in {"name", "binary", "attr"}

\* how many they are
Bases(bs) == Cardinality({n \in 1 .. Len(bs.stack) : \A i \in 1 .. n : CanBeBase(Arg(bs, i))})

IsDef(n) == n.kind = "function" /\ n.args[Len(n.args)].id # LambdaCode

\* a def whose code is no code object fails a cast
BadDef(n) == n.kind = "function" /\ ~IsCode(n.args[Len(n.args)])

DefName(n)  == NameNode(n.args[Len(n.args)].id)
PassedAs(n) == IF IsDef(n) THEN DefName(n) ELSE n

\* the statements of the defs among the arguments, the last argument's first
Defs(args) ==
  LET at == {i \in DOMAIN args : IsDef(args[i])}
      n  == Cardinality(at)
      Nth(k) == args[CHOOSE i \in at : Cardinality({j \in at : j >= i}) = k]
  IN [k \in 1 .. n |-> StoreNode(Nth(k), DefName(Nth(k)))]

EmitDefs(bs, args) ==
  IF \E i \in DOMAIN args : BadDef(args[i]) THEN Crash(bs, "bad_cast")
  ELSE [bs EXCEPT !.heap[bs.cur].nodes = @ \o Defs(args)]

Call(callee, args, kws) == Node("call", Len(args), <<callee>> \o args \o kws)

\* a call of callee, rest being what is left below it
Decorated(rest, callee, args, kws) ==
  Break(Push(EmitDefs(rest, args), Call(callee, [i \in DOMAIN args |-> PassedAs(args[i])], kws)))

PosCount == ins.arg % 256
KwCount  == (ins.arg \div 256) % 256

(* Keyword arguments are counted by the operand up to 3.10.  From 3.11 on  *)
(* KW_NAMES, the tuple of their names, has put them into a map, and the    *)
(* operand counts them among the others.                                   *)
EMPTY_TUPLE == 1
NameCount(n) == n.id - 849     \* of the tuple constants the first has one element

KwNames ==
  /\ On({"KW_NAMES"})
  /\ LET n == IF ins.arg = EMPTY_TUPLE THEN 0 ELSE NameCount(Node("object", ins.arg, <<>>))
     IN Break(IF ins.arg \notin TUPLE \cup {EMPTY_TUPLE} THEN Crash(b, "bad_cast")
              ELSE Push(Drop(b, n), Node("kwmap", ins.arg, Args(b, n))))

AtLeast0(n) == IF n < 0 THEN 0 ELSE n

CallFunction ==
  /\ On({"CALL_FUNCTION", "CALL"})
  /\ LET bases == Bases(b)
         named == Ver >= 311 /\ Arg(b, 1).kind = "kwmap"
         kws   == IF Ver < 311 THEN Args(b, 2 * KwCount) ELSE IF named THEN Arg(b, 1).args ELSE <<>>
         b1    == IF named THEN Pop(b) ELSE Drop(b, Len(kws))
         n     == AtLeast0(PosCount - (IF named THEN Len(kws) ELSE 0))
         rest  == Drop(b1, n + 1)
     IN IF Arg(b, bases + 3).kind = "loadbuildclass"
        THEN Break(Push(Drop(b, bases + 3),
                        Node("class", 0, <<Arg(b, bases + 2), Arg(b, bases + 1)>> \o Args(b, bases))))
        ELSE Decorated(IF ins.op = "CALL" /\ Arg(rest, 1) = Null THEN Pop(rest) ELSE rest,
                       Arg(b1, n + 1), Args(b1, n), kws)

CallMethod ==
  On({"CALL_METHOD"}) /\ Decorated(Drop(b, ins.arg + 1), Arg(b, ins.arg + 1), Args(b, ins.arg), <<>>)

\* the null below the function stays
CallKw ==
  /\ On({"CALL_KW"})
  /\ LET n == NameCount(Arg(b, 1))
         b1 == Drop(b, n + 1)
         m  == AtLeast0(ins.arg - n)
     IN Break(IF ~IsTuple(Arg(b, 1)) THEN Crash(b, "bad_cast")
              ELSE Push(Drop(b1, m + 1), Call(Arg(b1, m + 1), Args(b1, m), Args(Pop(b), n))))

CallNoKw ==
  On({"CALL_NO_KW", "CALL_KW_METHOD", "CALL_NO_KW_METHOD"})
    /\ Break(Push(Drop(b, ins.arg + 1), Call(Arg(b, ins.arg + 1), Args(b, ins.arg), <<>>)))

\* a call of nothing: the name of the intrinsic is not known
CallIntrinsic ==
  /\ On({"CALL_INTRINSIC_1", "CALL_INTRINSIC_2"})
  /\ LET n == IF ins.op = "CALL_INTRINSIC_1" THEN 1 ELSE 2
     IN Break(Push(Drop(b, n), Call(Null, Args(b, n), <<>>)))

\* calls with * and **: a def among the arguments stays where it is
CallFunctionVarKw ==
  /\ On({"CALL_FUNCTION_VAR", "CALL_FUNCTION_KW", "CALL_FUNCTION_VAR_KW"})
  /\ LET stars == IF ins.op = "CALL_FUNCTION_VAR_KW" THEN 2 ELSE 1
         rest  == Drop(b, stars)
         all   == PosCount + 2 * KwCount
     IN Break(Push(Drop(rest, all + 1),
                   Call(Arg(rest, all + 1), Args(Drop(rest, 2 * KwCount), PosCount),
                        Args(rest, 2 * KwCount) \o Args(b, stars))))

\* the tuple of arguments is passed as one argument, if there is one
CallFunctionEx ==
  /\ On({"CALL_FUNCTION_EX"})
  /\ LET kw   == Bit(ins.arg, 1)
         args == Arg(b, 1 + kw)
         kws  == IF kw = 1 /\ Arg(b, 1) # Null THEN <<Arg(b, 1), Null>> ELSE <<>>
     IN Break(Push(Drop(b, kw + 2), Call(Arg(b, kw + 2), IF args = Null THEN <<>> ELSE <<args>>, kws)))

UnaryCall == On({"UNARY_CALL"}) /\ Break(Push(Pop(b), Call(Arg(b, 1), <<>>, <<>>)))

\* not decompiled: what they combine is replaced by an invalid node
InvalidNode == Node("invalid", 0, <<>>)
BinaryCall  == On({"BINARY_CALL"}) /\ Break(Push(Drop(b, 3), InvalidNode))
BuildUnpack ==
  On({"BUILD_LIST_UNPACK", "BUILD_MAP_UNPACK", "BUILD_TUPLE_UNPACK"}) /\ Break(Push(Drop(b, ins.arg), InvalidNode))

(* Rotations: a chain store is dropped from just above the operand that    *)
(* sinks to the bottom.                                                    *)
Rot(n) ==
  LET top  == Args(b, n - 1)
      rest == Drop(b, n - 1)
      base == IF Arg(rest, 1).kind = "chain" THEN Pop(rest) ELSE rest
  IN [base EXCEPT !.stack = PopFrom(@) \o <<top[n - 1], Arg(base, 1)>> \o SubSeq(top, 1, n - 2)]

Rotate ==
  \/ On({"ROT_TWO"})   /\ Break(Rot(2))
  \/ On({"ROT_THREE"}) /\ Break(Rot(3))
  \/ On({"ROT_FOUR"})  /\ Break(Rot(4))

(* A duplicated value starts a chained assignment: a chain store on top    *)
(* collects the targets; a third copy goes below the chain store.          *)
DupTop ==
  /\ On({"DUP_TOP"})
  /\ LET v == Arg(b, 1)
     IN Break(CASE v = Null         -> Push(b, Null)
                [] v.kind = "chain" -> Push(Push(Pop(b), Arg(b, 2)), v)
                [] OTHER            -> Push(Push(b, v), Node("chain", 0, <<v>>)))

DupTopX ==
  /\ On({"DUP_TOPX"})
  /\ Break([b EXCEPT !.stack = DropFrom(@, ins.arg) \o Args(b, ins.arg) \o Args(b, ins.arg)])

ImportName ==
  /\ On({"IMPORT_NAME"})
  /\ IF Ver < 200 THEN Break(Push(b, Node("import", ins.arg, <<>>)))
     ELSE Break(Push(Drop(b, IF Ver >= 205 THEN 2 ELSE 1), Node("import", ins.arg, <<Arg(b, 1)>>)))

ImportFrom == On({"IMPORT_FROM"}) /\ Break(Push(b, NameNode(ins.arg)))

\* the second operand is not popped
DupTopTwo ==
  On({"DUP_TOP_TWO"}) /\ Break(Push(Push(Push(Pop(b), Arg(b, 1)), Arg(b, 2)), Arg(b, 1)))

-----------------------------------------------------------------------------
(* Containers *)

\* from 3.5 the pairs are on the stack; before, STORE_MAP adds them to an
\* empty map, and a chain store the DUP_TOP before made is dropped
BuildMap ==
  /\ On({"BUILD_MAP"})
  /\ Break(IF Ver >= 305
           THEN Push(Drop(b, 2 * ins.arg),
                     Node("map", 0, [j \in 1 .. 2 * ins.arg |-> Arg(b, IF j % 2 = 1 THEN j + 1 ELSE j - 1)]))
           ELSE Push(IF Arg(b, 1).kind = "chain" THEN Pop(b) ELSE b, Node("map", 0, <<>>)))

BuildConstKeyMap ==
  On({"BUILD_CONST_KEY_MAP"})
    /\ Break(Push(Drop(b, ins.arg + 1), Node("constmap", 0, [j \in 1 .. ins.arg + 1 |-> Arg(b, j)])))

StoreMap ==
  /\ On({"STORE_MAP"})
  /\ LET rest == Drop(b, 2)
     IN Break(IF Arg(rest, 1).kind = "map" THEN AddToMap(rest, Arg(rest, 1), Arg(b, 1), Arg(b, 2))
              ELSE Crash(b, "bad_cast"))

\* the elements of a constant join the list or set that is being built;
\* of anything else both operands are dropped
Extend(kind, constants) ==
  LET rest == Drop(b, 2)
      lhs  == Arg(b, 2)
      rhs  == Arg(b, 1)
  IN Break(IF lhs.kind # kind THEN Crash(b, "bad_cast")
           ELSE IF rhs.kind = "object" /\ rhs.id \in constants
           THEN Push(rest, Node(kind, lhs.id, Append(lhs.args, rhs)))
           ELSE rest)

ListExtend == On({"LIST_EXTEND"}) /\ Extend("list", TUPLE)
SetUpdate  == On({"SET_UPDATE"}) /\ Extend("set", FROZENSET)

(* Slices: SLICE0 has no bound, SLICE1 a lower, SLICE2 an upper, SLICE3    *)
(* both.  A bound that is None is no bound.                                *)
SliceOf(lower, upper) ==
  CASE lower = Null /\ upper = Null -> Node("slice", 0, <<>>)
    [] lower # Null /\ upper = Null -> Node("slice", 1, <<lower>>)
    [] lower = Null /\ upper # Null -> Node("slice", 2, <<upper>>)
    [] OTHER                        -> Node("slice", 3, <<lower, upper>>)

\* with a step the slice is itself the lower bound of another one
BuildSlice ==
  /\ On({"BUILD_SLICE"})
  /\ Break(CASE ins.arg = 2 -> Push(Drop(b, 2), SliceOf(Arg(b, 2), Arg(b, 1)))
             [] ins.arg = 3 -> Push(Drop(b, 3), SliceOf(SliceOf(Arg(b, 3), Arg(b, 2)), Arg(b, 1)))
             [] OTHER       -> b)

SliceKind ==
  CASE ins.op \in {"SLICE_0", "STORE_SLICE_0", "DELETE_SLICE_0"} -> 0
    [] ins.op \in {"SLICE_1", "STORE_SLICE_1", "DELETE_SLICE_1"} -> 1
    [] ins.op \in {"SLICE_2", "STORE_SLICE_2", "DELETE_SLICE_2"} -> 2
    [] OTHER                                                    -> 3
Bounds == CASE SliceKind = 0 -> 0 [] SliceKind = 3 -> 2 [] OTHER -> 1
Sliced == Node("subscr", 0, <<Arg(b, Bounds + 1), Node("slice", SliceKind, Args(b, Bounds))>>)

Slice == On({"SLICE_0", "SLICE_1", "SLICE_2", "SLICE_3"}) /\ Break(Push(Drop(b, Bounds + 1), Sliced))

\* from 3.12: the bounds are on the stack, without a slice object
SlicedBy == Node("subscr", 0, <<Arg(b, 3), SliceOf(Arg(b, 2), Arg(b, 1))>>)
BinarySlice == On({"BINARY_SLICE"}) /\ Break(Push(Drop(b, 3), SlicedBy))

(* The pieces of a template: a string, an interpolation, a string ...; the *)
(* strings that are left over come last.  The tuple of the strings is a    *)
(* constant, whose elements are numbered from 1.                           *)
BuildTemplate ==
  /\ On({"BUILD_TEMPLATE"})
  /\ LET strings == CASE Arg(b, 2).kind = "tuple" -> Arg(b, 2).args
                       [] Arg(b, 2).kind = "object" /\ Arg(b, 2).id \in TUPLE ->
                            [i \in 1 .. NameCount(Arg(b, 2)) |-> Node("object", i, <<>>)]
                       [] OTHER -> <<>>
         values  == CASE Arg(b, 1).kind = "tuple"  -> Arg(b, 1).args
                       [] Arg(b, 1).kind = "object" -> <<>>
                       [] OTHER                     -> <<Arg(b, 1)>>
         f[i \in 0 .. Len(values)] ==
           IF i = 0 THEN <<>>
           ELSE f[i - 1] \o (IF i <= Len(strings) THEN <<strings[i]>> ELSE <<>>) \o <<values[i]>>
     IN Break(Push(Drop(b, 2),
                   Node("template", 0, f[Len(values)] \o SubSeq(strings, Len(values) + 1, Len(strings)))))
=============================================================================
