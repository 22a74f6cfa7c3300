----------------------------- MODULE MCAnyCode -----------------------------
(***************************************************************************)
(* BuildFromCode on code no compiler needs to have written: an opening     *)
(* that leads to each kind of block, two instructions out of the whole     *)
(* instruction set, and an end.  pycdc reads whatever file it is given.    *)
(* The instructions of all versions are mixed: most handlers never look    *)
(* at the version, and those that do read Ver.                             *)
(* From 3.11 on an exception table comes with the code.                    *)
(***************************************************************************)
EXTENDS BuildFromCode

I(op, arg) == [op |-> op, arg |-> arg]
Name == I("LOAD_NAME", 1)
None == I("LOAD_CONST", 0)
Const == I("LOAD_CONST", 2)
IfFalse(target) == I("POP_JUMP_IF_FALSE", target)
Stmt == <<Name, I("POP_TOP", 0)>>

\* the code that leads to each kind of current block
Openings ==
  { <<>>,
    Stmt,
    <<Name, Name>>,
    <<Name, IfFalse(4)>>,                                           \* IF
    <<Name, IfFalse(4)>> \o Stmt,
    <<Name, I("POP_JUMP_IF_TRUE", 5), Const, I("JUMP_FORWARD", 2)>>,  \* ELSE
    <<I("SETUP_LOOP", 5)>>,                                         \* WHILE
    <<I("SETUP_LOOP", 5), Name, IfFalse(6)>>,
    <<I("SETUP_LOOP", 4), Name, I("GET_ITER", 0), I("FOR_ITER", 2)>>,   \* FOR
    <<Name, I("FOR_ITER", 2), I("STORE_NAME", 1)>>,                 \* a comprehension
    <<I("SETUP_EXCEPT", 2)>>,                                       \* TRY
    <<I("SETUP_EXCEPT", 2), I("POP_BLOCK", 0)>>,                    \* CONTAINER
    <<I("SETUP_EXCEPT", 1), I("POP_BLOCK", 0), I("JUMP_FORWARD", 3)>>,  \* EXCEPT
    <<I("SETUP_EXCEPT", 1), I("POP_BLOCK", 0), I("JUMP_FORWARD", 3), I("DUP_TOP", 0),
      Name, I("COMPARE_OP", CMP_EXCEPTION), IfFalse(9)>> \o Stmt,
    <<I("SETUP_FINALLY", 2), None, I("POP_BLOCK", 0)>>,             \* FINALLY
    <<I("SETUP_FINALLY", 4), I("SETUP_EXCEPT", 2)>>,
    <<Name, I("SETUP_WITH", 2)>>,                                   \* WITH
    <<Name, I("SETUP_WITH", 1), I("POP_TOP", 0), None>>,
    <<Name, IfFalse(20), Name, IfFalse(5), I("JUMP_FORWARD", 8)>> \o Stmt
      \o <<Name, IfFalse(10), I("JUMP_FORWARD", 4)>>,               \* ELSE in ELSE in IF
    <<I("UNPACK_SEQUENCE", 2), I("STORE_NAME", 1)>>,
    <<I("IMPORT_NAME", 3), I("IMPORT_FROM", 1)>>,
    <<None, I("LOAD_CONST", 900), I("MAKE_FUNCTION", 0)>>,
    <<I("LOAD_BUILD_CLASS", 0), I("LOAD_CONST", 901), I("MAKE_FUNCTION", 0), Const>> }

Straight ==
  {I(op, 1) : op \in {"NOP", "LOAD_NAME", "STORE_NAME", "BINARY_ADD", "BINARY_SUBSCR",
     "UNARY_NOT", "BUILD_LIST", "BUILD_TUPLE", "LOAD_ATTR", "BUILD_CLASS", "LOAD_BUILD_CLASS",
     "MAKE_FUNCTION", "CALL_FUNCTION", "ROT_TWO", "ROT_THREE", "ROT_FOUR", "DUP_TOP",
     "DUP_TOPX", "IMPORT_NAME", "IMPORT_FROM", "IMPORT_STAR", "STORE_GLOBAL", "STORE_DEREF",
     "STORE_ATTR", "STORE_SUBSCR", "UNPACK_SEQUENCE", "BREAK_LOOP", "CONTINUE_LOOP",
     "DELETE_NAME", "DELETE_SUBSCR", "PRINT_ITEM", "PRINT_NEWLINE", "POP_TOP",
     "RETURN_VALUE", "RAISE_VARARGS", "YIELD_VALUE", "LIST_APPEND", "UNSUPPORTED"}}
    \cup {I("STORE_NAME", 0), I("COMPARE_OP", CMP_EXCEPTION), None, Const}

\* the code that puts what the other instructions look for on the stack
Containers ==
  { <<>>,
    <<Name, Name, Name>>,
    <<Const, I("BUILD_MAP", 0), Const>>,
    <<I("BUILD_MAP", 0), Name, Const>>,
    <<I("BUILD_LIST", 0), I("LOAD_CONST", 850)>>,
    <<I("BUILD_SET", 0), I("LOAD_CONST", 800)>>,
    <<Const, Name, I("DUP_TOP", 0)>>,
    <<Name, I("DUP_TOP", 0), I("PRINT_ITEM_TO", 0)>>,
    <<I("SETUP_ANNOTATIONS", 0), Const, I("STORE_NAME", 1), Const,
      I("LOAD_NAME", AnnotationsName), Const>>,
    <<None, I("LOAD_CONST", 901), I("MAKE_FUNCTION", 0)>>,
    <<Name, None, I("LOAD_CONST", 901), I("MAKE_FUNCTION", 0)>>,
    <<Name, I("LOAD_CONST", 850), I("LOAD_CONST", 901), Const, I("MAKE_FUNCTION", 1)>>,
    <<I("SETUP_LOOP", 7), Name>>,
    <<I("SETUP_LOOP", 7), Name, I("GET_AITER", 0)>>,
    <<I("SETUP_LOOP", 5), Name, I("GET_AITER", 0), Name, IfFalse(20), I("POP_BLOCK", 0)>>,
    <<I("SETUP_LOOP", 9), Name, I("GET_AITER", 0), I("SETUP_EXCEPT", 3), Name, I("STORE_NAME", 1),
      I("POP_BLOCK", 0), I("JUMP_FORWARD", 2)>>,
    <<I("SETUP_LOOP", 9), Name, I("GET_AITER", 0), I("SETUP_EXCEPT", 1),
      I("POP_BLOCK", 0), I("JUMP_FORWARD", 2)>> }

Other ==
  {I(op, 1) : op \in {"LOAD_ASSERTION_ERROR", "STORE_LOCALS", "CONTAINS_OP", "IS_OP", "UNARY_CONVERT",
     "GET_AWAITABLE", "LOAD_METHOD", "BUILD_FUNCTION", "LOAD_LOCALS", "BUILD_SET", "BUILD_MAP",
     "BUILD_STRING", "BUILD_CONST_KEY_MAP", "STORE_MAP", "LIST_EXTEND", "SET_UPDATE",
     "BUILD_TUPLE_UNPACK", "FORMAT_VALUE", "CALL_METHOD", "CALL_FUNCTION_VAR",
     "CALL_FUNCTION_VAR_KW", "CALL_FUNCTION_EX", "UNARY_CALL", "BINARY_CALL", "DUP_TOP_TWO",
     "SLICE_0", "SLICE_1", "SLICE_3", "STORE_SLICE_0", "STORE_SLICE_2", "DELETE_SLICE_1",
     "DELETE_SLICE_3", "DELETE_ATTR", "EXEC_STMT", "PRINT_ITEM_TO", "PRINT_NEWLINE_TO",
     "YIELD_FROM", "SETUP_ANNOTATIONS", "FOR_LOOP", "GET_AITER", "CALL_FUNCTION",
     "STORE_SUBSCR", "RAISE_VARARGS"}}
    \cup {I(op, n) : op \in {"SETUP_ASYNC_WITH", "UNPACK_EX"}, n \in {1, 9}}
    \cup {I("CALL_FUNCTION_EX", 0), I("FORMAT_VALUE", 4), I("END_FINALLY", 0), I("MAKE_FUNCTION", 3)}
    \cup {I("BUILD_SLICE", n) : n \in {1, 2, 3}}

Jumping ==
  {I(op, 1) : op \in {"POP_BLOCK", "END_FINALLY", "WITH_CLEANUP"}}
    \cup {I(op, n) : op \in {"SETUP_LOOP", "SETUP_EXCEPT", "SETUP_FINALLY", "SETUP_WITH",
                             "FOR_ITER", "JUMP_FORWARD", "JUMP_IF_TRUE"}, n \in {0, 1}}
    \cup {I(op, n) : op \in {"POP_JUMP_IF_FALSE", "JUMP_IF_FALSE_OR_POP", "JUMP_ABSOLUTE"}, n \in {0, 6}}

\* what follows: the instructions that end blocks, and what it takes to reach them
Following ==
  {I("POP_BLOCK", 0), I("END_FINALLY", 0), I("WITH_CLEANUP", 0), I("JUMP_FORWARD", 1),
   I("JUMP_ABSOLUTE", 0), I("JUMP_ABSOLUTE", 12), I("RETURN_VALUE", 0), I("POP_TOP", 0),
   I("STORE_NAME", 2), I("PRINT_ITEM", 0), I("SETUP_EXCEPT", 0), IfFalse(12)}

-----------------------------------------------------------------------------
(* From 3.11 on: code with its exception table, two free instructions in   *)
(* the body of a try, in what follows it, or in a clause of its handler,   *)
(* and the end of the handler.                                             *)
Match == <<Name, I("CHECK_EXC_MATCH", 0), IfFalse(3), I("NOT_TAKEN", 0)>>
Enter == I("PUSH_EXC_INFO", 0)
Skip  == I("NOP", 0)

ZeroCostOpenings ==
  { [code |-> <<>>, table |-> {}],
    [code |-> <<Const, Name, Name>>, table |-> {}],
    [code |-> <<Const, I("LOAD_CONST", 851), I("LOAD_CONST", 851)>>, table |-> {}],
    [code |-> <<Name, I("FOR_ITER", 2), I("STORE_NAME", 1)>>, table |-> {}],
    [code |-> <<Skip>>, table |-> {<<1, 2, 3>>}],                              \* TRY
    [code |-> Stmt, table |-> {<<1, 2, 4>>, <<1, 3, 5>>}],
    [code |-> <<Name, IfFalse(4)>>, table |-> {<<2, 3, 4>>}],
    [code |-> <<Skip, Enter>>, table |-> {<<0, 1, 1>>}],                       \* CONTAINER
    [code |-> <<Skip>> \o Stmt \o <<Enter, I("POP_TOP", 0)>>, table |-> {<<0, 1, 3>>}],  \* EXCEPT
    [code |-> <<Skip, Enter>> \o Match, table |-> {<<0, 1, 1>>}],
    [code |-> <<Skip, Enter>> \o Match \o <<I("STORE_FAST", 1)>>, table |-> {<<0, 1, 1>>}],
    [code |-> <<Skip, Enter>> \o Match \o <<I("POP_TOP", 0), Name, IfFalse(1)>>, table |-> {<<0, 1, 1>>}],
    [code |-> <<Skip, Enter, I("POP_TOP", 0), Skip>>, table |-> {<<0, 1, 1>>, <<3, 4, 5>>}],
    [code |-> <<Skip, Skip, Enter>>, table |-> {<<0, 1, 2>>, <<0, 2, 4>>}],
    \* an if of the body that ends after the start of the handler
    [code |-> <<Name, IfFalse(3), Skip, Enter>>, table |-> {<<0, 2, 3>>}],
    \* a handler inside an if that was opened after the body
    [code |-> <<Skip, Name, IfFalse(4), Enter>>, table |-> {<<0, 1, 3>>}] }

Body ==
  {I(op, 1) : op \in {"POP_TOP", "STORE_FAST", "LOAD_GLOBAL", "LOAD_ATTR", "DELETE_FAST", "RETURN_VALUE",
     "LOAD_FAST_LOAD_FAST", "LOAD_COMMON_CONSTANT", "LOAD_SMALL_INT", "COPY", "SWAP", "PUSH_NULL", "BINARY_SLICE",
     "STORE_SLICE", "CALL", "CALL_KW", "CALL_NO_KW", "CALL_INTRINSIC_1", "BUILD_INTERPOLATION",
     "BUILD_TEMPLATE", "RETURN_CONST", "END_FOR", "JUMP_BACKWARD", "JUMP_BACKWARD_NO_INTERRUPT",
     "JUMP_FORWARD", "TO_BOOL", "POP_EXCEPT", "RERAISE", "PUSH_EXC_INFO", "CHECK_EXC_MATCH", "NOT_TAKEN",
     "RAISE_VARARGS", "FOR_ITER", "COMPARE_OP"}}
    \cup {I("KW_NAMES", 850), I("KW_NAMES", EMPTY_TUPLE), I("KW_NAMES", 2), I("POP_JUMP_IF_FALSE", 0), I("POP_JUMP_IF_FALSE", 3),
          I("POP_JUMP_FORWARD_IF_TRUE", 1), I("MAKE_FUNCTION", 16), None}

After == {Skip, Name, Enter, I("POP_EXCEPT", 0), I("RERAISE", 0), I("STORE_FAST", 1), I("CALL", 0),
          I("POP_TOP", 0), I("JUMP_BACKWARD", 3), I("JUMP_FORWARD", 1), IfFalse(1)}

EndOfHandler == <<Enter, I("POP_TOP", 0), I("POP_EXCEPT", 0), I("RERAISE", 0)>>

\* the instructions that 3.12 and 3.14 are read apart by
Changed314 == {"COMPARE_OP", "PUSH_NULL", "END_FOR", "MAKE_FUNCTION"}

ZeroCostCode ==
  {[code |-> x[2].code \o <<x[3], x[4]>> \o EndOfHandler, ver |-> x[1], table |-> x[2].table, listcomp |-> FALSE] :
     x \in {y \in {311, 312, 314} \X ZeroCostOpenings \X Body \X After :
               /\ y[1] = 311 => y[2].table # {}
               /\ y[1] = 312 => y[3].op \in Changed314}}

-----------------------------------------------------------------------------
(* The last free instruction after one of Other, and in 3.8.  There,       *)
(* without SETUP_LOOP, what appends to a list is the code of a             *)
(* comprehension.                                                          *)
AfterOther == {I("END_FINALLY", 0), I("PRINT_ITEM_TO", 0), I("POP_TOP", 0)}
Closing    == {I("POP_BLOCK", 0), I("JUMP_FORWARD", 1), I("POP_TOP", 0)}

Code27(openings, is, js) ==
  {[code |-> o \o <<i, j, I("POP_BLOCK", 0)>>, ver |-> 207, table |-> {}, listcomp |-> FALSE] :
     o \in openings, i \in is, j \in js}

Code38 ==
  {[code |-> o \o <<i, j>>, ver |-> 308, table |-> {}, listcomp |-> i.op = "LIST_APPEND"] :
     o \in Openings \cup Containers, i \in Straight \cup Jumping \cup Other, j \in Closing}

AnyCode == << Code27(Openings, Straight \cup Jumping, Following), Code27(Containers, Other, AfterOther),
              Code38, ZeroCostCode >>
=============================================================================
