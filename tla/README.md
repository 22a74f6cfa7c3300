# pycdc: a TLA+ model of the decompiler

pycdc reads a compiled Python file and prints the source it came from. It is
one sequential C++ program; what makes it hard is not concurrency but a long
chain of guesses. One loop over the bytecode (`BuildFromCode`, 3,600 lines of
`src/ASTree.cpp`) opens and closes blocks by comparing jump targets, and dozens
of handlers, written for fifteen years of bytecode layouts, share four stacks
and a handful of flags that every one of them must leave in order for the next.
Before it runs, a loader whose record layout depends on the version in sixteen
places has to read the file; while it runs, the instructions are decoded from
bytes in three layouts; after it, a printer has to write text that means what
the tree means. This project models all of that, checks it with TLC on small
programs and files, and proves with TLAPS what holds for every one.

## The system

| part | source | state | operations | modelled in |
|---|---|---|---|---|
| operand stack | `FastStack.h` | an array and a cursor | push, pop, top, copy, assign | `FastStack`, `NodeStack` |
| its history | `ASTree.cpp` (`stack_hist`) | a stack of saved copies | save when a block opens; restore or forget when it ends | `StackHistory`, `FastStack` |
| AST and blocks | `ASTNode.h/.cpp` | nodes; blocks with type, end, list of nodes, condition, index | append, removeLast, init, setEnd, setIndex, setExcept | `AstBlocks` |
| reconstruction | `ASTree.cpp`, `BuildFromCode` | `curblock`, `blocks`, `stack`, `stack_hist`, `unpack`, `else_pop`, `need_try`, `cleanBuild` | one handler per opcode | `BuilderState`, `OperandHandlers`, `StatementHandlers`, `BuildFromCode` |
| exceptions from 3.11 | `ASTree.cpp`, `analyzeExceptRegions`, `zce_*` | regions, parked containers, active handler | open, close and reopen by offset before each instruction | `ZeroCost`, `BuilderState` |
| printer | `ASTree.cpp`, `print_src`, `decompyle`, `cmp_prec` | `cleanBuild`, `inLambda`, `cur_indent`, `printDocstringAndGlobals`, `printClassDocstring` (globals) | recursive printing, nested code objects decompiled on the way | `Printer`, `Precedence` |
| decoder | `bytecode.cpp`, `bc_next`; `data.cpp`, `PycBuffer` | reader position | three instruction layouts, EXTENDED_ARG | `CodeReader` |
| opcode tables | `src/bytes/` | none | byte to opcode, one table per version | six of them in `CodeReader` |
| marshal loader | `data.cpp`, `pyc_object.cpp`, `pyc_*.cpp` | reader position, reference table, intern table | load one object, recursively | `MarshalLoader` |
| code objects | `pyc_code.cpp` | fields by version, used globals, exception table | load, exceptTableEntries, getters, markGlobal | `MarshalLoader`, `CodeReader` |
| module | `pyc_module.cpp` | version, tables | magic number to version, loadFromFile, loadFromMarshalledFile | `MarshalLoader` |
| reference counts | `pyc_object.h`, `PycRef`; `ASTNode.h` | a counter per object | construct, copy, move, assign, destroy | `PycRef` |
| disassembler | `bytecode.cpp`, `bc_disasm`; `pycdas.cpp` | none | the loop over the code and the jump targets it prints | those in `CodeReader` |
| command line | `pycdc.cpp` | none | arguments and file I/O | no |

How they interact: the command line makes a module, the module's loader fills a
code object, `decompyle` calls `BuildFromCode` on it and prints the tree, and
printing a function or a class calls `decompyle` on the nested code object.
`BuildFromCode` decodes one instruction per turn, and first, from 3.11 on, reads
the exception table. All calls are synchronous. What they share is the module
(names, constants, used globals), and the printer's and builder's file-scope
flags; everything is held by counted references.

What is hard here, and what the properties are aimed at:

* `curblock` is a copy of `blocks.top()`, refreshed by hand in each handler;
* the module's own block must never be popped while code remains;
* `stack_hist` is pushed by the handlers that open blocks and popped by other
  handlers, on other paths, and `top()` is taken without a test;
* a block is appended to its parent in twelve places, each with its own order of
  pop, append and refresh;
* which clause a statement belongs to is decided by comparing offsets, and an
  if with an else is told from a conditional expression by what happens to be on
  the operand stack;
* with exception tables, blocks are opened, closed and opened again by offset, before
  the handler of the instruction at that offset opens or closes some itself;
* three loops walk out over the open blocks until a condition on types holds;
* five flags of the printer are globals, set by one call for the next, while nested
  code objects are printed in between;
* parentheses are left out by comparing enumeration values, defaults are placed by
  comparing two counts;
* the loader names objects and strings by their place in tables that it and CPython must
  fill in the same order, with members that may refer to what is still being read;
* the fields of a code object, their order and width, and the bytes of an instruction
  depend on the version;
* an assignment may delete a chain of objects between the count and the store.

`PROJECT.json` lists these as hazards, each at its line.

## The modules

    NodeStack  <-- StackHistory <== refined by == FastStack <-- FastStackProofs
        |                                           \-- MCFastStack
    AstBlocks <-- BuilderState <-- ZeroCost <-- OperandHandlers <-- StatementHandlers <-- BuildFromCode
        |                                              BuildFromCode <-- MCAnyCode
        \-- CPython27, CPython314 <------------------- BuildFromCode <-- MCRoundTrip <-- MCFindings
    AstBlocks, BuildFromCode <-- BuilderProofs <-- BuildFromCodeProofs
    Precedence <-- Printer <-- MCPrinter --> PythonText
                       \-- PrinterProofs
    InstructionStream <== refined by == CodeReader <-- CodeLayout <-- MCDecode
                                            |             \-- CodeLayoutProofs
                                            \-- CodeReaderProofs
    MarshalLoader <-- MCMarshal --> CPythonMarshal
        \-- MarshalLoaderProofs
    PycRef <-- PycRefProofs

**NodeStack** states what the operand stack promises: a sequence, where a pop of
an empty stack does nothing and a read below the bottom gives the null node. The
handlers rely on both. **StackHistory** is the abstract machine: that sequence
and the sequences saved of it. **FastStack** is the class: a vector that starts at
`co_stacksize` cells, grows when the cursor reaches its end, clears what is popped,
and is copied whole by the history. It implements StackHistory with `st` the live
cells and `saved` the live cells of each copy. This is why the rest of the project
may use plain sequences for stacks.

**AstBlocks** has the data of the builder. A node is a kind, a number and its
operands. Blocks live in a heap and are named by their index, so that "the same
block linked twice" can be said. The builder state is one record (`heap`, `blocks`,
`cur`, `stack`, `hist`, `fault`) because one handler makes several moves on it in
order; each move of the code (`blocks.pop()`, `curblock = blocks.top()`, ...) is one
operator. `top()` or `pop()` of an empty `std::stack` sets `fault` to `"ub"`, and a
faulted state is not taken further: what undefined behaviour goes on to do is not
described, only that it was reached. `"bad_cast"` is the exception of a failed
`PycRef::cast`, `"exit"` the exit on reading past the end of the code.

**BuilderState** has the variables of the loop and its head; **OperandHandlers** the
handlers that only move operands, **StatementHandlers** those that append statements,
**BuildFromCode** those that open, close or look for blocks, and the specification. `Fetch` is
the loop's head: read an instruction, open the try block that a SETUP_FINALLY asked for, or
go and close the blocks that have ended (`CloseEnded`, once per block, then `ClosedAll`).
Then the handler of the instruction runs, one action each, through to the `else_pop` test
after the switch (`BreakAt`). The loops inside JUMP_ABSOLUTE and JUMP_FORWARD take a step per
iteration (`WalkAbsolute`, `WalkForward`). After the code `CloseLeftOpen` links what is still
open and `Return` sets `cleanBuild`. An opcode without a case is the action `Unsupported`.

Every handler is there; instructions whose case does nothing to the state are one action.
With an exception table the loop first goes to `ZeroCost`. Offsets count instructions: the code only compares
offsets, and the bytes of an instruction do not matter to an order. Names, constants and
operators are numbers; the handlers tell apart None, the empty tuple, other tuples, frozen
sets, code objects, `__annotations__` and names that start with `_[`, and so does the model.
`Ver` selects the branches on the Python version.

A node is a value, with a number `made` that tells two nodes built alike apart, because
`setProcessed` and `ASTMap::add` change a node that is on the operand stack in several
places (DUP_TOP). The change is made to every copy on the stack. A node that already is
an operand of another node is not reached: a map that is added to after it was put into
another expression keeps its old members there, and a map that contains itself, which no
compiler emits, does not come out right. The comparison with the program described under
CPython27 showed no other difference.

**ZeroCost** is what 3.11 and later add. No instruction sets a try up there: its body is
found by offset in the exception table and its handler comes after the rest of the
code. Before each instruction the loop closes the try blocks that
have ended and parks their containers under the offset of their handler
(`CloseEndedTry`), which ends with `FindBodies`; opens a container and a try for each region that starts
(`pc = "entering"`, `EnterBody`, one region per step) and reopens the container whose
handler starts here (`EnterHandler`). `zce.now` is the
handler being rebuilt, `zce.outer` those around it, `zce.pending` the parked containers.
PUSH_EXC_INFO, CHECK_EXC_MATCH, NOT_TAKEN, POP_EXCEPT and RERAISE have actions of
their own in BuildFromCode.

**CPython27** is external: what the CPython 2.7 compiler emits for a small language
(if with and, or, not; if expressions; while and for with else; break, continue;
try/except, try/finally, with; assignments, calls, returns), with the peephole
pass that redirects jumps to jumps. It was written after the bytecode in
`tests/compiled/*.2.7.pyc` and it also gives, for each program, the tree a
decompiler should find. The model was compared with the program: 2,636 compiled
programs were assembled, given to a build of pycdc and to this model, and the
printed text agreed but for parentheses. A second comparison, with 8,000 random 2.7 programs of MCAnyCode's
instructions, agreed on all but seven, which are the maps described above.

**CPython314** is external too: what 3.14 emits for functions with for loops and try
statements, with the handlers after the last return, the copies of short endings in
them, the inline caches and the exception table. It was written after
`tests/compiled/except_as.3.14.pyc`. All 319 programs of the run were assembled and given
to a build of pycdc, whose text was the tree the model finds.

**Precedence** is `cmp_prec` with the operator enumerations it compares; **Printer** is
`decompyle` and `print_src`. The C++ recursion is the list `todo` of what remains to be
written: a call replaces its own entry by the entries of its body, in the order of the code, and the
entries that set and reset `inLambda`, `cur_indent`, `printDocstringAndGlobals`,
`printClassDocstring` and `cleanBuild` stand where the assignments are. A code object is what
BuildFromCode made of it: its statements and the value it left in `cleanBuild`, so a
nested function that was built with an error can stand anywhere. The constant `Nodes` is what the lists
of statements may hold; what a node of each class has is `WellFormed`. A line of text is an
indentation and its tokens. A node type without a case in `print_src` (`NoCase`), which an awaitable or a class is
when it stands on its own, is written as `<NODE>` and clears `cleanBuild`; the end of `print_src` of the list around it sets
`cleanBuild` again, so no warning follows. `GlobalsAtEnd` says what the globals are once `decompyle` of the module has returned: `cur_indent`,
`inLambda` and `printDocstringAndGlobals` as they were found; `printClassDocstring`, which starts TRUE for the module's own
docstring (ASTree.cpp:33), FALSE; `cleanBuild`, which starts FALSE, TRUE. pycdc decompiles one module in a process
(pycdc.cpp:97); a second one would start from other globals than the first. **PythonText** is external: how Python reads such lines,
by the language reference (indentation, operator levels, signatures, docstrings).

**CodeReader** reads the bytes of a code object: the exception table with its six-bit
groups, then the walk of `opcode_at` for each handler, then the instructions as
`BuildFromCode` and `bc_disasm` get them, in the three layouts of `bc_next` (no fixed
width up to 3.5, two bytes from 3.6, jumps in units of two bytes from 3.10). The opcode
tables of 2.7, 3.5, 3.8, 3.10, 3.11 and 3.14 are sets of bytes with and without an
operand, and the kinds of jump. A file is any sequence of bytes, and the module states what holds of all of them:
`InStep`, `SameInstructions` and `Advances`. Numbers of the table are exact: one that does not fit in an `int`
is undefined behaviour of `val <<= 6` (pyc_code.cpp:139), after which a target may be any number; these properties say
the same of every target, and their proofs use only that it is one. **InstructionStream** is what readers promise: the
instructions, in order, each once, and "done" behind the last. **CodeLayout** (external)
is how CPython's assembler lays code out, and states the refinement.

**MarshalLoader** is the loader: `ReadMagic`, `ReadHeader` or `TakeVersion` find the version, then
one action per case of `LoadObject`, and one per place where a `load()` takes what the
`LoadObject` it called returned. The C++ recursion is the sequence `frames`. A file is a
sequence of tokens, the head of an object or a number of two or four bytes; where the
code reads a number and an object stands, or the other way round, the model stops with the
fault `outofstep`: the code would go on with bytes it misreads. The other faults are the
exceptions and exits of the code. `Layout` is the table of fields by version, `heap` the objects
made, `refs` and `interns` the two tables. Lengths so large that a vector cannot be reserved are
left out.

**CPythonMarshal** is external: what CPython's `marshal.c` writes, per version, for a graph of
objects: type bytes, the fields of code objects (as eight layouts, not as the conditions the
code has), interned strings by number from 2.4 to 2.7, flags and references from 3.4 on.

**PycRef** is the reference count that `PycObject` and `ASTNode` carry and the class that
keeps it. `operator=` takes two steps, `CopyAssign` (or `AssignPointer`, `AssignNew`) for
the two counts and `EndAssign` for the store, because between them the old object may be
deleted, and with it (`DestroyMember`, `Free`) what only it kept. The code nests the
destructors of several objects; the model lets them run in any order, which contains
that one. What the program may do is taken from how it uses references: a member is
reached through a variable that holds the object, and the source of a copy assignment
through another one than the target, since accessors return references by value.
`operator=(PycRef&&)` overwrites the old pointer without dropping it (pyc_object.h:54): `lost`
counts what that loses, and `Counted` and `Freed` speak of it.

## The runs

| run | specification | shows | size |
|---|---|---|---|
| `fast_stack` | FastStack | the cursor never leaves the array and dead cells are null, in the stack and in every saved copy; every read agrees with the abstract stack; refinement | 2 nodes, 2 cells at first, depth 3, 2 copies |
| `any_code` | BuildFromCode, fair | on arbitrary instructions: `BlocksOK`, `TreeOK`, `HandlersOK`, `ClosedIsFinal`, `Advances`, `Terminates` | 47,900 programs, 1,047,584 states |
| `round_trip` | BuildFromCode | on compiled programs: `RoundTrip`, `NothingLost`, `OperandsUsed`, `NotFaulted`, `HandlersAhead` | 2,338 programs, 227,514 states |
| `printer` | Printer, fair | `ReadsBack`, `FlagsArrive`, `GlobalsAtEnd`, `Finishes` | 4,350 modules, 263,453 states |
| `decode` | CodeReader, fair | `ReadsTheProgram` (refinement), `ReadToTheEnd`, `ExitsOnlyWhenCut`, `TableDecoded`, `TargetsFound`, `InStep`, `SameInstructions`, `Advances` | 6,112 code objects, 40,870 states |
| `marshal` | MarshalLoader | on files CPython writes: `CPythonFilesLoad`, `SameGraph`; on any: `TypeOK`, `HalfLoadedIsOnFrame`, `FieldsOfClass`, `LoadedIsFinal`, `Advances` | 14,297 files, 282,842 states |
| `references` | PycRef, fair | `Counted`, `NoDangling`, `KeptByHolder`, `Unwinds`, `Freed` | 3 objects, 2 variables, 1 member, 138,285 states |
| `early_return`, `if_3_14` | one program each | statements the decompiler gets wrong | |
| `errors_forgotten` | one program | an error seen while building is forgotten | |
| `precedence` | one expression | a parenthesis left out | |
| `slice_3_14` | one file | a slice constant of 3.14 is not read | |

**fast_stack.** An array of two cells with a depth of three has to grow, also
after a copy made before the growth was restored, and two copies are enough for
one to be saved while the other is live. The proofs have no bounds.

**any_code.** pycdc reads whatever file it is given, so the structural invariants
must hold for any bytecode. Every opening leads to another kind of current block
(all twelve, some empty and some not, with one or more blocks
around, with an unpacking or an import under way); two free instructions follow,
the first from the whole instruction set, the second from those that end blocks or
look at them; then a POP_BLOCK. A handler's effect on the structure depends on the current block, the one or two around
it and whether the history is empty, which the openings and the first free
instruction vary; the second one meets whatever state the first has left.
The instructions of all versions are
mixed, as the switch accepts them in any file, as 2.7 and, with one free instruction and another
end, as 3.8. With an exception table (3.11, 3.12, 3.14) the openings end in the body
of a try, between body and handler, or in a clause of a handler, also with one region in
another and two regions that start together; 3.12 has there the four instructions it is read differently from 3.14 by. `SpamThreshold` is 2 instead of 100 so that the
forward walk does reach its limit. POP_BLOCK closes up to three blocks at once: its own, a try around it or a container whose
clauses are over, and a for or async for that ends there (ASTree.cpp:2549); the openings lead to each.

**round_trip.** For 2.7 the source programs are each compound statement around each other
one, alone, after and before a plain statement, once as the last statement of the
module and once not. Two levels are what the handlers look at: the current block
and the one around it. `RoundTrip` compares the finished tree with the source's. For 3.14
they are functions with try statements (bare, typed, `as`) and for loops, a loop in a
body or in a handler, a try in a loop, two or three of them in a row.

What does not come back is left out by the predicate `Kept` in MCRoundTrip, shape
by shape, and not hidden in a weaker property:

* an if or a try/except that ends a loop's body: after jump threading the jump to
  its end is the loop's jump back, and is printed as a `continue`;
* a try/except that ends a body that is left by a jump;
* an if that is all of an if's body: printed as one condition with `and`;
* an else that starts with an if and goes on, or with a conditional expression:
  read as an elif;
* the else of a try statement: the container's end is taken from the jump that leaves
  the try body, which is where the else starts, so its statements come after the try
  statement (`tests/tokenized/test_exceptions.txt:36` expects it; the 2.7 file is in
  `tests/xfail`);
* an else in a finally clause: `CheckIfExpr` takes the two for a conditional expression
  when the operand stack is not empty, which it never is in a finally clause
  (`tests/tokenized/test_finally.txt:88-98`; the 2.7 file is in `tests/xfail`);
* a with followed by a statement in a handler or a finally, and a statement after a
  try/except in a try/finally (run `errors_forgotten`);
* in 3.14 every if (run `if_3_14`), and a try in the body of another one, which comes
  out beside it.

Of the programs that do come back, some still end with "Stack history is not
empty!" on stderr: a history that is not balanced is not by itself a wrong tree, so
no property asks for it.

**printer.** The modules are: every binary, comparison and unary operator under every other, on
each side, and three levels of a few of them; every other expression and statement; every
signature of up to two positional and two keyword-only parameters with all counts of
defaults, as a function and as a lambda; compound statements, functions and classes three deep, with
and without docstrings, `global` declarations, empty bodies, and built with an error at any
depth. Three levels are enough for a flag to be set, used and reset around a nested code
object that sets it too. `ReadsBack` reads the text as Python does and compares: same expressions,
same statements under the same headers, no empty suite, every docstring and `global` in its
function, and "Decompyle incomplete" after exactly the code objects built with an error.
Left out, by predicates: the operators `Misprinted` names (run `precedence` has one), and the parameters
`Printable` and `PrintableInside` name: `*args` with keyword-only parameters; a lambda in an
expression with `*` or `**`, or with keyword-only parameters unless there are as many
positional ones (its loop at ASTree.cpp:4337 counts the positional ones).

**decode.** For each of the six versions every byte of its table between other instructions,
operands at the limits of a byte, of two bytes and of an int, with and without EXTENDED_ARG, so
that offsets vary; exception tables with numbers of one to five groups, and targets that are the start of an
instruction, the opcode behind an EXTENDED_ARG, or beyond the end; all cut at every byte. From 3.6 on there is at most one EXTENDED_ARG:
a second one is lost (bytecode.cpp:289), which no property of a run speaks of. `InStep`, `SameInstructions` and `Advances` do not ask for code laid out by an
assembler, and their theorems are of any bytes, with several prefixes and with bytes that are no opcode; the run has the
instructions of the six tables, whole and cut off.

**marshal.** The files of CPython hold a module with two constants, each any of the simple
constants of the version, a tuple, a frozen set or a nested code object, that share strings
and tuples with the module in several places; every layout of code objects is written
by at least one version, and from 3.4 on once with only the shared objects flagged and once with
all of them, as the writer does with objects that others hold. Two constants and one nested code
object are enough for an object to be met first inside another, whose number comes
before, and for references across code objects. `SameGraph` walks both graphs side by side.
The arbitrary files are a code object of 1.0 (five fields) with four free tokens from ten,
among them references to objects still open, strings by number, unknown types and nested code;
and single tokens for each exception. Files end anywhere since the free tokens may open
more than the rest closes.

**references.** Three objects make a chain that an assignment deletes while a third is stored, two
variables reach both ends of it, and a member can hold its own object, so cycles exist
(they are never freed, and `Freed` does not ask for it: something holds them). `MaxLost` is 1: one lost count is enough
to keep an object alive. The proofs have no bounds.

**Deadlock** is checked in every run but `printer`, `decode` and `precedence`, whose programs stop
when they have written or read everything (`Finishes` and `ReadToTheEnd` say that they stop nowhere else).
In the others a finished program may stay as it is, so that a deadlock is an instruction and a
block without a handler.

**Fairness.** The program is one thread, nothing can block it, and it goes on until it returns: weak
fairness of `Next` in Printer, CodeReader and BuildFromCode. In BuildFromCode it is spelled out with its
enabling condition, "not finished", because TLC takes ENABLED of a long handler in exponential
time; the deadlock check shows that this is indeed the enabling condition. In PycRef only `Unwind` is fair: a
destructor or an assignment that has begun goes on, but nobody has to use a reference.

**Mutants.** Every property has a small change of the code that breaks it: the
operators named `...Stale`, `...Early`, `...Retried` and so on, defined just before the
one they replace.

## Findings

* `early_return`: after a return that ends an if the handler drops one more
  instruction. That is the POP_TOP of Python 2.6 and earlier; from 2.7 on it is the
  start of the next statement, and `f()` becomes `None()`. No test has the shape.
* `errors_forgotten`: "Refusing to pop last block" sets `cleanBuild = false`, and the
  end of `BuildFromCode` sets it to true again, so no "Decompyle incomplete" is
  printed. The comment of `cleanBuild` says what it should be for.
* `slice_3_14`: `CreateObject` does not know the type of a slice and reads none of its members;
  the rest of the file is out of step. README.markdown says 2.0 to 3.14.
* `if_3_14`: the target of a conditional jump from 3.12 on leaves out the inline cache of the
  jump, so the if's block ends inside the cache entry before the next statement, where nothing looks for
  it, and what follows is appended to the if.
* `precedence`: an operand on the right with its parent's own operator gets no parentheses, so
  `a - (b - c)` is printed as `a - b - c`.

Each was reproduced with a build of the program. Seen while modelling, and not made into
a run (line numbers are those of `src/ASTree.cpp` unless another file is named):

* `print None` of Python 2 comes back as two bare `print` lines: `ASTPrint` takes the null
  node of None for "no value" (2675);
* `f = lambda: None` is printed as `f = lambda : pass` (4664); a `yield` in a lambda loses the word;
* an if in a bare handler of 3.11 and later makes the try statement appear twice: its container is linked near 326 and
  closed again at 266-287 (why `TreeOK` allows a container of the exception table a second link);
* TO_BOOL of 3.13 and later turns `if x` into `if x and x` (1697); nested for loops of 3.12 do not come back
  (2588-2613); the layout of 3.11's handlers leaves a spurious `except: pass`;
* the two jumps that 3.11 made relative, JUMP_IF_FALSE_OR_POP and JUMP_IF_TRUE_OR_POP, are
  taken as absolute, and jump targets in the listing leave inline caches out (bytecode.cpp:477);
* `def f(a, *args, k)` is printed as `def f(a, *, k, *args)`; a lambda in an expression drops `*args` and `**kw`;
* a `global` in a class body is not printed, a decorated class comes out as `<NODE:12>()` without a
  warning, and a 3.14 string in `co_consts[0]` is taken for a docstring;
* `if not (a or b)` is printed as `if not a or b`; `(a**b)**c`, `a//(b*c)`, `(a+b)[c]`, `(a+b)(c)` and
  conditional expressions as operands lose their parentheses;
* the class prefix of a private name is cut off in the string itself (3187), which the file's constants share when it is interned:
  in a class C with a `__x`, `getattr(self, "_C__x")` is printed as `getattr(self, '__x')`;
* move assignment never drops what the target held (pyc_object.h:54): the object is leaked.

## What is proved

Eight modules, with no bounds. Every theorem is about the specification whose runs are described above, and its invariant
was an invariant of a run before it was proved.

**Stacks.** `FastStackProofs` (assumptions: null is not one of the nodes, the
initial size is a natural number):

* `CellsAlwaysOK`: `Spec => []CellsOK`. `CellsOK` is inductive as it stands. The work is in
  the lemmas: a FastStack built by push or pop is well formed again
  (`PushOK`, `PopOK`), and a copy is a well-formed value.
* `ReadsAlwaysAgree`: `Spec => []ReadsAgree`, from `CellsAlwaysOK` and `TopOK`.
* `FastStackImplementsStack`: `Spec => Refinement`. Initial states map to initial states
  (`InitRefines`) and each step to the abstract step of the same name (`NextRefines`);
  the live cells after a push are the live cells with one appended, after a pop their
  front, and dead cells do not show. The saved copies need `HistoryTop`, on the last
  element and the front of a sequence.

**BuildFromCode.** For every code object, of any length and also one that no compiler made, these hold at every
step. The assumptions are `ProgramsAssumption`, what a code object is (a sequence of instructions with integer operands, a
finite exception table, none before 3.11, and no SETUP_EXCEPT or SETUP_FINALLY in a code object that has one: the opcode tables from
3.11 on have neither), and `SpamAssumption` (the limit of the forward walk is positive).

* `BlocksCorrect`: `Spec => []BlocksOK`; `TreeCorrect`: `Spec => []TreeOK`; `HandlersCorrect`: `Spec => []HandlersOK`;
  `ClosedStays`: `Spec => ClosedIsFinal`; `AlwaysAdvances`: `Spec => Advances`.

None of the first four is inductive, and none can be proved without the others. That `blocks.top()` is
the block a handler believes it to be needs that every open block is in the heap and opened once; that a block is
linked once needs that it was open until just before, and that those still open are older; that a container waits under
its handler needs all of this for the heap at the time it was parked. `Good` (in `BuilderProofs`)
is what every builder state satisfies, also in the middle of a handler: the shape of heap, stack and
history (`HeapOK`, `OperandsOK`: no block is ever on the operand stack), `NestedIn` (open blocks are distinct and, but for
reopened containers, in the order they were made), `TreeIn`, `ParkedIn` and `ChainOK`.
`Settled` says that `curblock` is the innermost open block; it holds only between two instructions, which is
where the handlers read it. The invariant `IInv` (in `BuilderProofs`) is `Good`, the place in the loop and what holds there:
the walk of a jump is at the innermost block (`WalkOK`), and the handler being rebuilt started before the instruction
that is next.

The proof goes by moves, like the model. `BuilderProofs` has one lemma per move of AstBlocks. A state
reached by moves that keep the open blocks is related to the first by `Stays`; after a block was opened or closed by `Leads`, and by
`Goes` when `curblock` is in place again. `Final`, in all three, says that what was closed has not
changed; it is transitive, and gives `ClosedIsFinal`. A block just taken from `blocks` is `Loose`: closed, not linked, younger
than all that are open; only such a block may be linked. The rest of `BuilderProofs` and `BuildFromCodeProofs` take every handler
apart into its moves, one lemma per action.

The exception table weakens two of the properties for its containers, and the proof shows exactly where: a handler reopens
a container that is linked, which may then be closed and linked a second time (see Findings). For all other blocks `TreeOK` is strict.

`Advances` is the termination of the function as an action property. In every step that changes anything the offset grows, or it
stays and the work on the instruction comes to a later stage (`Stage`: closing, regions, entering, exec, the walk of a jump, fetch, done),
or it stays there and fewer blocks are left to close, or bodies to enter (`Left`). `AdvancesAreBounded` shows that the offset does not pass
the end and that the other two are natural numbers; no behaviour can therefore change the state for ever. The proof is part of what `BuilderProofs` shows of
each handler (`StepOK`). It shows that the counter `spamCounter` of JUMP_FORWARD (ASTree.cpp:2034), which gives up after a hundred
iterations, is not what ends the walk: each iteration pops a block, and it ends at the module's.

**Decoder.** `CodeReaderProofs` is about any bytes (assumption: `FilesAssumption`, one of the six versions and two sequences
of bytes):

* `AlwaysInStep`: `Spec => []InStep`. What `bc_next` counts for its caller and what it takes from the buffer are computed by
  different conditions in the code; they are the same.
* `WalksAgree`: `Spec => []SameInstructions`. `Starts` is the least set of places that has 0 and, with a place where a whole
  instruction lies, the one behind it. The invariant `IInv` says that a walk stands at one of them
  and has passed all that are smaller (`Walked`), so that no instruction starts inside another (`NoneInside`) and a walk that takes one step
  is again at such a place (`WalkOn`). The target found by one walk is in `Starts` or is not, and so the other
  walk has met it or has not. The least set takes the place of an induction over the code.
* `ReadingEnds`: `Spec => Advances /\ [](Remaining \in Nat)`. The walks start again for each entry of the table, whose number the file
  chooses; `Remaining` counts a walk for every byte of the table that is left, since an entry has four.

`CodeLayoutProofs` is about the code that compilers emit (assumption: `LayoutAssumption`, that each file is laid out as the assembler does it, perhaps
cut off anywhere; any length of program, any operand of sixteen bits, of 32 up to 3.5; any number of entries in the table, with
numbers below 2^30, which are five groups, and depths below 2^29):

* `ReadsPrefix`: `Spec => []IInv`. Between two instructions the position is the offset of the next one, and what was
  read is a prefix of what was written. The lemmas go from arithmetic (`TwoBytes`, `FourBytes`) over the five
  forms an instruction takes (`FiveForms`, `ShortAhead`, `LongAhead`) to what `bc_next` reads of
  each of them (`ReadWhole`, and `ReadCut` for one cut off).
* `StreamImplemented`: `Spec => ReadsTheProgram`: every step is a step of InstructionStream or a stutter.
  The walks for the handlers' opcodes start again at the first byte, so the invariant has one
  part for them (`Seeking`) and one for the walk over the code (`Walking`).
* `TableIsDecoded`: `Spec => []TableDecoded`. The invariant has a part for the table (`Decoding`): behind `j` groups
  of a number the value is the number without its last groups (`Partial`), and that the next group completes the
  next such value is arithmetic with the weights of the groups.
* `TargetsAreFound`: `Spec => []TargetsFound`. The walk has passed the instructions that start before its target. Offsets
  increase, which takes an induction over the program: the prover has none over data, so the lemmas take the least element of a
  set of natural numbers.
* `ExitsAreCuts`: `Spec => []ExitsOnlyWhenCut`: a byte that is not there is asked for exactly when the file was cut inside the
  instruction, number or entry being read.

**Loader.** `MarshalLoaderProofs` (no bounds on files, tokens or nesting; the only assumption is what a
file is: a version and a sequence of tokens). Its lemmas say what the four things an action does
to the heap (`Create`, `Enter`, `Give`, `Leave`) keep, and each theorem's step goes through the
actions with them:

* `LoaderTypeOK`: `Spec => [](FileOK /\ TypeOK)`; every name in the frames and the tables is an
  object's, and a version is known wherever one is used.
* `LoaderWhole`: `Spec => []HalfLoadedIsOnFrame`, by the invariant `WholeInv`. The property alone is not
  inductive: that an object is left when it has its last member needs the count never to have
  passed the size (`MembersLeft`), and a code object's number fields do not ask whether
  they are the last: that holds since its size is that of its version's layout (`CodeSized`)
  and no layout ends with a number (`LayoutEndsWithObject`, for every version).
  Strings by reference need `InternsAreStrings`: they copy the type of what they name.
* `LoaderClasses`: `Spec => []FieldsOfClass`, by `FieldsInv`: a field is the name of an object that exists,
  types never change, and the version is not set again after the first code object.
* `LoadedStays`: `Spec => LoadedIsFinal`. Each action adds at most members to the object whose `load()` is innermost (`FinalGiven`) or makes a new one
  and begins to load that (`FinalMade`); anything else leaves the heap alone and ends at most a `load()` (`FinalStill`).
* `LoadingEnds`: `Spec => Advances`, that `Remaining` is a natural number, and that it is twice the tokens of the file and two when reading starts:
  no length and no nesting that a file names makes the loader run longer.

**Printer.** `PrinterProofs` (assumption: `NodesAssumption`, that the nodes have the fields of their classes with children that are nodes,
that a constant map has no more keys than values, and that a list built cleanly has more than what `decompyle` takes from its head; of an empty
list it would take `front()` and `back()`, which is undefined):

* `FlagsAlwaysArrive`: `Spec => []FlagsArrive`; `GlobalsEndRight`: `Spec => []GlobalsAtEnd`. They hold for every tree
  and every nesting of functions, classes and lambdas, with code objects built with an error anywhere.

The printer is recursive and the prover has no induction over trees; none is needed, since the recursion is the sequence `todo`. `Whole`
is what the entries of one call are: they bring `cur_indent` back (`Leads`), what they put before a code object is followed by
it (`Taken`), and what turns `inLambda` on is followed by something that turns it off (`Ends`). Whole sequences joined in any way the cases of
`print_src` join them are whole (`Concat`, `WholeFlatten`, `Indented`, `InLambdaAround`, `FlagBefore`), so each action replaces an entry by a whole sequence.
`IInv` says that the rest of `todo` leads from the present indentation to -1, that something in it turns `inLambda` off
if it is on, and that its last entry is the end of a `print_src`, which is what leaves `cleanBuild` set. The assignment of a lambda saves `inLambda`
and restores it later, on or off: that it ends off needs the entries behind, which is the second part of `IInv`.

**Reference counts.** `PycRefProofs` (assumptions: memory, variables and members are finite sets, and the names are distinct):

* `CountsRight`: `Spec => [](TypeOK /\ Counted)`. Counts are cardinalities of the sets of holders; `OneChange` and
  `MoveChange` say how those change when one or two references do. `Counted` is not inductive: a new object is made in
  freed memory, whose count must be 0 (`Alive`) and which must hold nothing (`Emptied`), and the store that ends
  an assignment reads a reference that must still be reached by another variable (`Anchored`).
* `NeverDangles`: `Spec => []NoDangling`, from the same invariant.
* `NoneLeft`: `Spec => []KeptByHolder`: a live object has a positive count (`Alive`, of the invariant), so that a count of nothing
  but holders has one.
* `DestructorsEnd`: `Spec => Unwinds /\ [](Pending \in Nat)`. The store that ends an assignment may fill a member, so it counts for two.

**Only model-checked.** What holds for the code of a compiler, and not for any: `RoundTrip`, `NothingLost`, `OperandsUsed`, `NotFaulted`,
`HandlersAhead`, `CPythonFilesLoad` and `SameGraph`. The compiler and writer models, the expected trees and the comparison of graphs are
recursive operators, which the prover cannot reason about, and so is the reader of the printed text (`ReadsBack`). And all
liveness (`Terminates`, `Finishes`, `ReadToTheEnd`, `Freed`), which is beyond the prover. Of three of them the part that is safety is proved:
`Advances` of BuildFromCode and of CodeReader, `Unwinds` with `KeptByHolder` of PycRef; what these leave open is that a step is possible until the
function has returned, the reader is done or the destructors are, which is the deadlock check of `any_code` and `references`, and
`ReadToTheEnd` itself. Of `Finishes` no such part is proved: how much a call of `print_src` leaves to write is the size of a tree,
a recursive definition.


## Not modelled

* The command line (`pycdc.cpp`): arguments and files; what a fault ends in is its business.
* The disassembler's formatting (names, indentation, operands' text) and `pycdas.cpp`; the loop and the jump targets it
  prints are in CodeReader.
* The other twenty or so opcode tables: data of the same form as the six that are there.
* In the printer: formatted and template strings and conversions, the text of constants, and the breaking of lines. The list
  of used globals is a field of the printer's code objects.
* `isEqual` and printing of objects, and lengths that exhaust the memory.

## Plan

1. Done: FastStack, the marshal loader, the code reader, reference counts, BuildFromCode for all versions and the printer, each with
   proofs of what holds for every input.
2. The strings that names and constants of several code objects share: the loader gives one object, `STORE_NAME` changes it,
   the printer reads it later.
