----------------------------- MODULE MCFindings -----------------------------
(***************************************************************************)
(* Single programs on which the code does something else than the          *)
(* repository says: their compilations, and a history variable for what    *)
(* the builder itself knows went wrong.                                    *)
(***************************************************************************)
EXTENDS MCRoundTrip

VARIABLE refused     \* the builder has refused to pop its last block

Return_ == [s |-> "return"]

\* if c: return 4, then X
EarlyReturn == <<{Compiled(<<If("c", <<Return_>>, <<>>), X>>)}>>

\* try: (try: A except: A) X finally: A
StatementAfterTry == <<{Compiled(<<TryFinally(<<TryExcept("bare", <<A>>, <<A>>, <<>>), X>>, <<A>>)>>)}>>

\* 3.14: if c: A, then X
If314 == <<{Py314!Compiled314(<<If("c", <<A>>, <<>>), X>>)}>>

WatchInit == Init /\ refused = FALSE
WatchNext == Next /\ refused' = (refused \/ Refuses)
WatchSpec == WatchInit /\ [][WatchNext]_<<vars, refused>>

(* A code object in which an error occurred is known not to be clean:      *)
(* "Use this to determine if an error occurred (and therefore, if we       *)
(* should avoid cleaning the output tree)", says the code of cleanBuild.   *)
ErrorRemembered == pc = "done" /\ refused => ~cleanBuild
=============================================================================
