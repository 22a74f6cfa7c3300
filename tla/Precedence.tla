----------------------------- MODULE Precedence -----------------------------
(***************************************************************************)
(* Where the printer puts parentheses: cmp_prec of ASTree.cpp, which       *)
(* compares positions in the operator enums of ASTNode.h.  An operator is  *)
(* written as the text op_str() prints for it.  A node is a record whose   *)
(* field k is its node type: "binary", "compare" (op, l, r), "unary" (op,  *)
(* e), and the others, among which no parenthesis is ever written.         *)
(***************************************************************************)
EXTENDS Integers, Sequences

\* ASTBinary::BinOp, in the order of the enum
BinOps == <<".", "**", "*", "/", "//", "%", "+", "-", "<<", ">>", "&", "^", "|",
            "and", "or", "@">>

\* BIN_IP_ADD and what follows: a binary node printed as a statement of its own
InplaceOps == <<"+=", "-=", "*=", "/=", "%=", "**=", "<<=", ">>=", "&=", "^=", "|=",
                "//=", "@=">>

\* ASTCompare::CompareOp
CmpOps == <<"<", "<=", "==", "!=", ">", ">=", "in", "not in", "is", "is not">>

\* ASTUnary::UnOp
UnOps == <<"+", "-", "~", "not">>

Rank(ops, op) == CHOOSE i \in DOMAIN ops : ops[i] = op
BinRank(op) == Rank(BinOps \o InplaceOps, op)

IsLogical(n) == n.op \in {"and", "or"}
IsNot(n) == n.k = "unary" /\ n.op = "not"

\* Two chains of operators of one level that the enum alone does not separate
RightOfInverse(parent, right, child) ==
  right /\ <<parent.op, child.op>> \in {<<"-", "+">>, <<"/", "*">>}

When(condition) == IF condition THEN 1 ELSE -1

BinaryIn(parent, right, child) ==
  CASE parent.k = "binary" /\ RightOfInverse(parent, right, child) -> 1
    [] parent.k = "binary" -> BinRank(child.op) - BinRank(parent.op)
    [] parent.k = "compare" -> When(IsLogical(child))
    [] parent.k = "unary" -> When(child.op # "**")
    [] OTHER -> -1

UnaryIn(parent, child) ==
  CASE parent.k = "binary" -> When(~IsLogical(parent) /\ (IsNot(child) \/ parent.op = "**"))
    [] parent.k = "compare" -> When(IsNot(child))
    [] parent.k = "unary" -> Rank(UnOps, child.op) - Rank(UnOps, parent.op)
    [] OTHER -> -1

CompareIn(parent, child) ==
  CASE parent.k = "binary" -> When(~IsLogical(parent))
    [] parent.k = "compare" -> Rank(CmpOps, child.op) - Rank(CmpOps, parent.op)
    [] parent.k = "unary" -> When(~IsNot(parent))
    [] OTHER -> -1

\* Positive when the child is written in parentheses; right says that the child
\* is the parent's right operand.
CmpPrec(parent, right, child) ==
  CASE IsNot(parent) -> 1
    [] ~IsNot(parent) /\ child.k = "binary" -> BinaryIn(parent, right, child)
    [] ~IsNot(parent) /\ child.k = "unary" -> UnaryIn(parent, child)
    [] ~IsNot(parent) /\ child.k = "compare" -> CompareIn(parent, child)
    [] OTHER -> -1
=============================================================================
