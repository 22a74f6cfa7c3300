---------------------------- MODULE PrinterProofs ----------------------------
(***************************************************************************)
(* The printer's globals, for every tree of statements and expressions and *)
(* every nesting of functions, classes and lambdas.                        *)
(*                                                                         *)
(* Whole is what the entries of one call of print_src are: they write what *)
(* they like, but leave cur_indent where it was, take inLambda back when   *)
(* they set it, and go on with the code object when they have set one of   *)
(* the flags for it.  Whole sequences make whole sequences, so that no     *)
(* recursion over the tree is needed: the invariant only says that what is *)
(* left of todo leads back to the indentation of the start.                *)
(***************************************************************************)
EXTENDS Printer, SequenceTheorems, WellFoundedInduction, TLAPS

-----------------------------------------------------------------------------
(* Sequences and natural numbers *)

IsSeq(s) == Len(s) \in Nat /\ s = [i \in 1 .. Len(s) |-> s[i]]

LEMMA SeqIsSeq ==
  ASSUME NEW S, NEW s \in Seq(S)
  PROVE  IsSeq(s)
BY LenProperties DEF IsSeq

LEMMA IsSeqElements ==
  ASSUME NEW s, IsSeq(s), NEW T, \A i \in 1 .. Len(s) : s[i] \in T
  PROVE  s \in Seq(T)
<1>1. s \in [1 .. Len(s) -> T]  BY DEF IsSeq
<1> QED  BY <1>1, SeqDef DEF IsSeq

LEMMA IntervalLen ==
  ASSUME NEW n \in Nat, NEW m \in Nat, 1 .. n = 1 .. m
  PROVE  n = m
<1>1. CASE n < m
  <2>1. m \in 1 .. m /\ m \notin 1 .. n  BY <1>1
  <2> QED  BY <2>1
<1>2. CASE m < n
  <2>1. n \in 1 .. n /\ n \notin 1 .. m  BY <1>2
  <2> QED  BY <2>1
<1> QED  BY <1>1, <1>2

\* a function on 1 .. n is a sequence of length n
LEMMA FcnIsSeq ==
  ASSUME NEW n \in Nat, NEW f, f = [i \in 1 .. n |-> f[i]]
  PROVE  IsSeq(f) /\ Len(f) = n /\ DOMAIN f = 1 .. n
<1> DEFINE S == {f[i] : i \in 1 .. n}
<1>1. f \in Seq(S)  BY SeqDef
<1>2. Len(f) \in Nat /\ DOMAIN f = 1 .. Len(f)  BY <1>1, LenProperties
<1>3. 1 .. Len(f) = 1 .. n  BY <1>2
<1>4. Len(f) = n  BY <1>2, <1>3, IntervalLen
<1> QED  BY <1>2, <1>4 DEF IsSeq

LEMMA EmptyIsSeq ==
  /\ IsSeq(<<>>) /\ Len(<<>>) = 0
  /\ \A s : IsSeq(s) => (s = <<>> <=> Len(s) = 0)
<1>1. IsSeq(<<>>) /\ Len(<<>>) = 0
  <2>1. <<>> \in Seq({}) /\ Len(<<>>) = 0  BY EmptySeq
  <2> QED  BY <2>1, SeqIsSeq
<1>2. ASSUME NEW s, IsSeq(s), Len(s) = 0  PROVE s = <<>>
  <2>1. s \in Seq({})  BY <1>2, IsSeqElements
  <2> QED  BY <1>2, <2>1, EmptySeq
<1> QED  BY <1>1, <1>2

LEMMA OneIsSeq ==
  ASSUME NEW e
  PROVE  IsSeq(<<e>>) /\ Len(<<e>>) = 1 /\ <<e>>[1] = e
<1>1. <<e>> \in Seq({e})  OBVIOUS
<1> QED  BY <1>1, SeqIsSeq

LEMMA ConcatSeq ==
  ASSUME NEW s, IsSeq(s), NEW t, IsSeq(t)
  PROVE  /\ IsSeq(s \o t) /\ Len(s \o t) = Len(s) + Len(t)
         /\ \A i \in 1 .. Len(s) + Len(t) :
              (s \o t)[i] = IF i <= Len(s) THEN s[i] ELSE t[i - Len(s)]
<1> DEFINE T == {s[i] : i \in 1 .. Len(s)} \cup {t[i] : i \in 1 .. Len(t)}
<1>1. s \in Seq(T) /\ t \in Seq(T)  BY IsSeqElements
<1> HIDE DEF T
<1>2. s \o t \in Seq(T)  BY <1>1, ConcatProperties
<1>3. /\ Len(s \o t) = Len(s) + Len(t)
      /\ \A i \in 1 .. Len(s) + Len(t) :
           (s \o t)[i] = IF i <= Len(s) THEN s[i] ELSE t[i - Len(s)]
  BY <1>1, ConcatProperties
<1> QED  BY <1>2, <1>3, SeqIsSeq

LEMMA ConcatAssoc ==
  ASSUME NEW s, IsSeq(s), NEW t, IsSeq(t), NEW u, IsSeq(u)
  PROVE  (s \o t) \o u = s \o (t \o u)
<1> DEFINE T == {s[i] : i \in 1 .. Len(s)} \cup {t[i] : i \in 1 .. Len(t)} \cup {u[i] : i \in 1 .. Len(u)}
<1>1. s \in Seq(T)  BY IsSeqElements
<1>2. t \in Seq(T)  BY IsSeqElements
<1>3. u \in Seq(T)  BY IsSeqElements
<1> HIDE DEF T
<1> QED  BY <1>1, <1>2, <1>3, ConcatAssociative

LEMMA TailSeq ==
  ASSUME NEW s, IsSeq(s), s # <<>>
  PROVE  /\ IsSeq(Tail(s)) /\ Len(Tail(s)) = Len(s) - 1 /\ 1 <= Len(s)
         /\ \A i \in 1 .. Len(s) - 1 : Tail(s)[i] = s[i + 1]
         /\ Head(s) = s[1]
<1> DEFINE T == {s[i] : i \in 1 .. Len(s)}
<1>1. s \in Seq(T)  BY IsSeqElements
<1> HIDE DEF T
<1>2. Tail(s) \in Seq(T) /\ Len(Tail(s)) = Len(s) - 1 /\ \A i \in 1 .. Len(Tail(s)) : Tail(s)[i] = s[i + 1]
  BY <1>1, HeadTailProperties
<1>3. IsSeq(Tail(s))  BY <1>2, SeqIsSeq
<1>4. Len(s) \in Nat /\ Len(s) # 0  BY EmptyIsSeq DEF IsSeq
<1> QED  BY <1>1, <1>2, <1>3, <1>4

\* A set of natural numbers has a least one, so that what holds of 0 and of the
\* next number holds of all.
LEMMA NatMin ==
  ASSUME NEW T, T \subseteq Nat, T # {}
  PROVE  \E x \in T : \A y \in T : x <= y
<1> DEFINE R == {ss \in Nat \X Nat : ss[1] < ss[2]}
<1>1. IsWellFoundedOn(R, Nat)  BY NatLessThanWellFounded DEF OpToRel
<1>2. \A x, y \in Nat : <<y, x>> \in R <=> y < x  OBVIOUS
<1> HIDE DEF R
<1>3. PICK x \in T : \A y \in T : ~ (<<y, x>> \in R)  BY <1>1, WFMin
<1>4. \A y \in T : ~ (y < x) /\ y \in Nat /\ x \in Nat  BY <1>2, <1>3
<1>5. \A y \in T : x <= y  BY SMT, <1>4
<1> QED  BY <1>5

LEMMA SetInduction ==
  ASSUME NEW S, 0 \in S, \A n \in Nat : n \in S => n + 1 \in S
  PROVE  Nat \subseteq S
<1> DEFINE T == Nat \ S
<1>1. ASSUME T # {} PROVE FALSE
  <2>1. PICK x \in T : \A y \in T : x <= y  BY <1>1, NatMin
  <2>2. x - 1 \in Nat /\ x - 1 \notin T  BY <2>1
  <2>3. (x - 1) + 1 = x  BY <2>1
  <2> QED  BY <2>2, <2>3
<1> QED  BY <1>1

-----------------------------------------------------------------------------
(* What the entries of a call are *)

EntryOK(e) ==
  /\ e.do = "print" => WellFormed(e.node)
  /\ e.do = "body" => IsCode(e.code) /\ e.on \in BOOLEAN
  /\ e.do = "lambda" => e.on \in BOOLEAN
  /\ e.do = "indent" => e.by \in Int

By(e) == IF e.do = "indent" THEN e.by ELSE 0

Off(e) == e.do = "lambda" /\ ~e.on

\* what sets a flag is followed by what takes it
Taken(s) ==
  \A i \in 1 .. Len(s) :
    /\ s[i].do = "function" => i < Len(s) /\ s[i + 1].do = "body"
    /\ s[i].do = "class" => i < Len(s) /\ s[i + 1].do = "print" /\ s[i + 1].node.k = "code"

\* inLambda does not stay set
Ends(s) ==
  \A i \in 1 .. Len(s) :
    s[i].do = "lambda" => Off(s[i]) \/ \E j \in i + 1 .. Len(s) : Off(s[j])

\* the indentation goes from a to b
Leads(s, a, b) ==
  \E d \in [1 .. Len(s) + 1 -> Int] :
    d[1] = a /\ d[Len(s) + 1] = b /\ \A i \in 1 .. Len(s) : d[i + 1] = d[i] + By(s[i])

Sound(s, a, b) ==
  IsSeq(s) /\ (\A i \in 1 .. Len(s) : EntryOK(s[i])) /\ Taken(s) /\ Ends(s) /\ Leads(s, a, b)

Whole(s) == Sound(s, 0, 0)

LEMMA EmptySound ==
  ASSUME NEW a \in Int
  PROVE  Sound(<<>>, a, a)
<1>1. IsSeq(<<>>) /\ Len(<<>>) = 0  BY EmptyIsSeq
<1>2. Leads(<<>>, a, a)
  <2> DEFINE d == [i \in 1 .. 1 |-> a]
  <2>1. d \in [1 .. Len(<<>>) + 1 -> Int] /\ d[1] = a /\ d[Len(<<>>) + 1] = a  BY <1>1
  <2>2. \A i \in 1 .. Len(<<>>) : FALSE  BY <1>1
  <2> HIDE DEF d
  <2> QED  BY <2>1, <2>2 DEF Leads
<1> QED  BY <1>1, <1>2 DEF Sound, Taken, Ends

LEMMA OneLeads ==
  ASSUME NEW e, EntryOK(e), NEW a \in Int
  PROVE  Leads(<<e>>, a, a + By(e))
<1>1. IsSeq(<<e>>) /\ Len(<<e>>) = 1 /\ <<e>>[1] = e  BY OneIsSeq
<1>2. By(e) \in Int  BY DEF EntryOK, By
<1> DEFINE d == [i \in 1 .. 2 |-> IF i = 1 THEN a ELSE a + By(e)]
<1>3. d \in [1 .. Len(<<e>>) + 1 -> Int]  BY <1>1, <1>2
<1>4. d[1] = a /\ d[2] = a + By(e)  OBVIOUS
<1> HIDE DEF d
<1>5. \A i \in 1 .. Len(<<e>>) : d[i + 1] = d[i] + By(<<e>>[i])  BY <1>1, <1>4
<1> QED  BY <1>1, <1>3, <1>4, <1>5 DEF Leads

LEMMA LeadsOn ==
  ASSUME NEW s, IsSeq(s), NEW t, IsSeq(t), NEW a, NEW b, NEW c,
         Leads(s, a, b), Leads(t, b, c)
  PROVE  Leads(s \o t, a, c)
<1> DEFINE n == Len(s)
<1> DEFINE m == Len(t)
<1>1. n \in Nat /\ m \in Nat  BY DEF IsSeq
<1>2. PICK d \in [1 .. n + 1 -> Int] :
        d[1] = a /\ d[n + 1] = b /\ \A i \in 1 .. n : d[i + 1] = d[i] + By(s[i])
  BY DEF Leads
<1>3. PICK f \in [1 .. m + 1 -> Int] :
        f[1] = b /\ f[m + 1] = c /\ \A i \in 1 .. m : f[i + 1] = f[i] + By(t[i])
  BY DEF Leads
<1>4. Len(s \o t) = n + m /\ \A i \in 1 .. n + m : (s \o t)[i] = IF i <= n THEN s[i] ELSE t[i - n]
  BY ConcatSeq
<1> HIDE DEF n, m
<1> DEFINE g == [i \in 1 .. (n + m) + 1 |-> IF i <= n THEN d[i] ELSE f[i - n]]
<1>5. g \in [1 .. (n + m) + 1 -> Int]
  <2>1. ASSUME NEW i \in 1 .. (n + m) + 1  PROVE (IF i <= n THEN d[i] ELSE f[i - n]) \in Int
    <3>1. i <= n => i \in 1 .. n + 1  BY <1>1
    <3>2. ~(i <= n) => i - n \in 1 .. m + 1  BY <1>1
    <3> QED  BY <1>2, <1>3, <3>1, <3>2
  <2> QED  BY <2>1
<1>6. g[1] = a
  <2>1. 1 \in 1 .. (n + m) + 1  BY <1>1
  <2>2. g[1] = IF 1 <= n THEN d[1] ELSE f[1 - n]  BY <2>1
  <2>3. CASE 1 <= n  BY <1>2, <2>2, <2>3
  <2>4. CASE n = 0
    <3>1. 1 - n = 1 /\ n + 1 = 1 /\ ~(1 <= n)  BY <2>4
    <3> QED  BY <1>2, <1>3, <2>2, <3>1
  <2> QED  BY <1>1, <2>3, <2>4
<1>7. g[(n + m) + 1] = c
  <2>1. (n + m) + 1 \in 1 .. (n + m) + 1 /\ ~((n + m) + 1 <= n) /\ ((n + m) + 1) - n = m + 1  BY <1>1
  <2> QED  BY <1>3, <2>1
<1>8. ASSUME NEW i \in 1 .. n + m  PROVE g[i + 1] = g[i] + By((s \o t)[i])
  <2>1. i \in 1 .. (n + m) + 1 /\ i + 1 \in 1 .. (n + m) + 1  BY <1>1
  <2>2. g[i] = IF i <= n THEN d[i] ELSE f[i - n]  BY <2>1
  <2>3. g[i + 1] = IF i + 1 <= n THEN d[i + 1] ELSE f[(i + 1) - n]  BY <2>1
  <2> HIDE DEF g
  <2>4. CASE i + 1 <= n
    <3>1. i <= n /\ i \in 1 .. n  BY <1>1, <2>4
    <3> QED  BY <1>2, <1>4, <2>2, <2>3, <2>4, <3>1
  <2>5. CASE i = n
    <3>1. i \in 1 .. n /\ ~(i + 1 <= n) /\ (i + 1) - n = 1 /\ i <= n  BY <1>1, <2>5
    <3>2. d[i + 1] = d[i] + By(s[i]) /\ d[i + 1] = b  BY <1>2, <2>5, <3>1
    <3> QED  BY <1>3, <1>4, <2>2, <2>3, <3>1, <3>2
  <2>6. CASE n < i
    <3>1. ~(i <= n) /\ ~(i + 1 <= n) /\ i - n \in 1 .. m /\ (i + 1) - n = (i - n) + 1  BY <1>1, <2>6
    <3>2. f[(i - n) + 1] = f[i - n] + By(t[i - n])  BY <1>3, <3>1
    <3> QED  BY <1>4, <2>2, <2>3, <3>1, <3>2
  <2>7. i + 1 <= n \/ i = n \/ n < i  BY <1>1
  <2> QED  BY <2>4, <2>5, <2>6, <2>7
<1> HIDE DEF g
<1> QED  BY <1>4, <1>5, <1>6, <1>7, <1>8 DEF Leads

LEMMA SoundConcat ==
  ASSUME NEW s, NEW t, NEW a, NEW b, NEW c, Sound(s, a, b), Sound(t, b, c)
  PROVE  Sound(s \o t, a, c)
<1> DEFINE n == Len(s)
<1> DEFINE m == Len(t)
<1>1. IsSeq(s) /\ IsSeq(t)  BY DEF Sound
<1>2. n \in Nat /\ m \in Nat  BY <1>1 DEF IsSeq
<1>3. IsSeq(s \o t) /\ Len(s \o t) = n + m
      /\ \A i \in 1 .. n + m : (s \o t)[i] = IF i <= n THEN s[i] ELSE t[i - n]
  BY <1>1, ConcatSeq
<1>4. Leads(s \o t, a, c)  BY <1>1, LeadsOn DEF Sound
<1>5. /\ \A i \in 1 .. n : EntryOK(s[i])
      /\ \A i \in 1 .. m : EntryOK(t[i])
  BY DEF Sound
<1>6. /\ \A i \in 1 .. n : /\ s[i].do = "function" => i < n /\ s[i + 1].do = "body"
                           /\ s[i].do = "class" => i < n /\ s[i + 1].do = "print" /\ s[i + 1].node.k = "code"
      /\ \A i \in 1 .. m : /\ t[i].do = "function" => i < m /\ t[i + 1].do = "body"
                           /\ t[i].do = "class" => i < m /\ t[i + 1].do = "print" /\ t[i + 1].node.k = "code"
  BY DEF Sound, Taken
<1>7. /\ \A i \in 1 .. n : s[i].do = "lambda" => Off(s[i]) \/ \E j \in i + 1 .. n : Off(s[j])
      /\ \A i \in 1 .. m : t[i].do = "lambda" => Off(t[i]) \/ \E j \in i + 1 .. m : Off(t[j])
  BY DEF Sound, Ends
<1> DEFINE u == s \o t
<1> HIDE DEF n, m, u
<1>8. ASSUME NEW i \in 1 .. n  PROVE i \in 1 .. n + m /\ u[i] = s[i]
  BY <1>2, <1>3 DEF u
<1>9. ASSUME NEW i \in 1 .. m  PROVE n + i \in 1 .. n + m /\ u[n + i] = t[i]
  <2>1. n + i \in 1 .. n + m /\ ~(n + i <= n) /\ (n + i) - n = i  BY <1>2
  <2> QED  BY <1>3, <2>1 DEF u
<1>10. ASSUME NEW i \in 1 .. n + m  PROVE i \in 1 .. n \/ \E k \in 1 .. m : i = n + k
  <2>1. CASE i <= n  BY <1>2, <2>1
  <2>2. CASE ~(i <= n)
    <3>1. i - n \in 1 .. m /\ i = n + (i - n)  BY <1>2, <2>2
    <3> QED  BY <3>1
  <2> QED  BY <2>1, <2>2
<1>11. \A i \in 1 .. n + m : EntryOK(u[i])
  BY <1>5, <1>8, <1>9, <1>10
<1>12. ASSUME NEW i \in 1 .. n + m
       PROVE  /\ u[i].do = "function" => i < n + m /\ u[i + 1].do = "body"
              /\ u[i].do = "class" => i < n + m /\ u[i + 1].do = "print" /\ u[i + 1].node.k = "code"
  <2>1. CASE i \in 1 .. n
    <3>1. u[i] = s[i]  BY <1>8, <2>1
    <3>2. i < n => i + 1 \in 1 .. n /\ i < n + m  BY <1>2, <2>1
    <3>3. i < n => u[i + 1] = s[i + 1] /\ i < n + m  BY <1>8, <3>2
    <3> QED  BY <1>6, <2>1, <3>1, <3>3
  <2>2. ASSUME NEW k \in 1 .. m, i = n + k
        PROVE  /\ u[i].do = "function" => i < n + m /\ u[i + 1].do = "body"
               /\ u[i].do = "class" => i < n + m /\ u[i + 1].do = "print" /\ u[i + 1].node.k = "code"
    <3>1. u[i] = t[k]  BY <1>9, <2>2
    <3>2. k < m => k + 1 \in 1 .. m /\ i < n + m /\ n + (k + 1) = i + 1  BY <1>2, <2>2
    <3>3. k < m => u[i + 1] = t[k + 1] /\ i < n + m  BY <1>9, <3>2
    <3> QED  BY <1>6, <3>1, <3>3
  <2> QED  BY <1>10, <2>1, <2>2
<1>13. ASSUME NEW i \in 1 .. n + m, u[i].do = "lambda"
       PROVE  Off(u[i]) \/ \E j \in i + 1 .. n + m : Off(u[j])
  <2>1. CASE i \in 1 .. n
    <3>1. u[i] = s[i]  BY <1>8, <2>1
    <3>2. ASSUME NEW j \in i + 1 .. n  PROVE j \in 1 .. n /\ j \in i + 1 .. n + m  BY <1>2, <2>1
    <3>3. ASSUME NEW j \in i + 1 .. n  PROVE u[j] = s[j] /\ j \in i + 1 .. n + m  BY <1>8, <3>2
    <3> QED  BY <1>7, <1>13, <2>1, <3>1, <3>3
  <2>2. ASSUME NEW k \in 1 .. m, i = n + k
        PROVE  Off(u[i]) \/ \E j \in i + 1 .. n + m : Off(u[j])
    <3>1. u[i] = t[k]  BY <1>9, <2>2
    <3>2. ASSUME NEW j \in k + 1 .. m  PROVE n + j \in i + 1 .. n + m /\ j \in 1 .. m  BY <1>2, <2>2
    <3>3. ASSUME NEW j \in k + 1 .. m  PROVE u[n + j] = t[j] /\ n + j \in i + 1 .. n + m  BY <1>9, <3>2
    <3> QED  BY <1>7, <1>13, <3>1, <3>3
  <2> QED  BY <1>10, <2>1, <2>2
<1>14. Len(u) = n + m /\ IsSeq(u) /\ Leads(u, a, c)  BY <1>3, <1>4 DEF u
<1>15. Sound(u, a, c)
  BY <1>11, <1>12, <1>13, <1>14 DEF Sound, Taken, Ends
<1> QED  BY <1>15 DEF u

\* A flag may be set in front of what takes it
LEMMA SoundCons ==
  ASSUME NEW e, EntryOK(e), NEW s, NEW a \in Int, NEW b, Sound(s, a + By(e), b),
         e.do = "function" => s # <<>> /\ s[1].do = "body",
         e.do = "class" => s # <<>> /\ s[1].do = "print" /\ s[1].node.k = "code",
         e.do = "lambda" => Off(e) \/ \E j \in 1 .. Len(s) : Off(s[j])
  PROVE  Sound(<<e>> \o s, a, b)
<1> DEFINE n == Len(s)
<1> DEFINE u == <<e>> \o s
<1>1. IsSeq(<<e>>) /\ Len(<<e>>) = 1 /\ <<e>>[1] = e /\ IsSeq(s) /\ n \in Nat
  BY OneIsSeq DEF Sound, IsSeq
<1>2. /\ IsSeq(u) /\ Len(u) = 1 + n
      /\ \A i \in 1 .. 1 + n : u[i] = IF i <= 1 THEN <<e>>[i] ELSE s[i - 1]
  BY <1>1, ConcatSeq
<1>3. Leads(u, a, b)
  <2>1. Leads(<<e>>, a, a + By(e))  BY OneLeads
  <2>2. Leads(s, a + By(e), b)  BY DEF Sound
  <2> QED  BY <1>1, <2>1, <2>2, LeadsOn
<1>4. s # <<>> => 1 \in 1 .. n
  BY <1>1, EmptyIsSeq
<1> HIDE DEF u
<1>5. u[1] = e
  BY <1>1, <1>2
<1>6. ASSUME NEW i \in 1 .. n  PROVE i + 1 \in 1 .. 1 + n /\ u[i + 1] = s[i]
  <2>1. i + 1 \in 1 .. 1 + n /\ ~(i + 1 <= 1) /\ (i + 1) - 1 = i  BY <1>1
  <2> QED  BY <1>2, <2>1
<1>7. ASSUME NEW i \in 1 .. 1 + n  PROVE i = 1 \/ \E k \in 1 .. n : i = k + 1
  <2>1. i # 1 => i - 1 \in 1 .. n /\ i = (i - 1) + 1  BY <1>1
  <2> QED  BY <2>1
<1>8. /\ \A i \in 1 .. n : EntryOK(s[i])
      /\ \A i \in 1 .. n : /\ s[i].do = "function" => i < n /\ s[i + 1].do = "body"
                           /\ s[i].do = "class" => i < n /\ s[i + 1].do = "print" /\ s[i + 1].node.k = "code"
      /\ \A i \in 1 .. n : s[i].do = "lambda" => Off(s[i]) \/ \E j \in i + 1 .. n : Off(s[j])
  BY DEF Sound, Taken, Ends
<1> HIDE DEF n
<1>9. \A i \in 1 .. 1 + n : EntryOK(u[i])
  BY <1>5, <1>6, <1>7, <1>8
<1>10. ASSUME NEW i \in 1 .. 1 + n
       PROVE  /\ u[i].do = "function" => i < 1 + n /\ u[i + 1].do = "body"
              /\ u[i].do = "class" => i < 1 + n /\ u[i + 1].do = "print" /\ u[i + 1].node.k = "code"
  <2>1. CASE i = 1
    <3>1. s # <<>> => i < 1 + n /\ u[i + 1] = s[1]
      <4>1. 1 \in 1 .. n => 1 < 1 + n  BY <1>1
      <4> QED  BY <1>4, <1>6, <2>1, <4>1
    <3> QED  BY <1>5, <2>1, <3>1
  <2>2. ASSUME NEW k \in 1 .. n, i = k + 1
        PROVE  /\ u[i].do = "function" => i < 1 + n /\ u[i + 1].do = "body"
               /\ u[i].do = "class" => i < 1 + n /\ u[i + 1].do = "print" /\ u[i + 1].node.k = "code"
    <3>1. k < n => k + 1 \in 1 .. n /\ i < 1 + n  BY <1>1, <2>2
    <3>2. k < n => u[i + 1] = s[k + 1] /\ i < 1 + n  BY <1>6, <2>2, <3>1
    <3> QED  BY <1>6, <1>8, <2>2, <3>2
  <2> QED  BY <1>7, <2>1, <2>2
<1>11. ASSUME NEW i \in 1 .. 1 + n, u[i].do = "lambda"
       PROVE  Off(u[i]) \/ \E j \in i + 1 .. 1 + n : Off(u[j])
  <2>1. CASE i = 1
    <3>1. ASSUME NEW j \in 1 .. n  PROVE j + 1 \in i + 1 .. 1 + n  BY <1>1, <2>1
    <3> QED  BY <1>5, <1>6, <1>11, <2>1, <3>1 DEF n
  <2>2. ASSUME NEW k \in 1 .. n, i = k + 1
        PROVE  Off(u[i]) \/ \E j \in i + 1 .. 1 + n : Off(u[j])
    <3>1. ASSUME NEW j \in k + 1 .. n  PROVE j \in 1 .. n /\ j + 1 \in i + 1 .. 1 + n  BY <1>1, <2>2
    <3>2. ASSUME NEW j \in k + 1 .. n  PROVE u[j + 1] = s[j] /\ j + 1 \in i + 1 .. 1 + n  BY <1>6, <3>1
    <3> QED  BY <1>6, <1>8, <1>11, <2>2, <3>2
  <2> QED  BY <1>7, <2>1, <2>2
<1>12. Sound(u, a, b)
  BY <1>2, <1>3, <1>9, <1>10, <1>11 DEF Sound, Taken, Ends
<1> QED  BY <1>12 DEF u

LEMMA OneSound ==
  ASSUME NEW e, EntryOK(e), e.do \notin {"function", "class"}, e.do = "lambda" => Off(e),
         NEW a \in Int
  PROVE  Sound(<<e>>, a, a + By(e))
<1>1. By(e) \in Int  BY DEF EntryOK, By
<1>2. a + By(e) \in Int  BY <1>1
<1>3. Sound(<<>>, a + By(e), a + By(e))  BY <1>2, EmptySound
<1>4. Sound(<<e>> \o <<>>, a, a + By(e))  BY <1>3, SoundCons
<1>5. <<e>> \in Seq({e})  OBVIOUS
<1> QED  BY <1>4, <1>5, ConcatEmptySeq

LEMMA SoundTail ==
  ASSUME NEW s, NEW a \in Int, NEW b, Sound(s, a, b), s # <<>>
  PROVE  Sound(Tail(s), a + By(Head(s)), b)
<1> DEFINE n == Len(s)
<1> DEFINE u == Tail(s)
<1>1. /\ IsSeq(u) /\ Len(u) = n - 1 /\ 1 <= n /\ n \in Nat
      /\ \A i \in 1 .. n - 1 : u[i] = s[i + 1]
      /\ Head(s) = s[1]
  BY TailSeq DEF Sound, IsSeq
<1>2. /\ \A i \in 1 .. n : EntryOK(s[i])
      /\ \A i \in 1 .. n : /\ s[i].do = "function" => i < n /\ s[i + 1].do = "body"
                           /\ s[i].do = "class" => i < n /\ s[i + 1].do = "print" /\ s[i + 1].node.k = "code"
      /\ \A i \in 1 .. n : s[i].do = "lambda" => Off(s[i]) \/ \E j \in i + 1 .. n : Off(s[j])
  BY DEF Sound, Taken, Ends
<1>3. PICK d \in [1 .. n + 1 -> Int] :
        d[1] = a /\ d[n + 1] = b /\ \A i \in 1 .. n : d[i + 1] = d[i] + By(s[i])
  BY DEF Sound, Leads
<1> HIDE DEF n, u
<1>4. ASSUME NEW i \in 1 .. n - 1  PROVE i \in 1 .. n /\ i + 1 \in 1 .. n /\ u[i] = s[i + 1]
  BY <1>1
<1>5. Leads(u, a + By(Head(s)), b)
  <2> DEFINE g == [i \in 1 .. (n - 1) + 1 |-> d[i + 1]]
  <2>1. \A i \in 1 .. (n - 1) + 1 : i + 1 \in 1 .. n + 1  BY <1>1
  <2>2. g \in [1 .. (n - 1) + 1 -> Int]  BY <2>1
  <2>3. g[1] = a + By(Head(s))
    <3>1. 1 \in 1 .. (n - 1) + 1 /\ 1 \in 1 .. n  BY <1>1
    <3> QED  BY <1>1, <1>3, <3>1
  <2>4. g[(n - 1) + 1] = b
    <3>1. (n - 1) + 1 \in 1 .. (n - 1) + 1 /\ ((n - 1) + 1) + 1 = n + 1  BY <1>1
    <3> QED  BY <1>3, <3>1
  <2>5. ASSUME NEW i \in 1 .. n - 1  PROVE g[i + 1] = g[i] + By(u[i])
    <3>1. i \in 1 .. (n - 1) + 1 /\ i + 1 \in 1 .. (n - 1) + 1  BY <1>1
    <3>2. g[i] = d[i + 1] /\ g[i + 1] = d[(i + 1) + 1]  BY <3>1
    <3> QED  BY <1>3, <1>4, <3>2
  <2> HIDE DEF g
  <2> QED  BY <1>1, <2>2, <2>3, <2>4, <2>5 DEF Leads
<1>6. \A i \in 1 .. n - 1 : EntryOK(u[i])
  BY <1>2, <1>4
<1>7. ASSUME NEW i \in 1 .. n - 1
      PROVE  /\ u[i].do = "function" => i < n - 1 /\ u[i + 1].do = "body"
             /\ u[i].do = "class" => i < n - 1 /\ u[i + 1].do = "print" /\ u[i + 1].node.k = "code"
  <2>1. i + 1 < n => i + 1 \in 1 .. n - 1 /\ i < n - 1  BY <1>1
  <2>2. i + 1 < n => u[i + 1] = s[(i + 1) + 1] /\ i < n - 1  BY <1>4, <2>1
  <2> QED  BY <1>2, <1>4, <2>2
<1>8. ASSUME NEW i \in 1 .. n - 1, u[i].do = "lambda"
      PROVE  Off(u[i]) \/ \E j \in i + 1 .. n - 1 : Off(u[j])
  <2>1. ASSUME NEW j \in (i + 1) + 1 .. n  PROVE j - 1 \in 1 .. n - 1 /\ j - 1 \in i + 1 .. n - 1 /\ (j - 1) + 1 = j
    BY <1>1
  <2>2. ASSUME NEW j \in (i + 1) + 1 .. n  PROVE u[j - 1] = s[j] /\ j - 1 \in i + 1 .. n - 1  BY <1>4, <2>1
  <2> QED  BY <1>2, <1>4, <1>8, <2>2
<1>9. Sound(u, a + By(Head(s)), b)
  BY <1>1, <1>5, <1>6, <1>7, <1>8 DEF Sound, Taken, Ends
<1> QED  BY <1>9 DEF u

\* From any indentation
LEMMA WholeFrom ==
  ASSUME NEW s, Whole(s), NEW a \in Int
  PROVE  Sound(s, a, a)
<1> DEFINE n == Len(s)
<1>1. n \in Nat  BY DEF Whole, Sound, IsSeq
<1>2. PICK d \in [1 .. n + 1 -> Int] :
        d[1] = 0 /\ d[n + 1] = 0 /\ \A i \in 1 .. n : d[i + 1] = d[i] + By(s[i])
  BY DEF Whole, Sound, Leads
<1>3. \A i \in 1 .. n : By(s[i]) \in Int
  BY DEF Whole, Sound, EntryOK, By
<1> HIDE DEF n
<1> DEFINE g == [i \in 1 .. n + 1 |-> d[i] + a]
<1>4. g \in [1 .. n + 1 -> Int]  OBVIOUS
<1>5. g[1] = a /\ g[n + 1] = a
  <2>1. 1 \in 1 .. n + 1 /\ n + 1 \in 1 .. n + 1  BY <1>1
  <2> QED  BY <1>2, <2>1
<1>6. ASSUME NEW i \in 1 .. n  PROVE g[i + 1] = g[i] + By(s[i])
  <2>1. i \in 1 .. n + 1 /\ i + 1 \in 1 .. n + 1  BY <1>1
  <2>2. d[i] \in Int /\ By(s[i]) \in Int  BY <1>3, <2>1
  <2>3. d[i + 1] = d[i] + By(s[i])  BY <1>2
  <2>4. g[i] = d[i] + a /\ g[i + 1] = d[i + 1] + a  BY <2>1
  <2> HIDE DEF g
  <2> QED  BY <2>2, <2>3, <2>4
<1> HIDE DEF g
<1>7. Leads(s, a, a)  BY <1>4, <1>5, <1>6 DEF Leads, n
<1> QED  BY <1>7 DEF Whole, Sound

-----------------------------------------------------------------------------
(* The words of the printer, and what puts them together *)

LEMMA Regroup ==
  ASSUME NEW p, NEW s, NEW t, IsSeq(p), IsSeq(s), IsSeq(t), Whole(p \o (s \o t))
  PROVE  Whole((p \o s) \o t)
<1>1. (p \o s) \o t = p \o (s \o t)  BY ConcatAssoc
<1> QED  BY <1>1

LEMMA WholeOne ==
  ASSUME NEW e, EntryOK(e), e.do \notin {"function", "class", "indent"}, e.do = "lambda" => Off(e)
  PROVE  Whole(<<e>>)
<1>1. By(e) = 0  BY DEF By
<1>2. Sound(<<e>>, 0, 0 + By(e))  BY OneSound
<1> QED  BY <1>1, <1>2 DEF Whole

LEMMA WholeWords ==
  /\ Whole(<<>>) /\ Whole(EndLine) /\ Whole(NewLine) /\ Whole(Printed) /\ Whole(Crash)
  /\ \A t : Whole(Text(t))
  /\ \A d : Whole(StartLine(d))
  /\ \A b : Whole(Warning(b))
  /\ Whole(InLambda(FALSE))
<1>1. Whole(<<>>)  BY EmptySound DEF Whole
<1>2. Whole(EndLine) /\ Whole(NewLine) /\ Whole(Printed) /\ Whole(Crash)
  BY WholeOne DEF EndLine, NewLine, Printed, Crash, EntryOK
<1>3. ASSUME NEW t  PROVE Whole(Text(t))  BY WholeOne DEF Text, EntryOK
<1>4. ASSUME NEW d  PROVE Whole(StartLine(d))  BY WholeOne DEF StartLine, EntryOK
<1>5. ASSUME NEW b  PROVE Whole(Warning(b))  BY WholeOne DEF Warning, EntryOK
<1>6. Whole(InLambda(FALSE))  BY WholeOne DEF InLambda, EntryOK, Off
<1> QED  BY <1>1, <1>2, <1>3, <1>4, <1>5, <1>6

LEMMA WholePrint ==
  ASSUME NEW n, WellFormed(n)
  PROVE  Whole(PrintSrc(n))
BY WholeOne DEF PrintSrc, EntryOK

LEMMA WholeNode ==
  ASSUME NEW n \in Nodes
  PROVE  WellFormed(n) /\ Whole(PrintSrc(n))
BY NodesAssumption, WholePrint

LEMMA WholeBody ==
  ASSUME NEW c, IsCode(c), NEW on \in BOOLEAN
  PROVE  Whole(LambdaBody(c, on))
BY WholeOne DEF LambdaBody, EntryOK

LEMMA WholeCode ==
  ASSUME NEW c, IsCode(c)
  PROVE  WellFormed(Code(c)) /\ Whole(PrintSrc(Code(c)))
<1>1. WellFormed(Code(c))  BY DEF WellFormed, Code
<1> QED  BY <1>1, WholePrint

LEMMA Concat ==
  ASSUME NEW s, NEW t, Whole(s), Whole(t)
  PROVE  Whole(s \o t)
BY SoundConcat DEF Whole

LEMMA IndentSound ==
  ASSUME NEW a \in Int, NEW by \in Int
  PROVE  Sound(Indent(by), a, a + by)
<1> DEFINE e == [do |-> "indent", by |-> by]
<1>1. EntryOK(e) /\ By(e) = by  BY DEF EntryOK, By
<1>2. e.do = "indent"  OBVIOUS
<1> HIDE DEF e
<1>3. Sound(<<e>>, a, a + By(e))  BY <1>1, <1>2, OneSound
<1> QED  BY <1>1, <1>3 DEF Indent, e

\* what is indented further in comes back
LEMMA Indented ==
  ASSUME NEW p, NEW s, Whole(p), Whole(s)
  PROVE  Whole(p \o Indent(1) \o s \o Indent(-1)) /\ Whole(Indent(1) \o s \o Indent(-1))
<1>1. Sound(Indent(1), 0, 1)
  <2>1. Sound(Indent(1), 0, 0 + 1)  BY IndentSound
  <2> QED  BY <2>1
<1>2. Sound(Indent(-1), 1, 0)
  <2>1. Sound(Indent(-1), 1, 1 + (-1))  BY IndentSound
  <2>2. 1 + (-1) = 0  OBVIOUS
  <2> QED  BY <2>1, <2>2
<1>3. Sound(s, 1, 1)  BY WholeFrom
<1>4. Sound(p, 0, 0)  BY DEF Whole
<1>5. Sound(p \o Indent(1), 0, 1)  BY <1>1, <1>4, SoundConcat
<1>6. Sound(p \o Indent(1) \o s, 0, 1)  BY <1>3, <1>5, SoundConcat
<1>7. Sound(Indent(1) \o s, 0, 1)  BY <1>1, <1>3, SoundConcat
<1> QED  BY <1>2, <1>6, <1>7, SoundConcat DEF Whole

LEMMA WholeCons ==
  ASSUME NEW e, EntryOK(e), e.do # "indent", NEW s, Whole(s),
         e.do = "function" => s # <<>> /\ s[1].do = "body",
         e.do = "class" => s # <<>> /\ s[1].do = "print" /\ s[1].node.k = "code",
         e.do = "lambda" => Off(e) \/ \E j \in 1 .. Len(s) : Off(s[j])
  PROVE  Whole(<<e>> \o s)
<1>1. By(e) = 0 /\ 0 + By(e) = 0  BY DEF By
<1> QED  BY <1>1, SoundCons DEF Whole

\* inLambda is set for the printing of one code object
LEMMA InLambdaAround ==
  ASSUME NEW p, NEW s, Whole(p), Whole(s)
  PROVE  Whole(p \o InLambda(TRUE) \o s \o InLambda(FALSE))
<1> DEFINE off == InLambda(FALSE)
<1> DEFINE e == [do |-> "lambda", on |-> TRUE]
<1>1. Whole(off) /\ IsSeq(off) /\ Len(off) = 1 /\ Off(off[1])
  BY WholeWords, OneIsSeq DEF InLambda, Off
<1>2. IsSeq(s) /\ IsSeq(p) /\ Len(s) \in Nat  BY DEF Whole, Sound, IsSeq
<1>3. Whole(s \o off)  BY <1>1, Concat
<1> HIDE DEF off
<1>4. Len(s) + 1 \in 1 .. Len(s \o off) /\ (s \o off)[Len(s) + 1] = off[1]
  <2>1. /\ Len(s \o off) = Len(s) + 1
        /\ \A i \in 1 .. Len(s) + 1 : (s \o off)[i] = IF i <= Len(s) THEN s[i] ELSE off[i - Len(s)]
    BY <1>1, <1>2, ConcatSeq
  <2>2. Len(s) + 1 \in 1 .. Len(s) + 1 /\ ~(Len(s) + 1 <= Len(s)) /\ (Len(s) + 1) - Len(s) = 1  BY <1>2
  <2> QED  BY <2>1, <2>2
<1>5. \E j \in 1 .. Len(s \o off) : Off((s \o off)[j])
  BY <1>1, <1>4
<1>6. EntryOK(e) /\ e.do = "lambda"  BY DEF EntryOK
<1> HIDE DEF e
<1>7. e.do \notin {"indent", "function", "class"}  BY <1>6
<1>8. Whole(<<e>> \o (s \o off))  BY <1>3, <1>5, <1>6, <1>7, WholeCons
<1>9. Whole(p \o (<<e>> \o (s \o off)))  BY <1>8, Concat
<1> DEFINE on == <<e>>
<1>10. IsSeq(on)  BY OneIsSeq
<1>11. Whole(p \o (on \o (s \o off)))  BY <1>9
<1> HIDE DEF on
<1>12. IsSeq(s \o off) /\ IsSeq(p \o on)
  BY <1>1, <1>2, <1>10, ConcatSeq
<1>13. Whole((p \o on) \o (s \o off))
  BY Zenon, <1>2, <1>10, <1>11, <1>12, Regroup
<1>14. Whole(((p \o on) \o s) \o off)
  BY Zenon, <1>1, <1>2, <1>12, <1>13, Regroup
<1>15. on = InLambda(TRUE)
  BY DEF on, e, InLambda
<1> QED  BY Zenon, <1>14, <1>15 DEF off

\* the flag of a function or class is set right before its code object
LEMMA FlagBefore ==
  ASSUME NEW p, Whole(p), NEW c, IsCode(c), NEW on \in BOOLEAN
  PROVE  Whole(p \o OfFunction \o LambdaBody(c, on)) /\ Whole(p \o OfClass \o PrintSrc(Code(c)))
<1>1. IsSeq(p)  BY DEF Whole, Sound
<1>2. Whole(p \o OfFunction \o LambdaBody(c, on))
  <2> DEFINE e == [do |-> "function"]
  <2> DEFINE s == LambdaBody(c, on)
  <2>1. IsSeq(s) /\ Len(s) = 1 /\ s[1].do = "body"  BY OneIsSeq DEF LambdaBody
  <2>2. EntryOK(e) /\ e.do = "function"  BY DEF EntryOK
  <2>3. Whole(s)  BY WholeBody
  <2> HIDE DEF e, s
  <2>4. Len(s) # 0  BY <2>1
  <2>5. s # <<>>  BY Zenon, <2>1, <2>4, EmptyIsSeq
  <2>6. Whole(<<e>> \o s)  BY <2>1, <2>2, <2>3, <2>5, WholeCons
  <2> DEFINE flag == <<e>>
  <2>7. IsSeq(flag)  BY OneIsSeq
  <2>8. Whole(p \o (flag \o s))  BY <2>6, Concat
  <2> HIDE DEF flag
  <2>9. Whole((p \o flag) \o s)  BY Zenon, <1>1, <2>1, <2>7, <2>8, Regroup
  <2>10. flag = OfFunction  BY DEF flag, e, OfFunction
  <2> QED  BY Zenon, <2>9, <2>10 DEF s
<1>3. Whole(p \o OfClass \o PrintSrc(Code(c)))
  <2> DEFINE e == [do |-> "class"]
  <2> DEFINE s == PrintSrc(Code(c))
  <2>1. IsSeq(s) /\ Len(s) = 1 /\ s[1].do = "print" /\ s[1].node.k = "code"  BY OneIsSeq DEF PrintSrc, Code
  <2>2. EntryOK(e) /\ e.do = "class"  BY DEF EntryOK
  <2>3. Whole(s)  BY WholeCode
  <2> HIDE DEF e, s
  <2>4. Len(s) # 0  BY <2>1
  <2>5. s # <<>>  BY Zenon, <2>1, <2>4, EmptyIsSeq
  <2>6. Whole(<<e>> \o s)  BY <2>1, <2>2, <2>3, <2>5, WholeCons
  <2> DEFINE flag == <<e>>
  <2>7. IsSeq(flag)  BY OneIsSeq
  <2>8. Whole(p \o (flag \o s))  BY <2>6, Concat
  <2> HIDE DEF flag
  <2>9. Whole((p \o flag) \o s)  BY Zenon, <1>1, <2>1, <2>7, <2>8, Regroup
  <2>10. flag = OfClass  BY DEF flag, e, OfClass
  <2> QED  BY Zenon, <2>9, <2>10 DEF s
<1> QED  BY <1>2, <1>3

-----------------------------------------------------------------------------
(* Lists of parts *)

AllWhole(parts) == IsSeq(parts) /\ \A i \in 1 .. Len(parts) : Whole(parts[i])

LEMMA FlattenFunction ==
  ASSUME NEW parts, IsSeq(parts), parts # <<>>
  PROVE  \E f : /\ f = [i \in 1 .. Len(parts) |-> IF i = 1 THEN parts[i] ELSE f[i - 1] \o parts[i]]
                /\ FlattenSeq(parts) = f[Len(parts)]
<1> DEFINE m == Len(parts)
<1> DEFINE Up(f, n) == f = [i \in 1 .. n |-> IF i = 1 THEN parts[i] ELSE f[i - 1] \o parts[i]]
<1>1. m \in Nat /\ m # 0  BY EmptyIsSeq DEF IsSeq
<1> HIDE DEF m
<1> DEFINE S == {n \in Nat : \E f : Up(f, n)}
<1>2. 0 \in S
  <2> DEFINE f == [i \in 1 .. 0 |-> 0]
  <2>1. \A i \in 1 .. 0 : FALSE  OBVIOUS
  <2>2. Up(f, 0)  BY <2>1
  <2> QED  BY <2>2
<1>3. ASSUME NEW n \in Nat, n \in S  PROVE n + 1 \in S
  <2>1. PICK f : Up(f, n)  BY <1>3
  <2> DEFINE g == [i \in 1 .. n + 1 |-> IF i = n + 1 THEN (IF i = 1 THEN parts[i] ELSE f[i - 1] \o parts[i]) ELSE f[i]]
  <2>2. ASSUME NEW i \in 1 .. n + 1
        PROVE  g[i] = IF i = 1 THEN parts[i] ELSE g[i - 1] \o parts[i]
    <3>1. i # 1 => i - 1 \in 1 .. n + 1 /\ i - 1 # n + 1 /\ i - 1 \in 1 .. n  OBVIOUS
    <3>2. i # 1 => g[i - 1] = f[i - 1]  BY <3>1
    <3>3. CASE i = n + 1  BY <3>2, <3>3
    <3>4. CASE i # n + 1
      <4>1. i \in 1 .. n  BY <3>4
      <4>2. f[i] = IF i = 1 THEN parts[i] ELSE f[i - 1] \o parts[i]  BY <2>1, <4>1
      <4> QED  BY <3>2, <3>4, <4>2
    <3> QED  BY <3>3, <3>4
  <2>3. Up(g, n + 1)
    <3>1. g = [i \in 1 .. n + 1 |-> g[i]]  OBVIOUS
    <3> HIDE DEF g
    <3> QED  BY <2>2, <3>1
  <2> HIDE DEF g, Up
  <2>4. n + 1 \in Nat /\ \E x : Up(x, n + 1)  BY <2>3
  <2> QED  BY Zenon, <2>4
<1>4. \E f : Up(f, m)
  <2> HIDE DEF S
  <2>1. Nat \subseteq S  BY <1>2, <1>3, SetInduction
  <2>2. m \in S  BY <1>1, <2>1
  <2> QED  BY <2>2 DEF S
<1> DEFINE h == CHOOSE f : Up(f, m)
<1>5. Up(h, m)  BY <1>4
<1>6. FlattenSeq(parts) = h[m]
  BY <1>1 DEF FlattenSeq, m
<1> QED  BY <1>5, <1>6 DEF m

LEMMA WholeFlatten ==
  ASSUME NEW parts, AllWhole(parts)
  PROVE  Whole(FlattenSeq(parts))
<1> DEFINE m == Len(parts)
<1>1. IsSeq(parts) /\ m \in Nat  BY DEF AllWhole, IsSeq
<1>2. CASE m = 0
  <2>1. FlattenSeq(parts) = parts  BY <1>2 DEF FlattenSeq
  <2>2. parts = <<>>  BY <1>1, <1>2, EmptyIsSeq
  <2> QED  BY <2>1, <2>2, WholeWords
<1>3. CASE m # 0
  <2>1. parts # <<>>  BY <1>1, <1>3, EmptyIsSeq
  <2>2. PICK f : /\ f = [i \in 1 .. m |-> IF i = 1 THEN parts[i] ELSE f[i - 1] \o parts[i]]
                 /\ FlattenSeq(parts) = f[m]
    BY <1>1, <2>1, FlattenFunction
  <2>3. \A i \in 1 .. m : Whole(parts[i])  BY DEF AllWhole
  <2> HIDE DEF m
  <2>4. \A i \in 1 .. m : f[i] = IF i = 1 THEN parts[i] ELSE f[i - 1] \o parts[i]  BY <2>2
  <2> DEFINE S == {n \in Nat : n + 1 \in 1 .. m => Whole(f[n + 1])}
  <2>5. 0 \in S
    <3>1. 0 + 1 = 1  OBVIOUS
    <3> QED  BY <2>3, <2>4, <3>1
  <2>6. ASSUME NEW n \in Nat, n \in S  PROVE n + 1 \in S
    <3> SUFFICES ASSUME (n + 1) + 1 \in 1 .. m  PROVE Whole(f[(n + 1) + 1])
      OBVIOUS
    <3>1. n + 1 \in 1 .. m /\ (n + 1) + 1 # 1 /\ ((n + 1) + 1) - 1 = n + 1  BY <1>1
    <3>2. f[(n + 1) + 1] = f[n + 1] \o parts[(n + 1) + 1]  BY <2>4, <3>1
    <3>3. Whole(f[n + 1]) /\ Whole(parts[(n + 1) + 1])  BY <2>3, <2>6, <3>1
    <3> QED  BY <3>2, <3>3, Concat
  <2>7. m - 1 \in Nat /\ (m - 1) + 1 = m /\ m \in 1 .. m  BY <1>1, <1>3
  <2>8. m - 1 \in S
    <3> HIDE DEF S
    <3>1. Nat \subseteq S  BY <2>5, <2>6, SetInduction
    <3> QED  BY <2>7, <3>1
  <2> QED  BY <2>2, <2>7, <2>8
<1> QED  BY <1>2, <1>3

LEMMA AllOf ==
  ASSUME NEW n \in Nat, NEW f, f = [i \in 1 .. n |-> f[i]], \A i \in 1 .. n : Whole(f[i])
  PROVE  AllWhole(f)
BY FcnIsSeq DEF AllWhole

LEMMA AllConcat ==
  ASSUME NEW p, NEW q, AllWhole(p), AllWhole(q)
  PROVE  AllWhole(p \o q)
<1>1. IsSeq(p) /\ IsSeq(q) /\ Len(p) \in Nat /\ Len(q) \in Nat  BY DEF AllWhole, IsSeq
<1>2. /\ IsSeq(p \o q) /\ Len(p \o q) = Len(p) + Len(q)
      /\ \A i \in 1 .. Len(p) + Len(q) : (p \o q)[i] = IF i <= Len(p) THEN p[i] ELSE q[i - Len(p)]
  BY <1>1, ConcatSeq
<1>3. ASSUME NEW i \in 1 .. Len(p) + Len(q)  PROVE Whole((p \o q)[i])
  <2>1. i <= Len(p) => i \in 1 .. Len(p)  BY <1>1
  <2>2. ~(i <= Len(p)) => i - Len(p) \in 1 .. Len(q)  BY <1>1
  <2> QED  BY <1>2, <2>1, <2>2 DEF AllWhole
<1> QED  BY <1>2, <1>3 DEF AllWhole

LEMMA AllOne ==
  ASSUME NEW s, Whole(s)
  PROVE  AllWhole(<<s>>) /\ AllWhole(<<>>)
<1>1. IsSeq(<<s>>) /\ Len(<<s>>) = 1 /\ <<s>>[1] = s  BY OneIsSeq
<1>2. \A i \in 1 .. Len(<<s>>) : i = 1  BY <1>1
<1>3. IsSeq(<<>>) /\ \A i \in 1 .. Len(<<>>) : FALSE  BY EmptyIsSeq
<1> QED  BY <1>1, <1>2, <1>3 DEF AllWhole

LEMMA WholeJoined ==
  ASSUME NEW parts, AllWhole(parts), NEW separator, Whole(separator)
  PROVE  Whole(Joined(parts, separator)) /\ Whole(Commas(parts))
<1>1. ASSUME NEW sep, Whole(sep)  PROVE Whole(Joined(parts, sep))
  <2> DEFINE f == [i \in DOMAIN parts |-> Opt(i > 1, sep) \o parts[i]]
  <2>1. Len(parts) \in Nat /\ DOMAIN parts = 1 .. Len(parts)  BY DEF AllWhole, IsSeq
  <2>2. ASSUME NEW i \in 1 .. Len(parts)  PROVE Whole(f[i])
    <3>1. Whole(Opt(i > 1, sep))  BY <1>1, WholeWords DEF Opt
    <3>2. Whole(Opt(i > 1, sep) \o parts[i])  BY <3>1, Concat DEF AllWhole
    <3> QED  BY <2>1, <3>2
  <2>3. f = [i \in 1 .. Len(parts) |-> f[i]]  BY <2>1
  <2> HIDE DEF f
  <2>4. AllWhole(f)  BY <2>1, <2>2, <2>3, AllOf
  <2>5. Whole(FlattenSeq(f))  BY <2>4, WholeFlatten
  <2> QED  BY <2>5 DEF Joined, f
<1> QED  BY <1>1, WholeWords DEF Commas

-----------------------------------------------------------------------------
(* The invariant: while nothing was thrown, what is left of todo leads     *)
(* back to the start.                                                      *)

LambdaEnds(s, on) == on => \E j \in 1 .. Len(s) : Off(s[j])

EndsPrinted(s) == s # <<>> /\ s[Len(s)].do = "printed"

Remaining ==
  /\ Sound(todo, cur_indent, -1)
  /\ LambdaEnds(todo, inLambda)
  /\ todo = <<>> => cleanBuild
  /\ todo # <<>> => EndsPrinted(todo) \/ (Len(todo) = 1 /\ Printing("code"))
  /\ FlagsArrive

IInv ==
  /\ cur_indent \in Int /\ inLambda \in BOOLEAN /\ threw \in BOOLEAN
  /\ threw => todo = <<>> /\ ~printDocstringAndGlobals /\ ~printClassDocstring
  /\ ~threw => Remaining

LEMMA InitInv ==
  ASSUME Init
  PROVE  IInv
<1>1. IsCode(module)  BY NodesAssumption DEF Init
<1>2. Whole(todo)  BY <1>1, WholeCode DEF Init
<1>3. cur_indent = -1 /\ -1 \in Int  BY DEF Init
<1>4. Sound(todo, cur_indent, -1)  BY <1>2, <1>3, WholeFrom
<1>5. todo # <<>> /\ Len(todo) = 1 /\ Printing("code")
  <2>1. IsSeq(todo) /\ Len(todo) = 1 /\ todo[1] = [do |-> "print", node |-> Code(module)]
    BY OneIsSeq DEF Init, PrintSrc
  <2>2. todo # <<>>  BY <2>1, EmptyIsSeq
  <2>3. Head(todo) = todo[1]  BY <2>1, <2>2, TailSeq
  <2>4. Head(todo).do = "print" /\ Head(todo).node.k = "code"  BY <2>1, <2>3 DEF Code
  <2> QED  BY <2>1, <2>2, <2>4 DEF Printing, Doing, node, entry
<1>6. FlagsArrive  BY <1>5 DEF Init, FlagsArrive
<1> QED  BY <1>3, <1>4, <1>5, <1>6 DEF Init, IInv, Remaining, LambdaEnds

LEMMA Behind ==
  ASSUME NEW s, IsSeq(s), NEW t, IsSeq(t)
  PROVE  /\ \A on : LambdaEnds(t, on) => LambdaEnds(s \o t, on)
         /\ EndsPrinted(t) => EndsPrinted(s \o t)
<1> DEFINE n == Len(s)
<1> DEFINE m == Len(t)
<1> DEFINE u == s \o t
<1>1. n \in Nat /\ m \in Nat  BY DEF IsSeq
<1>2. IsSeq(u) /\ Len(u) = n + m /\ \A i \in 1 .. n + m : u[i] = IF i <= n THEN s[i] ELSE t[i - n]
  BY ConcatSeq
<1>3. t # <<>> => m # 0  BY EmptyIsSeq
<1> HIDE DEF n, m, u
<1>4. ASSUME NEW j \in 1 .. m  PROVE n + j \in 1 .. n + m /\ u[n + j] = t[j]
  <2>1. n + j \in 1 .. n + m /\ ~(n + j <= n) /\ (n + j) - n = j  BY <1>1
  <2> QED  BY <1>2, <2>1
<1>5. ASSUME NEW on, LambdaEnds(t, on)  PROVE LambdaEnds(u, on)
  <2> SUFFICES ASSUME on  PROVE \E j \in 1 .. n + m : Off(u[j])
    BY <1>2 DEF LambdaEnds
  <2>1. PICK j \in 1 .. m : Off(t[j])  BY <1>5 DEF LambdaEnds, m
  <2> QED  BY <1>4, <2>1
<1>6. ASSUME EndsPrinted(t)  PROVE EndsPrinted(u)
  <2>1. t # <<>> /\ t[m].do = "printed"  BY <1>6 DEF EndsPrinted, m
  <2>2. m \in 1 .. m /\ n + m # 0  BY <1>1, <1>3, <2>1
  <2>3. u[n + m] = t[m]  BY <1>4, <2>2
  <2>4. u # <<>>  BY <1>2, <2>2, EmptyIsSeq
  <2> QED  BY <1>2, <2>1, <2>3, <2>4 DEF EndsPrinted
<1> QED  BY <1>5, <1>6 DEF u

\* What is left when the first entry is taken
LEMMA Took ==
  ASSUME IInv, todo # <<>>
  PROVE  /\ ~threw /\ Remaining
         /\ IsSeq(todo) /\ IsSeq(Tail(todo)) /\ EntryOK(entry)
         /\ By(entry) \in Int
         /\ Sound(Tail(todo), cur_indent + By(entry), -1)
         /\ entry.do # "lambda" => LambdaEnds(Tail(todo), inLambda)
         /\ entry.do = "lambda" => LambdaEnds(Tail(todo), entry.on)
         /\ entry.do = "function" => Tail(todo) # <<>> /\ Head(Tail(todo)).do = "body"
         /\ entry.do = "class" => /\ Tail(todo) # <<>> /\ Head(Tail(todo)).do = "print"
                                  /\ Head(Tail(todo)).node.k = "code"
         /\ Tail(todo) = <<>> => entry.do = "printed" \/ Printing("code")
         /\ Tail(todo) # <<>> => EndsPrinted(Tail(todo))
<1> DEFINE n == Len(todo)
<1> DEFINE u == Tail(todo)
<1>1. ~threw /\ Remaining /\ cur_indent \in Int  BY DEF IInv
<1>2. IsSeq(todo) /\ Sound(todo, cur_indent, -1)  BY <1>1 DEF Remaining, Sound
<1>3. /\ IsSeq(u) /\ Len(u) = n - 1 /\ 1 <= n /\ n \in Nat
      /\ \A i \in 1 .. n - 1 : u[i] = todo[i + 1]
      /\ entry = todo[1]
  BY <1>2, TailSeq DEF entry, IsSeq
<1>4. 1 \in 1 .. n  BY <1>3
<1>5. EntryOK(entry)  BY <1>2, <1>3, <1>4 DEF Sound
<1>6. By(entry) \in Int  BY <1>5 DEF By, EntryOK
<1>7. Sound(u, cur_indent + By(entry), -1)  BY <1>1, <1>2, SoundTail DEF entry
<1>8. u # <<>> => n - 1 # 0 /\ n - 1 \in 1 .. n - 1 /\ 1 \in 1 .. n - 1 /\ 1 < n /\ (n - 1) + 1 = n
  <2>1. u # <<>> => n - 1 # 0  BY <1>3, EmptyIsSeq
  <2> QED  BY <1>3, <2>1
<1>9. u = <<>> => n = 1
  <2>1. u = <<>> => n - 1 = 0  BY <1>3, EmptyIsSeq
  <2> QED  BY <1>3, <2>1
<1>10. 1 < n => u # <<>> /\ Head(u) = todo[2]
  <2>1. 1 < n => u # <<>>  BY <1>9, <1>3
  <2>2. u # <<>> => Head(u) = u[1]  BY <1>3, TailSeq
  <2>3. u # <<>> => u[1] = todo[1 + 1]  BY <1>3, <1>8
  <2>4. 1 + 1 = 2  OBVIOUS
  <2> QED  BY <2>1, <2>2, <2>3, <2>4
<1>11. /\ todo[1].do = "function" => 1 < n /\ todo[1 + 1].do = "body"
       /\ todo[1].do = "class" => 1 < n /\ todo[1 + 1].do = "print" /\ todo[1 + 1].node.k = "code"
       /\ todo[1].do = "lambda" => Off(todo[1]) \/ \E j \in 1 + 1 .. n : Off(todo[j])
  BY <1>2, <1>4 DEF Sound, Taken, Ends
<1>12. ASSUME NEW j \in 1 + 1 .. n  PROVE j - 1 \in 1 .. n - 1 /\ u[j - 1] = todo[j]
  <2>1. j - 1 \in 1 .. n - 1 /\ (j - 1) + 1 = j  BY <1>3
  <2> QED  BY <1>3, <2>1
<1>13. \A j \in 1 .. n : j = 1 \/ j \in 1 + 1 .. n  BY <1>3
<1> HIDE DEF n, u
<1>14. entry.do # "lambda" => LambdaEnds(u, inLambda)
  <2> SUFFICES ASSUME entry.do # "lambda", inLambda  PROVE \E k \in 1 .. n - 1 : Off(u[k])
    BY <1>3 DEF LambdaEnds
  <2>1. PICK j \in 1 .. n : Off(todo[j])  BY <1>1 DEF Remaining, LambdaEnds, n
  <2>2. j # 1  BY <1>3, <2>1 DEF Off
  <2> QED  BY <1>12, <1>13, <2>1, <2>2
<1>15. entry.do = "lambda" => LambdaEnds(u, entry.on)
  <2> SUFFICES ASSUME entry.do = "lambda", entry.on  PROVE \E k \in 1 .. n - 1 : Off(u[k])
    BY <1>3 DEF LambdaEnds
  <2>1. PICK j \in 1 + 1 .. n : Off(todo[j])  BY <1>3, <1>11 DEF Off
  <2> QED  BY <1>12, <2>1
<1>16. u # <<>> => EndsPrinted(u)
  <2> SUFFICES ASSUME u # <<>>  PROVE EndsPrinted(u)
    OBVIOUS
  <2>1. n # 1 /\ todo[n].do = "printed"
    <3>1. n # 1  BY <1>3, <1>8
    <3> QED  BY <1>1, <3>1 DEF Remaining, EndsPrinted, n
  <2>2. u[n - 1] = todo[n]  BY <1>3, <1>8
  <2> QED  BY <1>3, <2>1, <2>2 DEF EndsPrinted
<1>17. u = <<>> => entry.do = "printed" \/ Printing("code")
  BY <1>1, <1>3, <1>9 DEF Remaining, EndsPrinted, n
<1>18. /\ entry.do = "function" => u # <<>> /\ Head(u).do = "body"
       /\ entry.do = "class" => u # <<>> /\ Head(u).do = "print" /\ Head(u).node.k = "code"
  BY <1>3, <1>10, <1>11
<1> QED  BY <1>1, <1>2, <1>3, <1>5, <1>6, <1>7, <1>14, <1>15, <1>16, <1>17, <1>18 DEF u

\* The flags are only set in front of what takes them
LEMMA NoFlags ==
  ASSUME IInv, todo # <<>>, entry.do # "body", ~Printing("code")
  PROVE  ~printDocstringAndGlobals /\ ~printClassDocstring
BY DEF IInv, Remaining, FlagsArrive, Doing, entry

\* An entry is taken
LEMMA Popped ==
  ASSUME IInv, todo # <<>>, entry.do \notin {"printed", "lambda"}, ~Printing("code"),
         todo' = Tail(todo), cur_indent' = cur_indent + By(entry),
         inLambda' = inLambda, threw' = threw, FlagsArrive'
  PROVE  IInv'
<1>1. /\ ~threw /\ By(entry) \in Int /\ cur_indent \in Int /\ inLambda \in BOOLEAN
      /\ Sound(Tail(todo), cur_indent + By(entry), -1)
      /\ LambdaEnds(Tail(todo), inLambda)
      /\ Tail(todo) # <<>> /\ EndsPrinted(Tail(todo))
  BY Took DEF IInv
<1>2. cur_indent' \in Int  BY <1>1
<1>3. Remaining'  BY <1>1 DEF Remaining
<1> QED  BY <1>1, <1>2, <1>3 DEF IInv

\* An entry is replaced
LEMMA Expanded ==
  ASSUME IInv, todo # <<>>, By(entry) = 0, entry.do # "lambda",
         NEW s, Whole(s), Tail(todo) = <<>> => EndsPrinted(s),
         todo' = s \o Tail(todo), UNCHANGED <<cur_indent, inLambda, threw>>,
         FlagsArrive'
  PROVE  IInv'
<1>1. /\ ~threw /\ cur_indent \in Int /\ inLambda \in BOOLEAN
      /\ Sound(Tail(todo), cur_indent, -1)
      /\ LambdaEnds(Tail(todo), inLambda)
      /\ IsSeq(Tail(todo)) /\ IsSeq(s)
      /\ Tail(todo) # <<>> => EndsPrinted(Tail(todo))
  <2>1. cur_indent \in Int /\ inLambda \in BOOLEAN /\ IsSeq(s)  BY DEF IInv, Whole, Sound
  <2>2. cur_indent + By(entry) = cur_indent  BY <2>1
  <2> QED  BY <2>1, <2>2, Took
<1>2. Sound(todo', cur_indent, -1)  BY <1>1, WholeFrom, SoundConcat
<1>3. LambdaEnds(todo', inLambda)  BY <1>1, Behind
<1>4. EndsPrinted(todo')
  <2>1. CASE Tail(todo) # <<>>  BY <1>1, <2>1, Behind
  <2>2. CASE Tail(todo) = <<>>
    <3>1. EndsPrinted(s)  BY <2>2
    <3>2. s \in Seq({s[i] : i \in 1 .. Len(s)})  BY <1>1, IsSeqElements
    <3>3. s \o <<>> = s  BY <3>2, ConcatEmptySeq
    <3> QED  BY <2>2, <3>1, <3>3
  <2> QED  BY <2>1, <2>2
<1>5. todo' # <<>>  BY <1>4 DEF EndsPrinted
<1>6. Remaining'  BY <1>2, <1>3, <1>4, <1>5 DEF Remaining
<1> QED  BY <1>1, <1>6 DEF IInv

\* print_src of a node that is no code object
LEMMA Became ==
  ASSUME IInv, Doing("print"), node.k # "code", NEW s, Whole(s), Become(s)
  PROVE  IInv'
<1>1. todo # <<>> /\ entry.do = "print" /\ ~Printing("code")  BY DEF Doing, Printing, entry
<1>2. ~printDocstringAndGlobals /\ ~printClassDocstring  BY <1>1, NoFlags
<1>3. FlagsArrive'  BY <1>2 DEF Become, Keeps, flags, FlagsArrive
<1>4. Whole(s \o Printed)  BY WholeWords, Concat
<1>5. EndsPrinted(s \o Printed)
  <2>1. IsSeq(s) /\ IsSeq(Printed) /\ EndsPrinted(Printed)
    <3>1. IsSeq(Printed) /\ Len(Printed) = 1 /\ Printed[1].do = "printed"  BY OneIsSeq DEF Printed
    <3>2. Printed # <<>>  BY <3>1, EmptyIsSeq
    <3> QED  BY <3>1, <3>2 DEF EndsPrinted, Whole, Sound
  <2> QED  BY <2>1, Behind
<1>6. By(entry) = 0 /\ entry.do # "lambda"  BY <1>1 DEF By
<1>7. todo' = (s \o Printed) \o Tail(todo) /\ UNCHANGED <<cur_indent, inLambda, threw>>
  BY DEF Become, Keeps, flags
<1> QED  BY <1>1, <1>3, <1>4, <1>5, <1>6, <1>7, Expanded

-----------------------------------------------------------------------------
(* Parts of the text *)

LEMMA Mapped ==
  ASSUME NEW nodes \in Seq(Nodes), NEW f, f = [i \in DOMAIN nodes |-> f[i]],
         \A i \in 1 .. Len(nodes) : nodes[i] \in Nodes /\ Whole(PrintSrc(nodes[i])) => Whole(f[i])
  PROVE  AllWhole(f)
<1>1. Len(nodes) \in Nat /\ DOMAIN nodes = 1 .. Len(nodes)  BY LenProperties
<1>2. ASSUME NEW i \in 1 .. Len(nodes)  PROVE Whole(f[i])
  <2>1. nodes[i] \in Nodes  BY ElementOfSeq
  <2> QED  BY <2>1, WholeNode
<1> QED  BY <1>1, <1>2, AllOf

LEMMA EachWhole ==
  ASSUME NEW nodes \in Seq(Nodes)
  PROVE  AllWhole(Each(nodes)) /\ \A stars : AllWhole(Starred(stars, nodes))
<1>1. AllWhole(Each(nodes))
  <2> DEFINE f == Each(nodes)
  <2>1. f = [i \in DOMAIN nodes |-> f[i]]  BY DEF Each
  <2>2. ASSUME NEW i \in 1 .. Len(nodes), Whole(PrintSrc(nodes[i]))  PROVE Whole(f[i])
    <3>1. i \in DOMAIN nodes  BY LenProperties
    <3> QED  BY <2>2, <3>1 DEF Each
  <2> HIDE DEF f
  <2>3. AllWhole(f)  BY <2>1, <2>2, Mapped
  <2> QED  BY <2>3 DEF f
<1>2. ASSUME NEW stars  PROVE AllWhole(Starred(stars, nodes))
  <2> DEFINE f == Starred(stars, nodes)
  <2>1. f = [i \in DOMAIN nodes |-> f[i]]  BY DEF Starred
  <2>2. ASSUME NEW i \in 1 .. Len(nodes), Whole(PrintSrc(nodes[i]))  PROVE Whole(f[i])
    <3>1. i \in DOMAIN nodes  BY LenProperties
    <3>2. Whole(Text(stars) \o PrintSrc(nodes[i]))  BY <2>2, WholeWords, Concat
    <3> QED  BY <3>1, <3>2 DEF Starred
  <2> HIDE DEF f
  <2>3. AllWhole(f)  BY <2>1, <2>2, Mapped
  <2> QED  BY <2>3 DEF f
<1> QED  BY <1>1, <1>2

LEMMA KeywordsWhole ==
  ASSUME NEW pairs \in Seq(STRING \X Nodes)
  PROVE  AllWhole(Keywords(pairs))
<1> DEFINE f == Keywords(pairs)
<1>1. Len(pairs) \in Nat /\ DOMAIN pairs = 1 .. Len(pairs)  BY LenProperties
<1>2. ASSUME NEW i \in 1 .. Len(pairs)  PROVE Whole(f[i])
  <2>1. pairs[i][2] \in Nodes  BY ElementOfSeq
  <2>2. Whole(PrintSrc(pairs[i][2]))  BY <2>1, WholeNode
  <2>3. Whole(Text(pairs[i][1]) \o Text("=") \o PrintSrc(pairs[i][2]))  BY <2>2, WholeWords, Concat
  <2> QED  BY <1>1, <2>3 DEF Keywords
<1>3. f = [i \in 1 .. Len(pairs) |-> f[i]]  BY <1>1 DEF Keywords
<1> HIDE DEF f
<1>4. AllWhole(f)  BY <1>1, <1>2, <1>3, AllOf
<1> QED  BY <1>4 DEF f

LEMMA EntriesWhole ==
  ASSUME NEW pairs \in Seq(Nodes \X Nodes)
  PROVE  AllWhole(Entries(pairs))
<1> DEFINE f == Entries(pairs)
<1>1. Len(pairs) \in Nat /\ DOMAIN pairs = 1 .. Len(pairs)  BY LenProperties
<1>2. ASSUME NEW i \in 1 .. Len(pairs)  PROVE Whole(f[i])
  <2>1. pairs[i][1] \in Nodes /\ pairs[i][2] \in Nodes  BY ElementOfSeq
  <2>2. Whole(PrintSrc(pairs[i][1])) /\ Whole(PrintSrc(pairs[i][2]))  BY <2>1, WholeNode
  <2>3. Whole(PrintSrc(pairs[i][1]) \o Text(":") \o PrintSrc(pairs[i][2]))  BY <2>2, WholeWords, Concat
  <2> QED  BY <1>1, <2>3 DEF Entries
<1>3. f = [i \in 1 .. Len(pairs) |-> f[i]]  BY <1>1 DEF Entries
<1> HIDE DEF f
<1>4. AllWhole(f)  BY <1>1, <1>2, <1>3, AllOf
<1> QED  BY <1>4 DEF f

LEMMA NamesWhole ==
  ASSUME NEW names \in Seq(STRING)
  PROVE  AllWhole([i \in DOMAIN names |-> Text(names[i])])
<1> DEFINE f == [i \in DOMAIN names |-> Text(names[i])]
<1>1. Len(names) \in Nat /\ DOMAIN names = 1 .. Len(names)  BY LenProperties
<1>2. \A i \in 1 .. Len(names) : Whole(f[i])  BY <1>1, WholeWords
<1>3. f = [i \in 1 .. Len(names) |-> f[i]]  BY <1>1
<1> HIDE DEF f
<1>4. AllWhole(f)  BY <1>1, <1>2, <1>3, AllOf
<1> QED  BY <1>4 DEF f

LEMMA OrderedWhole ==
  ASSUME NEW child \in Nodes, NEW parent, NEW right
  PROVE  Whole(PrintOrdered(parent, right, child))
<1>1. Whole(PrintSrc(child))  BY WholeNode
<1>2. Whole(Text("(") \o PrintSrc(child) \o Text(")"))  BY <1>1, WholeWords, Concat
<1> QED  BY <1>1, <1>2 DEF PrintOrdered

LEMMA LinesWhole ==
  ASSUME NEW parts, AllWhole(parts)
  PROVE  Whole(Lines(parts))
<1> DEFINE f == [i \in DOMAIN parts |-> Opt(i > 1, Text(",")) \o NewLine \o StartLine(0) \o parts[i]]
<1>1. Len(parts) \in Nat /\ DOMAIN parts = 1 .. Len(parts)  BY DEF AllWhole, IsSeq
<1>2. ASSUME NEW i \in 1 .. Len(parts)  PROVE Whole(f[i])
  <2>1. Whole(Opt(i > 1, Text(",")))  BY WholeWords DEF Opt
  <2>2. Whole(parts[i])  BY DEF AllWhole
  <2>3. Whole(Opt(i > 1, Text(",")) \o NewLine \o StartLine(0) \o parts[i])
    BY Zenon, <2>1, <2>2, WholeWords, Concat
  <2> QED  BY <1>1, <2>3
<1>3. f = [i \in 1 .. Len(parts) |-> f[i]]  BY <1>1
<1> HIDE DEF f
<1>4. AllWhole(f)  BY <1>1, <1>2, <1>3, AllOf
<1>5. Whole(FlattenSeq(f))  BY <1>4, WholeFlatten
<1>6. Whole(Indent(1) \o FlattenSeq(f) \o Indent(-1))  BY <1>5, WholeWords, Indented
<1> QED  BY <1>6 DEF Lines, f

LEMMA PassWhole ==
  WellFormed(Pass) /\ Whole(PrintSrc(Pass))
<1>1. WellFormed(Pass)  BY DEF WellFormed, Pass
<1> QED  BY <1>1, WholePrint

LEMMA BlockWhole ==
  ASSUME NEW nodes \in Seq(Nodes)
  PROVE  Whole(PrintBlock(nodes))
<1> DEFINE f == [i \in DOMAIN nodes |-> Opt(nodes[i].k # "nodelist", StartLine(0)) \o PrintSrc(nodes[i])]
<1>1. ASSUME NEW i \in 1 .. Len(nodes), Whole(PrintSrc(nodes[i]))  PROVE Whole(f[i])
  <2>1. Whole(Opt(nodes[i].k # "nodelist", StartLine(0)))  BY WholeWords DEF Opt
  <2>2. Whole(Opt(nodes[i].k # "nodelist", StartLine(0)) \o PrintSrc(nodes[i]))  BY <1>1, <2>1, Concat
  <2>3. i \in DOMAIN nodes  BY LenProperties
  <2> QED  BY <2>2, <2>3
<1>2. f = [i \in DOMAIN nodes |-> f[i]]  OBVIOUS
<1> HIDE DEF f
<1>3. AllWhole(f)  BY <1>1, <1>2, Mapped
<1>4. Whole(Joined(f, EndLine))  BY <1>3, WholeWords, WholeJoined
<1>5. Whole(StartLine(0) \o PrintSrc(Pass))  BY PassWhole, WholeWords, Concat
<1> QED  BY <1>4, <1>5 DEF PrintBlock, f

LEMMA ParamsWhole ==
  ASSUME NEW count \in Nat, NEW defaults \in Seq(Nodes), NEW c, NEW from, NEW n
  PROVE  AllWhole(Params(c, from, count, n, defaults))
<1> DEFINE f == Params(c, from, count, n, defaults)
<1>1. ASSUME NEW i \in 1 .. count  PROVE Whole(f[i])
  <2>1. Whole(Local(c, from + i))  BY WholeWords DEF Local
  <2>2. Whole(Default(c, i, count, n, defaults))
    <3>1. ASSUME NEW j \in DOMAIN defaults  PROVE Whole(Text("=") \o PrintSrc(defaults[j]))
      <4>1. defaults[j] \in Nodes  BY ElementOfSeq, LenProperties
      <4> QED  BY <4>1, WholeNode, WholeWords, Concat
    <3> QED  BY <3>1, WholeWords DEF Default
  <2>3. Whole(Local(c, from + i) \o Default(c, i, count, n, defaults))  BY <2>1, <2>2, Concat
  <2> QED  BY <2>3 DEF Params
<1>2. f = [i \in 1 .. count |-> f[i]]  BY DEF Params
<1> HIDE DEF f
<1>3. AllWhole(f)  BY <1>1, <1>2, AllOf
<1> QED  BY <1>3 DEF f

LEMMA KwOnlyWhole ==
  ASSUME NEW c, IsCode(c), NEW count \in Nat, NEW defaults \in Seq(Nodes)
  PROVE  AllWhole(KwOnly(c, count, defaults))
<1>1. AllWhole(Params(c, c.argCount, count, c.kwOnlyArgCount, defaults))  BY ParamsWhole
<1>2. AllWhole(<<Text("*")>>) /\ AllWhole(<<>>)  BY WholeWords, AllOne
<1>3. AllWhole(<<Text("*")>> \o Params(c, c.argCount, count, c.kwOnlyArgCount, defaults))
  BY Zenon, <1>1, <1>2, AllConcat
<1> QED  BY <1>2, <1>3 DEF KwOnly, Opt

\* the parts of a function's signature, in both of its forms
LEMMA SignatureWhole ==
  ASSUME NEW f, IsCode(f.code), f.defargs \in Seq(Nodes), f.kwdefargs \in Seq(Nodes)
  PROVE  /\ Whole(Signature(f))
         /\ Whole(Commas(Params(f.code, 0, f.code.argCount, f.code.argCount, f.defargs)
                         \o KwOnly(f.code, f.code.argCount, f.kwdefargs)))
<1> DEFINE c == f.code
<1> DEFINE p == Params(c, 0, c.argCount, c.argCount, f.defargs)
<1>1. c.argCount \in Nat /\ c.kwOnlyArgCount \in Nat  BY DEF IsCode
<1>2. AllWhole(p)  BY <1>1, ParamsWhole
<1>3. AllWhole(KwOnly(c, c.argCount, f.kwdefargs)) /\ AllWhole(KwOnly(c, c.kwOnlyArgCount, f.kwdefargs))
  BY <1>1, KwOnlyWhole
<1>4. ASSUME NEW t, NEW i  PROVE AllWhole(<<Text(t) \o Local(c, i)>>)
  <2>1. Whole(Local(c, i))  BY WholeWords DEF Local
  <2>2. Whole(Text(t) \o Local(c, i))  BY <2>1, WholeWords, Concat
  <2> QED  BY <2>2, AllOne
<1>5. AllWhole(<<>>)  BY WholeWords, AllOne
<1>6. ASSUME NEW i  PROVE AllWhole(Opt(c.varargs, <<Text("*") \o Local(c, i)>>))
  BY <1>4, <1>5 DEF Opt
<1>7. ASSUME NEW i  PROVE AllWhole(Opt(c.varkeywords, <<Text("**") \o Local(c, i)>>))
  BY <1>4, <1>5 DEF Opt
<1> HIDE DEF p, c
<1>8. Whole(Commas(p \o KwOnly(c, c.argCount, f.kwdefargs)))
  <2>1. AllWhole(p \o KwOnly(c, c.argCount, f.kwdefargs))  BY Zenon, <1>2, <1>3, AllConcat
  <2> QED  BY Zenon, <2>1, WholeWords, WholeJoined
<1>9. ASSUME NEW i, NEW j
      PROVE  Whole(Commas(p \o KwOnly(c, c.kwOnlyArgCount, f.kwdefargs)
                          \o Opt(c.varargs, <<Text("*") \o Local(c, i)>>)
                          \o Opt(c.varkeywords, <<Text("**") \o Local(c, j)>>)))
  <2>1. AllWhole(p \o KwOnly(c, c.kwOnlyArgCount, f.kwdefargs))  BY Zenon, <1>2, <1>3, AllConcat
  <2>2. AllWhole(p \o KwOnly(c, c.kwOnlyArgCount, f.kwdefargs) \o Opt(c.varargs, <<Text("*") \o Local(c, i)>>))
    BY Zenon, <1>6, <2>1, AllConcat
  <2>3. AllWhole(p \o KwOnly(c, c.kwOnlyArgCount, f.kwdefargs) \o Opt(c.varargs, <<Text("*") \o Local(c, i)>>)
                 \o Opt(c.varkeywords, <<Text("**") \o Local(c, j)>>))
    BY Zenon, <1>7, <2>2, AllConcat
  <2> QED  BY Zenon, <2>3, WholeWords, WholeJoined
<1> QED  BY <1>8, <1>9 DEF Signature, p, c

-----------------------------------------------------------------------------
(* One lemma per action of print_src *)

LEMMA NodeHere ==
  ASSUME IInv, Doing("print")
  PROVE  WellFormed(node)
<1>1. todo # <<>> /\ entry.do = "print"  BY DEF Doing, entry
<1>2. EntryOK(entry)  BY <1>1, Took
<1> QED  BY <1>1, <1>2 DEF EntryOK, node

LEMMA NullStep ==
  ASSUME IInv, PrintNull
  PROVE  IInv'
<1>1. Doing("print") /\ node.k # "code"  BY DEF PrintNull, Printing
<1>2. Become(Text("None"))  BY DEF PrintNull
<1> QED  BY <1>1, <1>2, WholeWords, Became

LEMMA BinaryStep ==
  ASSUME IInv, PrintBinary
  PROVE  IInv'
<1>1. Doing("print") /\ node.k \in {"binary", "compare"}  BY DEF PrintBinary, Printing
<1>2. node.l \in Nodes /\ node.r \in Nodes  BY <1>1, NodeHere DEF WellFormed
<1> DEFINE s == PrintOrdered(node, FALSE, node.l) \o Text(node.op) \o PrintOrdered(node, TRUE, node.r)
<1>3. Whole(s)  BY Zenon, <1>2, OrderedWhole, WholeWords, Concat
<1>4. Become(s)  BY DEF PrintBinary
<1>5. node.k # "code"  BY <1>1
<1> HIDE DEF s
<1> QED  BY <1>1, <1>3, <1>4, <1>5, Became

LEMMA UnaryStep ==
  ASSUME IInv, PrintUnary
  PROVE  IInv'
<1>1. Doing("print") /\ node.k = "unary"  BY DEF PrintUnary, Printing
<1>2. node.e \in Nodes  BY <1>1, NodeHere DEF WellFormed
<1> DEFINE s == Text(node.op) \o PrintOrdered(node, FALSE, node.e)
<1>3. Whole(s)  BY Zenon, <1>2, OrderedWhole, WholeWords, Concat
<1>4. Become(s)  BY DEF PrintUnary
<1>5. node.k # "code"  BY <1>1
<1> HIDE DEF s
<1> QED  BY <1>1, <1>3, <1>4, <1>5, Became

LEMMA CallStep ==
  ASSUME IInv, PrintCall
  PROVE  IInv'
<1>1. Doing("print") /\ node.k = "call"  BY DEF PrintCall, Printing
<1>2. /\ node.func \in Nodes /\ node.pparams \in Seq(Nodes) /\ node.kwparams \in Seq(STRING \X Nodes)
      /\ node.var \in Seq(Nodes) /\ node.kw \in Seq(Nodes)
  BY <1>1, NodeHere DEF WellFormed
<1> DEFINE parts == Each(node.pparams) \o Keywords(node.kwparams) \o Starred("*", node.var) \o Starred("**", node.kw)
<1> DEFINE s == PrintSrc(node.func) \o Text("(") \o Commas(parts) \o Text(")")
<1>3. AllWhole(parts)
  <2>1. AllWhole(Each(node.pparams)) /\ AllWhole(Keywords(node.kwparams))
        /\ AllWhole(Starred("*", node.var)) /\ AllWhole(Starred("**", node.kw))
    BY <1>2, EachWhole, KeywordsWhole
  <2> QED  BY Zenon, <2>1, AllConcat
<1>4. Become(s)  BY DEF PrintCall
<1> HIDE DEF parts
<1>5. Whole(Commas(parts))  BY <1>3, WholeWords, WholeJoined
<1>6. Whole(PrintSrc(node.func))  BY <1>2, WholeNode
<1>7. Whole(s)  BY Zenon, <1>5, <1>6, WholeWords, Concat
<1>8. node.k # "code"  BY <1>1
<1> HIDE DEF s
<1> QED  BY <1>1, <1>4, <1>7, <1>8, Became

LEMMA WordSteps ==
  ASSUME IInv, PrintKeyword \/ PrintName \/ PrintDelete \/ PrintAnnotated
  PROVE  IInv'
<1>1. CASE PrintKeyword
  <2>1. Doing("print") /\ node.k # "code"  BY <1>1 DEF PrintKeyword, Printing
  <2>2. Become(Text(node.word))  BY <1>1 DEF PrintKeyword
  <2> QED  BY <2>1, <2>2, WholeWords, Became
<1>2. CASE PrintName
  <2>1. Doing("print") /\ node.k # "code"  BY <1>2 DEF PrintName, Printing
  <2>2. Become(Text(node.id))  BY <1>2 DEF PrintName
  <2> QED  BY <2>1, <2>2, WholeWords, Became
<1>3. CASE PrintDelete
  <2>1. Doing("print") /\ node.k = "delete"  BY <1>3 DEF PrintDelete, Printing
  <2>2. node.e \in Nodes  BY <2>1, NodeHere DEF WellFormed
  <2>3. Whole(Text("del") \o PrintSrc(node.e))  BY Zenon, <2>2, WholeNode, WholeWords, Concat
  <2>4. Become(Text("del") \o PrintSrc(node.e))  BY <1>3 DEF PrintDelete
  <2>5. node.k # "code"  BY <2>1
  <2> QED  BY <2>1, <2>3, <2>4, <2>5, Became
<1>4. CASE PrintAnnotated
  <2>1. Doing("print") /\ node.k = "annotated_var"  BY <1>4 DEF PrintAnnotated, Printing
  <2>2. node.annotation \in Nodes  BY <2>1, NodeHere DEF WellFormed
  <2>3. Whole(Text(node.name) \o Text(":") \o PrintSrc(node.annotation))  BY Zenon, <2>2, WholeNode, WholeWords, Concat
  <2>4. Become(Text(node.name) \o Text(":") \o PrintSrc(node.annotation))  BY <1>4 DEF PrintAnnotated
  <2>5. node.k # "code"  BY <2>1
  <2> QED  BY <2>1, <2>3, <2>4, <2>5, Became
<1> QED  BY <1>1, <1>2, <1>3, <1>4

LEMMA RaiseStep ==
  ASSUME IInv, PrintRaise
  PROVE  IInv'
<1>1. Doing("print") /\ node.k = "raise"  BY DEF PrintRaise, Printing
<1>2. node.params \in Seq(Nodes)  BY <1>1, NodeHere DEF WellFormed
<1> DEFINE s == Text("raise") \o Commas(Each(node.params))
<1>3. Whole(Commas(Each(node.params)))  BY <1>2, EachWhole, WholeWords, WholeJoined
<1>4. Whole(s)  BY Zenon, <1>3, WholeWords, Concat
<1>5. Become(s)  BY DEF PrintRaise
<1>6. node.k # "code"  BY <1>1
<1> HIDE DEF s
<1> QED  BY <1>1, <1>4, <1>5, <1>6, Became

LEMMA PrintStep ==
  ASSUME IInv, PrintPrint
  PROVE  IInv'
<1>1. Doing("print") /\ node.k = "print"  BY DEF PrintPrint, Printing
<1>2. node.stream \in Seq(Nodes) /\ node.values \in Seq(Nodes)  BY <1>1, NodeHere DEF WellFormed
<1> DEFINE parts == Starred(">>", node.stream) \o Each(node.values)
<1> DEFINE comma == Opt(~node.eol, Text(","))
<1> DEFINE s == Text("print") \o Commas(parts) \o comma
<1>3. AllWhole(parts)  BY <1>2, EachWhole, AllConcat
<1>4. Become(s)  BY DEF PrintPrint
<1>5. Whole(comma)  BY WholeWords DEF Opt
<1> HIDE DEF parts, comma
<1>6. Whole(Commas(parts))  BY <1>3, WholeWords, WholeJoined
<1>7. Whole(s)  BY Zenon, <1>5, <1>6, WholeWords, Concat
<1>8. node.k # "code"  BY <1>1
<1> HIDE DEF s
<1> QED  BY <1>1, <1>4, <1>7, <1>8, Became

LEMMA ExecStep ==
  ASSUME IInv, PrintExec
  PROVE  IInv'
<1>1. Doing("print") /\ node.k = "exec"  BY DEF PrintExec, Printing
<1>2. node.statement \in Nodes /\ node.globals \in Nodes /\ node.locals \in Nodes
  BY <1>1, NodeHere DEF WellFormed
<1> DEFINE locals == Opt(node.locals \notin {Null, node.globals}, Text(",") \o PrintSrc(node.locals))
<1> DEFINE where == Opt(node.globals # Null, Text("in") \o PrintSrc(node.globals) \o locals)
<1> DEFINE s == Text("exec") \o PrintSrc(node.statement) \o where
<1>3. Become(s)  BY DEF PrintExec
<1>4. Whole(locals)
  <2>1. Whole(Text(",") \o PrintSrc(node.locals))  BY Zenon, <1>2, WholeNode, WholeWords, Concat
  <2> QED  BY <2>1, WholeWords DEF Opt
<1> HIDE DEF locals
<1>5. Whole(where)
  <2>1. Whole(Text("in") \o PrintSrc(node.globals) \o locals)  BY Zenon, <1>2, <1>4, WholeNode, WholeWords, Concat
  <2> QED  BY <2>1, WholeWords DEF Opt
<1> HIDE DEF where
<1>6. Whole(s)  BY Zenon, <1>2, <1>5, WholeNode, WholeWords, Concat
<1>7. node.k # "code"  BY <1>1
<1> HIDE DEF s
<1> QED  BY <1>1, <1>3, <1>6, <1>7, Became

LEMMA DisplayStep ==
  ASSUME IInv, PrintListOrSet \/ PrintMap
  PROVE  IInv'
<1>1. CASE PrintListOrSet
  <2>1. Doing("print") /\ node.k \in {"list", "set"}  BY <1>1 DEF PrintListOrSet, Printing
  <2>2. node.values \in Seq(Nodes)  BY <2>1, NodeHere DEF WellFormed
  <2> DEFINE s == Text(Brackets[node.k][1]) \o Lines(Each(node.values)) \o Text(Brackets[node.k][2])
  <2>3. Whole(Lines(Each(node.values)))  BY <2>2, EachWhole, LinesWhole
  <2>4. Whole(s)  BY Zenon, <2>3, WholeWords, Concat
  <2>5. Become(s)  BY <1>1 DEF PrintListOrSet
  <2>6. node.k # "code"  BY <2>1
  <2> HIDE DEF s
  <2> QED  BY <2>1, <2>4, <2>5, <2>6, Became
<1>2. CASE PrintMap
  <2>1. Doing("print") /\ node.k = "map"  BY <1>2 DEF PrintMap, Printing
  <2>2. node.values \in Seq(Nodes \X Nodes)  BY <2>1, NodeHere DEF WellFormed
  <2> DEFINE s == Text("{") \o Lines(Entries(node.values)) \o Text("}")
  <2>3. Whole(Lines(Entries(node.values)))  BY <2>2, EntriesWhole, LinesWhole
  <2>4. Whole(s)  BY Zenon, <2>3, WholeWords, Concat
  <2>5. Become(s)  BY <1>2 DEF PrintMap
  <2>6. node.k # "code"  BY <2>1
  <2> HIDE DEF s
  <2> QED  BY <2>1, <2>4, <2>5, <2>6, Became
<1> QED  BY <1>1, <1>2

LEMMA ConstMapStep ==
  ASSUME IInv, PrintConstMap
  PROVE  IInv'
<1>1. Doing("print") /\ node.k = "const_map"  BY DEF PrintConstMap, Printing
<1>2. node.keys \in Seq(Nodes) /\ node.values \in Seq(Nodes) /\ Len(node.keys) <= Len(node.values)
  BY <1>1, NodeHere DEF WellFormed
<1> DEFINE pairs == [i \in DOMAIN node.keys |-> <<node.keys[i], Reverse(node.values)[i]>>]
<1> DEFINE map == [k |-> "map", values |-> pairs]
<1>3. pairs \in Seq(Nodes \X Nodes)
  <2>1. /\ Len(node.keys) \in Nat /\ DOMAIN node.keys = 1 .. Len(node.keys)
        /\ Len(node.values) \in Nat /\ DOMAIN node.values = 1 .. Len(node.values)
    BY <1>2, LenProperties
  <2>2. ASSUME NEW i \in 1 .. Len(node.keys)  PROVE pairs[i] \in Nodes \X Nodes
    <3>1. i \in 1 .. Len(node.values) /\ (Len(node.values) - i) + 1 \in 1 .. Len(node.values)  BY <1>2, <2>1
    <3>2. Reverse(node.values)[i] = node.values[(Len(node.values) - i) + 1]  BY <3>1 DEF Reverse
    <3>3. Reverse(node.values)[i] \in Nodes  BY <1>2, <3>1, <3>2, ElementOfSeq
    <3>4. node.keys[i] \in Nodes  BY <1>2, ElementOfSeq
    <3> QED  BY <2>1, <3>3, <3>4
  <2>3. pairs = [i \in 1 .. Len(node.keys) |-> pairs[i]]  BY <2>1
  <2> HIDE DEF pairs
  <2>4. IsSeq(pairs) /\ Len(pairs) = Len(node.keys)  BY <2>1, <2>3, FcnIsSeq
  <2> QED  BY <2>2, <2>4, IsSeqElements
<1>4. Become(PrintSrc(map))  BY DEF PrintConstMap
<1> HIDE DEF pairs
<1>5. WellFormed(map)  BY <1>3 DEF WellFormed
<1> HIDE DEF map
<1>6. Whole(PrintSrc(map))  BY <1>5, WholePrint
<1>7. node.k # "code"  BY <1>1
<1> QED  BY <1>1, <1>4, <1>6, <1>7, Became

LEMMA ComprehensionStep ==
  ASSUME IInv, PrintComprehension
  PROVE  IInv'
<1>1. Doing("print") /\ node.k = "comprehension"  BY DEF PrintComprehension, Printing
<1> DEFINE gens == node.generators
<1>2. /\ node.result \in Nodes /\ gens \in Seq({gens[i] : i \in DOMAIN gens})
      /\ \A i \in DOMAIN gens : Generator(gens[i])
  BY <1>1, NodeHere DEF WellFormed
<1> DEFINE f == [i \in DOMAIN gens |->
                   Text("for") \o PrintSrc(gens[i].index) \o Text("in") \o PrintSrc(gens[i].iter)
                   \o Opt(gens[i].condition # Null, Text("if") \o PrintSrc(gens[i].condition))]
<1> DEFINE s == Text("[") \o PrintSrc(node.result) \o Generators(gens) \o Text("]")
<1>3. Become(s)  BY DEF PrintComprehension
<1>4. FlattenSeq(f) = Generators(gens)  BY DEF Generators
<1>5. Len(gens) \in Nat /\ DOMAIN gens = 1 .. Len(gens)  BY <1>2, LenProperties
<1> HIDE DEF gens
<1>6. ASSUME NEW i \in 1 .. Len(gens)  PROVE Whole(f[i])
  <2>1. gens[i].index \in Nodes /\ gens[i].iter \in Nodes /\ gens[i].condition \in Nodes
    BY <1>2, <1>5 DEF Generator
  <2>2. Whole(Text("if") \o PrintSrc(gens[i].condition))  BY Zenon, <2>1, WholeNode, WholeWords, Concat
  <2> DEFINE last == Opt(gens[i].condition # Null, Text("if") \o PrintSrc(gens[i].condition))
  <2>3. Whole(last)  BY <2>2, WholeWords DEF Opt
  <2> HIDE DEF last
  <2>4. Whole(Text("for") \o PrintSrc(gens[i].index) \o Text("in") \o PrintSrc(gens[i].iter) \o last)
    BY Zenon, <2>1, <2>3, WholeNode, WholeWords, Concat
  <2> QED  BY <1>5, <2>4 DEF last
<1>7. f = [i \in 1 .. Len(gens) |-> f[i]]  BY <1>5
<1> HIDE DEF f
<1>8. AllWhole(f)  BY <1>5, <1>6, <1>7, AllOf
<1>9. Whole(Generators(gens))  BY <1>4, <1>8, WholeFlatten
<1>10. Whole(s)  BY Zenon, <1>2, <1>9, WholeNode, WholeWords, Concat
<1>11. node.k # "code"  BY <1>1
<1> HIDE DEF s
<1> QED  BY <1>1, <1>3, <1>10, <1>11, Became

LEMMA SubscrStep ==
  ASSUME IInv, PrintSubscr \/ PrintSlice
  PROVE  IInv'
<1>1. CASE PrintSubscr
  <2>1. Doing("print") /\ node.k = "subscr"  BY <1>1 DEF PrintSubscr, Printing
  <2>2. node.name \in Nodes /\ node.key \in Nodes  BY <2>1, NodeHere DEF WellFormed
  <2> DEFINE s == PrintSrc(node.name) \o Text("[") \o PrintSrc(node.key) \o Text("]")
  <2>3. Whole(s)  BY Zenon, <2>2, WholeNode, WholeWords, Concat
  <2>4. Become(s)  BY <1>1 DEF PrintSubscr
  <2>5. node.k # "code"  BY <2>1
  <2> HIDE DEF s
  <2> QED  BY <2>1, <2>3, <2>4, <2>5, Became
<1>2. CASE PrintSlice
  <2>1. Doing("print") /\ node.k = "slice"  BY <1>2 DEF PrintSlice, Printing
  <2>2. node.l \in Nodes /\ node.r \in Nodes  BY <2>1, NodeHere DEF WellFormed
  <2> DEFINE l == Opt(node.l # Null, PrintSrc(node.l))
  <2> DEFINE r == Opt(node.r # Null, PrintSrc(node.r))
  <2>3. Whole(l) /\ Whole(r)  BY <2>2, WholeNode, WholeWords DEF Opt
  <2>4. Become(l \o Text(":") \o r)  BY <1>2 DEF PrintSlice
  <2> HIDE DEF l, r
  <2>5. Whole(l \o Text(":") \o r)  BY Zenon, <2>3, WholeWords, Concat
  <2>6. node.k # "code"  BY <2>1
  <2> QED  BY <2>1, <2>4, <2>5, <2>6, Became
<1> QED  BY <1>1, <1>2

LEMMA TupleStep ==
  ASSUME IInv, PrintTuple
  PROVE  IInv'
<1>1. Doing("print") /\ node.k = "tuple"  BY DEF PrintTuple, Printing
<1>2. node.values \in Seq(Nodes)  BY <1>1, NodeHere DEF WellFormed
<1> DEFINE open == Opt(node.parens, Text("("))
<1> DEFINE comma == Opt(Len(node.values) = 1, Text(","))
<1> DEFINE close == Opt(node.parens, Text(")"))
<1> DEFINE s == open \o Commas(Each(node.values)) \o comma \o close
<1>3. Whole(open) /\ Whole(comma) /\ Whole(close)  BY WholeWords DEF Opt
<1>4. Become(s)  BY DEF PrintTuple
<1>5. Whole(Commas(Each(node.values)))  BY <1>2, EachWhole, WholeWords, WholeJoined
<1> HIDE DEF open, comma, close
<1>6. Whole(s)  BY Zenon, <1>3, <1>5, Concat
<1>7. node.k # "code"  BY <1>1
<1> HIDE DEF s
<1> QED  BY <1>1, <1>4, <1>6, <1>7, Became

LEMMA TernaryStep ==
  ASSUME IInv, PrintTernary
  PROVE  IInv'
<1>1. Doing("print") /\ node.k = "ternary"  BY DEF PrintTernary, Printing
<1>2. node.if_expr \in Nodes /\ node.cond \in Nodes /\ node.else_expr \in Nodes
  BY <1>1, NodeHere DEF WellFormed
<1> DEFINE not == Opt(node.negative, Text("not"))
<1> DEFINE s == PrintSrc(node.if_expr) \o Text("if") \o not \o PrintSrc(node.cond) \o Text("else")
                \o PrintSrc(node.else_expr)
<1>3. Whole(not)  BY WholeWords DEF Opt
<1>4. Become(s)  BY DEF PrintTernary
<1> HIDE DEF not
<1>5. Whole(s)  BY Zenon, <1>2, <1>3, WholeNode, WholeWords, Concat
<1>6. node.k # "code"  BY <1>1
<1> HIDE DEF s
<1> QED  BY <1>1, <1>4, <1>5, <1>6, Became

LEMMA ReturnStep ==
  ASSUME IInv, PrintReturn
  PROVE  IInv'
<1>1. Doing("print") /\ node.k = "return"  BY DEF PrintReturn, Printing
<1>2. node.value \in Nodes  BY <1>1, NodeHere DEF WellFormed
<1>3. node.k # "code"  BY <1>1
<1>4. CASE ~inLambda /\ node.rettype = "yield_from" /\ node.value.k = "awaitable"
  <2>1. node.value.expression \in Nodes  BY <1>2, <1>4, WholeNode DEF WellFormed
  <2>2. Whole(Text("await") \o PrintSrc(node.value.expression))  BY Zenon, <2>1, WholeNode, WholeWords, Concat
  <2>3. Become(Text("await") \o PrintSrc(node.value.expression))  BY <1>4 DEF PrintReturn
  <2> QED  BY <1>1, <1>3, <2>2, <2>3, Became
<1>5. CASE ~(~inLambda /\ node.rettype = "yield_from" /\ node.value.k = "awaitable")
  <2> DEFINE word == Opt(~inLambda, Text(ReturnWords[node.rettype]))
  <2>1. Whole(word)  BY WholeWords DEF Opt
  <2>2. Become(word \o PrintSrc(node.value))  BY <1>5 DEF PrintReturn
  <2> HIDE DEF word
  <2>3. Whole(word \o PrintSrc(node.value))  BY Zenon, <1>2, <2>1, WholeNode, Concat
  <2> QED  BY <1>1, <1>3, <2>2, <2>3, Became
<1> QED  BY <1>4, <1>5

LEMMA UnsupportedStep ==
  ASSUME IInv, PrintUnsupported
  PROVE  IInv'
<1>1. Doing("print") /\ node.k # "code"  BY DEF PrintUnsupported, NoCase
<1>2. todo # <<>> /\ entry.do = "print" /\ ~Printing("code")  BY <1>1 DEF Doing, Printing, entry
<1>3. ~printDocstringAndGlobals /\ ~printClassDocstring  BY <1>2, NoFlags
<1>4. FlagsArrive'  BY <1>3 DEF PrintUnsupported, Keeps, FlagsArrive
<1>5. By(entry) = 0 /\ cur_indent + 0 = cur_indent  BY <1>2 DEF By, IInv
<1>6. todo' = Tail(todo) /\ UNCHANGED <<cur_indent, inLambda, threw>>  BY DEF PrintUnsupported, Keeps
<1> QED  BY <1>2, <1>4, <1>5, <1>6, Popped

LEMMA FunctionStep ==
  ASSUME IInv, PrintFunction
  PROVE  IInv'
<1>1. Doing("print") /\ node.k = "function"  BY DEF PrintFunction, Printing
<1> DEFINE c == node.code
<1>2. IsCode(c) /\ node.defargs \in Seq(Nodes) /\ node.kwdefargs \in Seq(Nodes)
  BY <1>1, NodeHere DEF WellFormed
<1> DEFINE parts == Params(c, 0, c.argCount, c.argCount, node.defargs) \o KwOnly(c, c.argCount, node.kwdefargs)
<1> DEFINE head == Text("(") \o Text("lambda") \o Commas(parts) \o Text(":")
<1> DEFINE s == head \o InLambda(TRUE) \o PrintSrc(Code(c)) \o InLambda(FALSE) \o Text(")")
<1>3. Become(s)  BY DEF PrintFunction
<1>4. Whole(Commas(parts))  BY <1>2, SignatureWhole
<1> HIDE DEF parts
<1>5. Whole(head)  BY Zenon, <1>4, WholeWords, Concat
<1>6. Whole(PrintSrc(Code(c)))  BY <1>2, WholeCode
<1> HIDE DEF head, c
<1>7. Whole(head \o InLambda(TRUE) \o PrintSrc(Code(c)) \o InLambda(FALSE))  BY <1>5, <1>6, InLambdaAround
<1>8. Whole(s)  BY Zenon, <1>7, WholeWords, Concat
<1>9. node.k # "code"  BY <1>1
<1> HIDE DEF s
<1> QED  BY <1>1, <1>3, <1>8, <1>9, Became

LEMMA NodeListStep ==
  ASSUME IInv, PrintNodeList
  PROVE  IInv'
<1>1. Doing("print") /\ node.k = "nodelist"  BY DEF PrintNodeList, Printing
<1> DEFINE nodes == node.nodes
<1>2. nodes \in Seq(Nodes \cup {Pass})  BY <1>1, NodeHere DEF WellFormed
<1> DEFINE f == [i \in DOMAIN nodes |->
                   Opt(nodes[i].k # "nodelist", StartLine(0)) \o PrintSrc(nodes[i]) \o EndLine]
<1>3. Become(Indent(1) \o FlattenSeq(f) \o Indent(-1))  BY DEF PrintNodeList
<1>4. Len(nodes) \in Nat /\ DOMAIN nodes = 1 .. Len(nodes)  BY <1>2, LenProperties
<1> HIDE DEF nodes
<1>5. ASSUME NEW i \in 1 .. Len(nodes)  PROVE Whole(f[i])
  <2>1. nodes[i] \in Nodes \cup {Pass}  BY <1>2, ElementOfSeq
  <2>2. Whole(PrintSrc(nodes[i]))  BY <2>1, WholeNode, PassWhole
  <2>3. Whole(Opt(nodes[i].k # "nodelist", StartLine(0)))  BY WholeWords DEF Opt
  <2>4. Whole(Opt(nodes[i].k # "nodelist", StartLine(0)) \o PrintSrc(nodes[i]) \o EndLine)
    BY Zenon, <2>2, <2>3, WholeWords, Concat
  <2> QED  BY <1>4, <2>4
<1>6. f = [i \in 1 .. Len(nodes) |-> f[i]]  BY <1>4
<1> HIDE DEF f
<1>7. AllWhole(f)  BY <1>4, <1>5, <1>6, AllOf
<1>8. Whole(FlattenSeq(f))  BY <1>7, WholeFlatten
<1>9. Whole(Indent(1) \o FlattenSeq(f) \o Indent(-1))  BY <1>8, WholeWords, Indented
<1>10. node.k # "code"  BY <1>1
<1> QED  BY <1>1, <1>3, <1>9, <1>10, Became

LEMMA HeadWhole ==
  ASSUME NEW b, WellFormed(b), b.k = "block"
  PROVE  Whole(BlockHead(b))
<1>1. CASE b.blktype \in {"if", "elif", "while"}
  <2>1. b.cond \in Nodes  BY <1>1 DEF WellFormed
  <2> DEFINE not == Opt(b.negative, Text("not"))
  <2>2. Whole(not)  BY WholeWords DEF Opt
  <2>3. BlockHead(b) = not \o PrintSrc(b.cond)  BY <1>1 DEF BlockHead
  <2> HIDE DEF not
  <2>4. Whole(not \o PrintSrc(b.cond))  BY Zenon, <2>1, <2>2, WholeNode, Concat
  <2> QED  BY <2>3, <2>4
<1>2. CASE b.blktype \in {"for", "async for"}
  <2>1. b.index \in Nodes /\ b.iter \in Nodes  BY <1>2 DEF WellFormed
  <2>2. Whole(PrintSrc(b.index) \o Text("in") \o PrintSrc(b.iter))
    BY Zenon, <2>1, WholeNode, WholeWords, Concat
  <2> QED  BY <1>2, <2>2 DEF BlockHead
<1>3. CASE b.blktype = "except" /\ b.cond # Null
  <2>1. b.cond \in Nodes /\ b.exceptAs \in Nodes  BY <1>3 DEF WellFormed
  <2> DEFINE as == Opt(b.exceptAs # Null, Text("as") \o PrintSrc(b.exceptAs))
  <2>2. Whole(as)
    <3>1. Whole(Text("as") \o PrintSrc(b.exceptAs))  BY Zenon, <2>1, WholeNode, WholeWords, Concat
    <3> QED  BY <3>1, WholeWords DEF Opt
  <2>3. BlockHead(b) = PrintSrc(b.cond) \o as  BY <1>3 DEF BlockHead
  <2> HIDE DEF as
  <2>4. Whole(PrintSrc(b.cond) \o as)  BY Zenon, <2>1, <2>2, WholeNode, Concat
  <2> QED  BY <2>3, <2>4
<1>4. CASE b.blktype = "with"
  <2>1. b.expr \in Nodes /\ b.var \in Nodes  BY <1>4 DEF WellFormed
  <2> DEFINE as == Opt(b.var # Null, Text("as") \o PrintSrc(b.var))
  <2>2. Whole(as)
    <3>1. Whole(Text("as") \o PrintSrc(b.var))  BY Zenon, <2>1, WholeNode, WholeWords, Concat
    <3> QED  BY <3>1, WholeWords DEF Opt
  <2>3. BlockHead(b) = PrintSrc(b.expr) \o as  BY <1>4 DEF BlockHead
  <2> HIDE DEF as
  <2>4. Whole(PrintSrc(b.expr) \o as)  BY Zenon, <2>1, <2>2, WholeNode, Concat
  <2> QED  BY <2>3, <2>4
<1>5. CASE /\ b.blktype \notin {"if", "elif", "while", "for", "async for", "with"}
           /\ ~(b.blktype = "except" /\ b.cond # Null)
  <2>1. BlockHead(b) = <<>>  BY <1>5 DEF BlockHead
  <2> QED  BY <2>1, WholeWords
<1> QED  BY <1>1, <1>2, <1>3, <1>4, <1>5

LEMMA BlockStep ==
  ASSUME IInv, PrintNoElse \/ PrintContainer \/ PrintSuite
  PROVE  IInv'
<1>1. Doing("print") /\ node.k = "block"  BY DEF PrintNoElse, PrintContainer, PrintSuite, Printing
<1>2. WellFormed(node)  BY <1>1, NodeHere
<1>3. node.nodes \in Seq(Nodes)  BY <1>1, <1>2 DEF WellFormed
<1>4. Whole(PrintBlock(node.nodes)) /\ Whole(BlockHead(node))  BY <1>1, <1>2, <1>3, BlockWhole, HeadWhole
<1>5. node.k # "code"  BY <1>1
<1>6. CASE PrintNoElse
  <2>1. Become(<<>>)  BY <1>6 DEF PrintNoElse
  <2> QED  BY <1>1, <1>5, <2>1, WholeWords, Became
<1>7. CASE PrintContainer
  <2>1. Become(EndLine \o PrintBlock(node.nodes) \o EndLine)  BY <1>7 DEF PrintContainer
  <2>2. Whole(EndLine \o PrintBlock(node.nodes) \o EndLine)  BY Zenon, <1>4, WholeWords, Concat
  <2> QED  BY <1>1, <1>5, <2>1, <2>2, Became
<1>8. CASE PrintSuite
  <2> DEFINE p == Text(node.blktype) \o BlockHead(node) \o Text(":") \o NewLine
  <2>1. Become(p \o Indent(1) \o PrintBlock(node.nodes) \o Indent(-1))  BY <1>8 DEF PrintSuite
  <2>2. Whole(p)  BY Zenon, <1>4, WholeWords, Concat
  <2> HIDE DEF p
  <2>3. Whole(p \o Indent(1) \o PrintBlock(node.nodes) \o Indent(-1))  BY <1>4, <2>2, Indented
  <2> QED  BY <1>1, <1>5, <2>1, <2>3, Became
<1> QED  BY <1>6, <1>7, <1>8

LEMMA StoreFunctionStep ==
  ASSUME IInv, StoreFunction
  PROVE  IInv'
<1>1. Doing("print") /\ node.k = "store" /\ node.src.k = "function"  BY DEF StoreFunction, Printing
<1>2. node.src \in Nodes /\ node.dest \in Nodes  BY <1>1, NodeHere DEF WellFormed
<1> DEFINE f == node.src
<1> DEFINE c == f.code
<1>3. IsCode(c) /\ f.defargs \in Seq(Nodes) /\ f.kwdefargs \in Seq(Nodes)
  BY <1>1, <1>2, WholeNode DEF WellFormed
<1>4. Whole(Signature(f)) /\ Whole(PrintSrc(node.dest))  BY <1>2, <1>3, SignatureWhole, WholeNode
<1> DEFINE lambda == PrintSrc(node.dest) \o Text("=") \o Text("lambda") \o Signature(f) \o Text(":") \o LambdaBody(c, TRUE)
<1> DEFINE async == Opt(c.coroutine, Text("async"))
<1> DEFINE head == async \o Text("def") \o PrintSrc(node.dest) \o Text("(") \o Signature(f) \o Text(")")
                   \o Text(":") \o NewLine
<1> DEFINE def == head \o OfFunction \o LambdaBody(c, FALSE)
<1>5. Become(NewLine \o StartLine(0) \o IF c.name = "<lambda>" THEN lambda ELSE def)  BY DEF StoreFunction
<1>6. Whole(async)  BY WholeWords DEF Opt
<1> HIDE DEF f, c, async
<1>7. Whole(head)  BY Zenon, <1>4, <1>6, WholeWords, Concat
<1> HIDE DEF head
<1>8. Whole(def)  BY <1>3, <1>7, FlagBefore
<1>9. Whole(LambdaBody(c, TRUE))  BY <1>3, WholeBody
<1>10. Whole(lambda)  BY Zenon, <1>4, <1>9, WholeWords, Concat
<1> HIDE DEF def, lambda
<1> DEFINE either == IF c.name = "<lambda>" THEN lambda ELSE def
<1>11. Whole(either)  BY <1>8, <1>10
<1> HIDE DEF either
<1>12. Whole(NewLine \o StartLine(0) \o either)  BY Zenon, <1>11, WholeWords, Concat
<1>13. Become(NewLine \o StartLine(0) \o either)  BY <1>5 DEF either
<1>14. node.k # "code"  BY <1>1
<1> QED  BY <1>1, <1>12, <1>13, <1>14, Became

LEMMA StoreClassStep ==
  ASSUME IInv, StoreClass
  PROVE  IInv'
<1>1. Doing("print") /\ node.k = "store" /\ node.src.k = "class"  BY DEF StoreClass, Printing
<1>2. node.src \in Nodes /\ node.dest \in Nodes  BY <1>1, NodeHere DEF WellFormed
<1>3. IsCode(node.src.code) /\ node.src.bases \in Seq(Nodes)  BY <1>1, <1>2, WholeNode DEF WellFormed
<1> DEFINE bases == Opt(node.src.bases # <<>>, Text("(") \o Commas(Each(node.src.bases)) \o Text(")"))
<1> DEFINE head == NewLine \o StartLine(0) \o Text("class") \o PrintSrc(node.dest) \o bases \o Text(":") \o NewLine
<1> DEFINE s == head \o OfClass \o PrintSrc(Code(node.src.code))
<1>4. Become(s)  BY DEF StoreClass
<1>5. Whole(bases)
  <2>1. Whole(Commas(Each(node.src.bases)))  BY <1>3, EachWhole, WholeWords, WholeJoined
  <2>2. Whole(Text("(") \o Commas(Each(node.src.bases)) \o Text(")"))  BY Zenon, <2>1, WholeWords, Concat
  <2> QED  BY <2>2, WholeWords DEF Opt
<1> HIDE DEF bases
<1>6. Whole(head)  BY Zenon, <1>2, <1>5, WholeNode, WholeWords, Concat
<1> HIDE DEF head
<1>7. Whole(s)  BY <1>3, <1>6, FlagBefore
<1>8. node.k # "code"  BY <1>1
<1> HIDE DEF s
<1> QED  BY <1>1, <1>4, <1>7, <1>8, Became

LEMMA StoreValueStep ==
  ASSUME IInv, StoreValue
  PROVE  IInv'
<1>1. Doing("print") /\ node.k = "store"  BY DEF StoreValue, Printing
<1>2. node.src \in Nodes /\ node.dest \in Nodes  BY <1>1, NodeHere DEF WellFormed
<1>3. Whole(PrintSrc(node.src)) /\ Whole(PrintSrc(node.dest))  BY <1>2, WholeNode
<1>4. Whole(PrintSrc(node.dest) \o Text("=") \o PrintSrc(node.src))  BY Zenon, <1>3, WholeWords, Concat
<1>5. Become(PrintSrc(node.src)) \/ Become(PrintSrc(node.dest) \o Text("=") \o PrintSrc(node.src))
  BY Zenon DEF StoreValue
<1>6. node.k # "code"  BY <1>1
<1> QED  BY <1>1, <1>3, <1>4, <1>5, <1>6, Became

LEMMA ChainStoreStep ==
  ASSUME IInv, PrintChainStore
  PROVE  IInv'
<1>1. Doing("print") /\ node.k = "chainstore"  BY DEF PrintChainStore, Printing
<1> DEFINE dests == node.dests
<1>2. dests \in Seq(Nodes) /\ node.src \in Nodes  BY <1>1, NodeHere DEF WellFormed
<1> DEFINE f == [i \in DOMAIN dests |-> PrintSrc(dests[i]) \o Text("=")]
<1>3. Become(FlattenSeq(f) \o PrintSrc(node.src))  BY DEF PrintChainStore
<1> HIDE DEF dests
<1>4. ASSUME NEW i \in 1 .. Len(dests), Whole(PrintSrc(dests[i]))  PROVE Whole(f[i])
  <2>1. i \in DOMAIN dests  BY <1>2, LenProperties
  <2>2. Whole(PrintSrc(dests[i]) \o Text("="))  BY Zenon, <1>4, WholeWords, Concat
  <2> QED  BY <2>1, <2>2
<1>5. f = [i \in DOMAIN dests |-> f[i]]  OBVIOUS
<1> HIDE DEF f
<1>6. AllWhole(f)  BY <1>2, <1>4, <1>5, Mapped
<1>7. Whole(FlattenSeq(f))  BY <1>6, WholeFlatten
<1>8. Whole(FlattenSeq(f) \o PrintSrc(node.src))  BY Zenon, <1>2, <1>7, WholeNode, Concat
<1>9. node.k # "code"  BY <1>1
<1> QED  BY <1>1, <1>3, <1>8, <1>9, Became

LEMMA ImportStep ==
  ASSUME IInv, PrintImport
  PROVE  IInv'
<1>1. Doing("print") /\ node.k = "import"  BY DEF PrintImport, Printing
<1>2. node.k # "code"  BY <1>1
<1> DEFINE stores == node.stores
<1>3. stores \in Seq([src : STRING, dest : STRING])  BY <1>1, NodeHere DEF WellFormed
<1> DEFINE f == [i \in DOMAIN stores |->
                   Text(stores[i].src) \o Opt(stores[i].src # stores[i].dest, Text("as") \o Text(stores[i].dest))]
<1> DEFINE from == Text("from") \o Text(node.name) \o Text("import") \o Commas(f)
<1>4. Become(Text("import") \o Text(node.name)) \/ Become(from)  BY DEF PrintImport
<1>5. Len(stores) \in Nat /\ DOMAIN stores = 1 .. Len(stores)  BY <1>3, LenProperties
<1> HIDE DEF stores
<1>6. ASSUME NEW i \in 1 .. Len(stores)  PROVE Whole(f[i])
  <2>1. Whole(Text("as") \o Text(stores[i].dest))  BY Zenon, WholeWords, Concat
  <2>2. Whole(Opt(stores[i].src # stores[i].dest, Text("as") \o Text(stores[i].dest)))
    BY <2>1, WholeWords DEF Opt
  <2>3. Whole(Text(stores[i].src) \o Opt(stores[i].src # stores[i].dest, Text("as") \o Text(stores[i].dest)))
    BY Zenon, <2>2, WholeWords, Concat
  <2> QED  BY <1>5, <2>3
<1>7. f = [i \in 1 .. Len(stores) |-> f[i]]  BY <1>5
<1> HIDE DEF f
<1>8. AllWhole(f)  BY <1>5, <1>6, <1>7, AllOf
<1>9. Whole(Commas(f))  BY <1>8, WholeWords, WholeJoined
<1>10. Whole(from)  BY Zenon, <1>9, WholeWords, Concat
<1>11. Whole(Text("import") \o Text(node.name))  BY Zenon, WholeWords, Concat
<1> HIDE DEF from
<1> QED  BY <1>1, <1>2, <1>4, <1>10, <1>11, Became

LEMMA StoreImportStep ==
  ASSUME IInv, StoreImport
  PROVE  IInv'
<1>1. Doing("print") /\ node.k = "store" /\ node.src.k = "import"  BY DEF StoreImport, Printing
<1>2. node.k # "code"  BY <1>1
<1>3. node.src \in Nodes /\ node.dest \in Nodes  BY <1>1, NodeHere DEF WellFormed
<1>4. node.src.fromlist \in Seq(STRING)  BY <1>1, <1>3, WholeNode DEF WellFormed
<1> DEFINE names == [i \in DOMAIN node.src.fromlist |-> Text(node.src.fromlist[i])]
<1> DEFINE from == Text("from") \o Text(node.src.name) \o Text("import") \o Commas(names)
<1> DEFINE as == Opt(node.dest.id # node.src.name, Text("as") \o PrintSrc(node.dest))
<1> DEFINE plain == Text("import") \o Text(node.src.name) \o as
<1>5. Become(from) \/ Become(plain)  BY DEF StoreImport
<1>6. AllWhole(names)  BY <1>4, NamesWhole
<1> HIDE DEF names
<1>7. Whole(Commas(names))  BY <1>6, WholeWords, WholeJoined
<1>8. Whole(from)  BY Zenon, <1>7, WholeWords, Concat
<1>9. Whole(as)
  <2>1. Whole(Text("as") \o PrintSrc(node.dest))  BY Zenon, <1>3, WholeNode, WholeWords, Concat
  <2> QED  BY <2>1, WholeWords DEF Opt
<1> HIDE DEF as
<1>10. Whole(plain)  BY Zenon, <1>9, WholeWords, Concat
<1> HIDE DEF from, plain
<1> QED  BY <1>1, <1>2, <1>5, <1>8, <1>10, Became

-----------------------------------------------------------------------------
(* decompyle and the entries that are no call of print_src *)

\* a list of statements that does not end with what is taken from its head
EndsWell(nodes) == nodes \in Seq(Nodes) /\ nodes # <<>> /\ ~HeadStore(Last(nodes))

LEMMA WithoutFirst ==
  ASSUME NEW nodes, EndsWell(nodes), HeadStore(nodes[1])
  PROVE  EndsWell(Tail(nodes))
<1>1. nodes \in Seq(Nodes) /\ nodes # <<>> /\ Last(nodes) = nodes[Len(nodes)]  BY DEF EndsWell, Last
<1>2. Len(nodes) # 1  BY <1>1 DEF EndsWell
<1>3. Len(nodes) \in Nat /\ Len(nodes) # 0  BY <1>1, LenProperties, EmptySeq
<1>4. Tail(nodes) \in Seq(Nodes) /\ Len(Tail(nodes)) = Len(nodes) - 1
      /\ \A i \in 1 .. Len(nodes) - 1 : Tail(nodes)[i] = nodes[i + 1]
  BY <1>1, HeadTailProperties
<1>5. Len(nodes) - 1 \in 1 .. Len(nodes) - 1 /\ (Len(nodes) - 1) + 1 = Len(nodes) /\ Len(nodes) - 1 # 0
  <2>1. \A n \in Nat : n # 0 /\ n # 1 => n - 1 \in 1 .. n - 1 /\ (n - 1) + 1 = n /\ n - 1 # 0  BY SMT
  <2> HIDE DEF EndsWell
  <2> QED  BY Zenon, <1>2, <1>3, <2>1
<1>6. Tail(nodes)[Len(nodes) - 1] = nodes[Len(nodes)]  BY <1>4, <1>5
<1>7. Last(Tail(nodes)) = Last(nodes)  BY <1>1, <1>4, <1>6 DEF Last
<1>8. Tail(nodes) # <<>>  BY <1>4, <1>5, EmptySeq
<1> QED  BY <1>4, <1>7, <1>8 DEF EndsWell

LEMMA NamesTaken ==
  ASSUME NEW nodes, EndsWell(nodes)
  PROVE  EndsWell(WithoutNames(nodes))
<1> DEFINE rest == IF Stores(nodes[1], "__module__") /\ nodes[1].src = Name("__name__")
                     THEN Tail(nodes) ELSE nodes
<1>1. EndsWell(rest)
  <2>1. Stores(nodes[1], "__module__") => EndsWell(Tail(nodes))  BY WithoutFirst DEF HeadStore
  <2> QED  BY <2>1
<1>2. WithoutNames(nodes) = IF Stores(rest[1], "__qualname__") THEN Tail(rest) ELSE rest
  BY DEF WithoutNames
<1> HIDE DEF rest
<1>3. Stores(rest[1], "__qualname__") => EndsWell(Tail(rest))  BY <1>1, WithoutFirst DEF HeadStore
<1> QED  BY <1>1, <1>2, <1>3

LEMMA ReturnTaken ==
  ASSUME NEW nodes, EndsWell(nodes)
  PROVE  WithoutReturn(nodes) \in Seq(Nodes)
<1>1. nodes \in Seq(Nodes) /\ nodes # <<>>  BY DEF EndsWell
<1>2. Len(nodes) \in Nat /\ 1 \in Int /\ Len(nodes) - 1 \in Int /\ 1 .. Len(nodes) - 1 \subseteq 1 .. Len(nodes)
  BY <1>1, LenProperties
<1>3. \A i \in 1 .. Len(nodes) - 1 : nodes[i] \in Nodes  BY <1>1, <1>2, ElementOfSeq
<1>4. Front(nodes) \in Seq(Nodes)  BY <1>2, <1>3, SubSeqProperties DEF Front
<1> QED  BY <1>1, <1>4 DEF WithoutReturn

LEMMA DecompyleStep ==
  ASSUME IInv, Decompyle
  PROVE  IInv'
<1>1. Doing("print") /\ node.k = "code"  BY DEF Decompyle, Printing
<1>2. todo # <<>> /\ entry.do = "print"  BY <1>1 DEF Doing, entry
<1> DEFINE c == node.code
<1>3. IsCode(c)  BY <1>1, NodeHere DEF WellFormed
<1> DEFINE named == WithoutNames(c.nodes)
<1> DEFINE classDoc == c.built /\ printClassDocstring /\ IsDocstring(named[1])
<1> DEFINE clean == IF c.built THEN WithoutReturn(IF classDoc THEN Tail(named) ELSE named) ELSE c.nodes
<1> DEFINE body == IF clean = <<>> /\ c # module THEN <<Pass>> ELSE clean
<1> DEFINE doc == Opt(classDoc, DocstringLine(IF c.name = "<module>" THEN 0 ELSE 1))
<1> DEFINE const0 == Opt(c.const0, DocstringLine(1))
<1> DEFINE names == [i \in DOMAIN c.globals |-> Text(c.globals[i])]
<1> DEFINE globals == Opt(c.globals # <<>>, StartLine(1) \o Text("global") \o Commas(names) \o NewLine)
<1> DEFINE both == Opt(printDocstringAndGlobals, const0 \o globals)
<1> DEFINE s == doc \o both \o PrintSrc(NodeList(body)) \o Warning(c.built) \o Printed
<1>4. todo' = s \o Tail(todo)  BY DEF Decompyle
<1>5. body \in Seq(Nodes \cup {Pass})
  <2>1. clean \in Seq(Nodes)
    <3>1. CASE ~c.built  BY <1>3, <3>1 DEF IsCode
    <3>2. CASE c.built
      <4>1. EndsWell(c.nodes)  BY <1>3, <3>2 DEF IsCode, EndsWell
      <4> HIDE DEF c
      <4>2. EndsWell(named)  BY <4>1, NamesTaken
      <4> HIDE DEF named
      <4>3. classDoc => EndsWell(Tail(named))  BY <4>2, WithoutFirst DEF HeadStore
      <4> DEFINE kept == IF classDoc THEN Tail(named) ELSE named
      <4>4. EndsWell(kept)  BY <4>2, <4>3
      <4>5. clean = WithoutReturn(kept)  BY <3>2
      <4> HIDE DEF kept, clean
      <4> QED  BY <4>4, <4>5, ReturnTaken
    <3> QED  BY <3>1, <3>2
  <2> HIDE DEF clean
  <2>2. <<Pass>> \in Seq(Nodes \cup {Pass})  OBVIOUS
  <2>3. clean \in Seq(Nodes \cup {Pass})
    <3>1. IsSeq(clean)  BY <2>1, SeqIsSeq
    <3>2. \A i \in 1 .. Len(clean) : clean[i] \in Nodes \cup {Pass}  BY <2>1, ElementOfSeq
    <3> QED  BY <3>1, <3>2, IsSeqElements
  <2> QED  BY <2>2, <2>3
<1> HIDE DEF classDoc, body
<1>6. Whole(PrintSrc(NodeList(body)))
  <2>1. WellFormed(NodeList(body))  BY <1>5 DEF WellFormed, NodeList
  <2> QED  BY <2>1, WholePrint
<1>7. ASSUME NEW d  PROVE Whole(DocstringLine(d))
  <2>1. Whole(StartLine(d) \o Text("doc") \o NewLine)  BY Zenon, WholeWords, Concat
  <2> QED  BY <2>1 DEF DocstringLine
<1>8. Whole(doc) /\ Whole(const0)  BY <1>7, WholeWords DEF Opt
<1>9. AllWhole(names)  BY <1>3, NamesWhole DEF IsCode
<1> HIDE DEF names
<1>10. Whole(globals)
  <2>1. Whole(Commas(names))  BY <1>9, WholeWords, WholeJoined
  <2>2. Whole(StartLine(1) \o Text("global") \o Commas(names) \o NewLine)  BY Zenon, <2>1, WholeWords, Concat
  <2> QED  BY <2>2, WholeWords DEF Opt
<1> HIDE DEF const0, globals, doc
<1>11. Whole(both)
  <2>1. Whole(const0 \o globals)  BY Zenon, <1>8, <1>10, Concat
  <2> QED  BY <2>1, WholeWords DEF Opt
<1> HIDE DEF both
<1> DEFINE r == doc \o both \o PrintSrc(NodeList(body)) \o Warning(c.built)
<1>12. Whole(r)  BY Zenon, <1>6, <1>8, <1>11, WholeWords, Concat
<1> HIDE DEF r
<1>13. Whole(r \o Printed) /\ EndsPrinted(r \o Printed)
  <2>1. Whole(r \o Printed)  BY <1>12, WholeWords, Concat
  <2>2. IsSeq(r) /\ IsSeq(Printed) /\ EndsPrinted(Printed)
    <3>1. IsSeq(Printed) /\ Len(Printed) = 1 /\ Printed[1].do = "printed"  BY OneIsSeq DEF Printed
    <3>2. Printed # <<>>  BY <3>1, EmptyIsSeq
    <3> QED  BY <1>12, <3>1, <3>2 DEF EndsPrinted, Whole, Sound
  <2> QED  BY <2>1, <2>2, Behind
<1>14. Whole(s) /\ EndsPrinted(s)  BY <1>13 DEF r
<1> HIDE DEF s
<1>15. UNCHANGED <<cur_indent, inLambda, threw>> /\ FlagsArrive'
  BY DEF Decompyle, Keeps, TakeFlags, FlagsArrive
<1>16. By(entry) = 0 /\ entry.do # "lambda"  BY <1>2 DEF By
<1> QED  BY <1>2, <1>4, <1>14, <1>15, <1>16, Expanded

LEMMA EmitStep ==
  ASSUME IInv, Emit \/ SetIndent
  PROVE  IInv'
<1>1. todo # <<>> /\ entry.do \in {"text", "start", "end", "newline", "indent"}
  BY DEF Emit, SetIndent, Doing, entry
<1>2. todo' = Tail(todo) /\ UNCHANGED <<flags, threw>>  BY DEF Emit, SetIndent, Keeps
<1>3. cur_indent' = cur_indent + By(entry)
  <2>1. CASE Emit
    <3>1. By(entry) = 0 /\ cur_indent' = cur_indent  BY <2>1 DEF Emit, Keeps, By, Doing, entry
    <3> QED  BY <3>1 DEF IInv
  <2>2. CASE SetIndent  BY <2>2 DEF SetIndent, By, Doing, entry
  <2> QED  BY <2>1, <2>2
<1>4. ~Printing("code")  BY <1>1 DEF Printing, Doing, entry
<1>5. ~printDocstringAndGlobals /\ ~printClassDocstring  BY <1>1, <1>4, NoFlags
<1>6. FlagsArrive'  BY <1>2, <1>5 DEF FlagsArrive, flags
<1> QED  BY <1>1, <1>2, <1>3, <1>4, <1>6, Popped DEF flags

LEMMA WarnStep ==
  ASSUME IInv, Warn
  PROVE  IInv'
<1>1. todo # <<>> /\ entry.do = "warning"  BY DEF Warn, Doing, entry
<1>2. ~Printing("code")  BY <1>1 DEF Printing, Doing, entry
<1>3. ~printDocstringAndGlobals /\ ~printClassDocstring  BY <1>1, <1>2, NoFlags
<1>4. UNCHANGED <<cur_indent, flags, threw>>  BY DEF Warn, Keeps
<1>5. FlagsArrive'  BY <1>3, <1>4 DEF FlagsArrive, flags
<1>6. By(entry) = 0 /\ cur_indent + 0 = cur_indent  BY <1>1 DEF By, IInv
<1> DEFINE s == StartLine(0) \o Text("# WARNING") \o NewLine
<1>7. todo' = Tail(todo) \/ todo' = s \o Tail(todo)  BY DEF Warn
<1>8. Whole(s)  BY Zenon, WholeWords, Concat
<1> HIDE DEF s
<1>9. CASE todo' = Tail(todo)  BY <1>1, <1>2, <1>4, <1>5, <1>6, <1>9, Popped DEF flags
<1>10. CASE todo' = s \o Tail(todo)
  <2>1. Tail(todo) # <<>>  BY <1>1, <1>2, Took
  <2> QED  BY <1>1, <1>4, <1>5, <1>6, <1>8, <1>10, <2>1, Expanded DEF flags
<1> QED  BY <1>7, <1>9, <1>10

LEMMA FlagSteps ==
  ASSUME IInv, SetFunction \/ SetClass
  PROVE  IInv'
<1>1. todo # <<>> /\ entry.do \in {"function", "class"}  BY DEF SetFunction, SetClass, Doing, entry
<1>2. ~Printing("code")  BY <1>1 DEF Printing, Doing, entry
<1>3. ~printDocstringAndGlobals /\ ~printClassDocstring  BY <1>1, <1>2, NoFlags
<1>4. todo' = Tail(todo) /\ UNCHANGED <<cur_indent, inLambda, threw>>  BY DEF SetFunction, SetClass, Keeps
<1>5. By(entry) = 0 /\ cur_indent + 0 = cur_indent  BY <1>1 DEF By, IInv
<1>6. FlagsArrive'
  <2>1. CASE SetFunction
    <3>1. entry.do = "function"  BY <2>1 DEF SetFunction, Doing, entry
    <3>2. todo' # <<>> /\ Head(todo').do = "body"  BY <1>1, <1>4, <3>1, Took
    <3>3. ~printClassDocstring'  BY <1>3, <2>1 DEF SetFunction, Keeps
    <3> QED  BY <3>2, <3>3 DEF FlagsArrive, Doing
  <2>2. CASE SetClass
    <3>1. entry.do = "class"  BY <2>2 DEF SetClass, Doing, entry
    <3>2. todo' # <<>> /\ Head(todo').do = "print" /\ Head(todo').node.k = "code"  BY <1>1, <1>4, <3>1, Took
    <3>3. ~printDocstringAndGlobals'  BY <1>3, <2>2 DEF SetClass, Keeps
    <3> QED  BY <3>2, <3>3 DEF FlagsArrive, Doing, Printing, node, entry
  <2> QED  BY <2>1, <2>2
<1> QED  BY <1>1, <1>2, <1>4, <1>5, <1>6, Popped

LEMMA CleanStep ==
  ASSUME IInv, SetClean
  PROVE  IInv'
<1>1. todo # <<>> /\ entry.do = "printed"  BY DEF SetClean, Doing, entry
<1>2. ~Printing("code")  BY <1>1 DEF Printing, Doing, entry
<1>3. ~printDocstringAndGlobals /\ ~printClassDocstring  BY <1>1, <1>2, NoFlags
<1>4. todo' = Tail(todo) /\ UNCHANGED <<cur_indent, inLambda, threw>> /\ cleanBuild'
  BY DEF SetClean, Keeps
<1>5. FlagsArrive'  BY <1>3 DEF SetClean, Keeps, FlagsArrive
<1>6. By(entry) = 0 /\ cur_indent + 0 = cur_indent  BY <1>1 DEF By, IInv
<1>7. /\ ~threw /\ cur_indent \in Int /\ inLambda \in BOOLEAN
      /\ Sound(Tail(todo), cur_indent, -1)
      /\ LambdaEnds(Tail(todo), inLambda)
      /\ Tail(todo) # <<>> => EndsPrinted(Tail(todo))
  BY <1>1, <1>6, Took DEF IInv
<1>8. Remaining'  BY <1>4, <1>5, <1>7 DEF Remaining
<1> QED  BY <1>4, <1>7, <1>8 DEF IInv

LEMMA LambdaStep ==
  ASSUME IInv, SetInLambda
  PROVE  IInv'
<1>1. todo # <<>> /\ entry.do = "lambda"  BY DEF SetInLambda, Doing, entry
<1>2. ~Printing("code")  BY <1>1 DEF Printing, Doing, entry
<1>3. ~printDocstringAndGlobals /\ ~printClassDocstring  BY <1>1, <1>2, NoFlags
<1>4. todo' = Tail(todo) /\ UNCHANGED <<cur_indent, threw>> /\ inLambda' = entry.on
  BY DEF SetInLambda, Keeps
<1>5. FlagsArrive'  BY <1>3 DEF SetInLambda, Keeps, FlagsArrive
<1>6. By(entry) = 0 /\ cur_indent + 0 = cur_indent  BY <1>1 DEF By, IInv
<1>7. /\ ~threw /\ cur_indent \in Int /\ entry.on \in BOOLEAN
      /\ Sound(Tail(todo), cur_indent, -1)
      /\ LambdaEnds(Tail(todo), entry.on)
      /\ Tail(todo) # <<>> /\ EndsPrinted(Tail(todo))
  BY <1>1, <1>2, <1>6, Took DEF IInv, EntryOK
<1>8. Remaining'  BY <1>4, <1>5, <1>7 DEF Remaining
<1> QED  BY <1>4, <1>7, <1>8 DEF IInv

\* preLambda is put back behind the code: until then something turns it off
LEMMA BodyStep ==
  ASSUME IInv, EnterBody
  PROVE  IInv'
<1>1. todo # <<>> /\ entry.do = "body"  BY DEF EnterBody, Doing, entry
<1>2. ~Printing("code")  BY <1>1 DEF Printing, Doing, entry
<1>3. By(entry) = 0 /\ cur_indent + 0 = cur_indent  BY <1>1 DEF By, IInv
<1>4. /\ ~threw /\ cur_indent \in Int /\ inLambda \in BOOLEAN
      /\ IsCode(entry.code) /\ entry.on \in BOOLEAN
      /\ Sound(Tail(todo), cur_indent, -1)
      /\ LambdaEnds(Tail(todo), inLambda)
      /\ Tail(todo) # <<>> /\ EndsPrinted(Tail(todo)) /\ IsSeq(Tail(todo))
  BY <1>1, <1>2, <1>3, Took DEF IInv, EntryOK
<1> DEFINE u == Tail(todo)
<1> DEFINE p == PrintSrc(Code(entry.code))
<1> DEFINE back == [do |-> "lambda", on |-> inLambda]
<1>5. /\ todo' = (p \o <<back>>) \o u
      /\ UNCHANGED <<cur_indent, printDocstringAndGlobals, printClassDocstring, threw>>
      /\ inLambda' = (inLambda \/ entry.on)
  BY DEF EnterBody, Keeps, InLambda
<1>6. EntryOK(back) /\ By(back) = 0 /\ back.do = "lambda" /\ (inLambda \/ Off(back))
  BY <1>4 DEF EntryOK, By, Off
<1>7. Whole(p)  BY <1>4, WholeCode
<1>8. IsSeq(<<back>>) /\ Len(<<back>>) = 1 /\ <<back>>[1] = back  BY OneIsSeq
<1>9. IsSeq(p) /\ Len(p) = 1 /\ p[1] = [do |-> "print", node |-> Code(entry.code)]
  BY OneIsSeq DEF PrintSrc
<1> HIDE DEF u, p, back
<1>10. (p \o <<back>>) \o u = p \o (<<back>> \o u)
  <2>1. IsSeq(u)  BY <1>4 DEF u
  <2> DEFINE b == <<back>>
  <2>2. IsSeq(b) /\ IsSeq(p)  BY <1>8, <1>9
  <2> HIDE DEF b
  <2>3. (p \o b) \o u = p \o (b \o u)  BY <2>1, <2>2, ConcatAssoc
  <2> QED  BY <2>3 DEF b
<1>11. Off(back) \/ \E j \in 1 .. Len(u) : Off(u[j])  BY <1>4, <1>6 DEF LambdaEnds, u
<1>12. Sound(<<back>> \o u, cur_indent, -1)
  <2>1. Sound(u, cur_indent + By(back), -1)  BY <1>3, <1>4, <1>6 DEF u
  <2> QED  BY <1>4, <1>6, <1>11, <2>1, SoundCons
<1>13. Sound(todo', cur_indent, -1)
  <2>1. Sound(p, cur_indent, cur_indent)  BY <1>4, <1>7, WholeFrom
  <2> QED  BY <1>5, <1>10, <1>12, <2>1, SoundConcat
<1>14. IsSeq(<<back>> \o u)  BY <1>12 DEF Sound
<1>15. LambdaEnds(<<back>> \o u, TRUE) /\ EndsPrinted(<<back>> \o u)
  <2>1. EndsPrinted(<<back>> \o u)  BY <1>4, <1>8, Behind DEF u
  <2>2. CASE inLambda
    <3>1. LambdaEnds(u, TRUE)  BY <1>4, <2>2 DEF LambdaEnds, u
    <3> QED  BY <1>4, <1>8, <2>1, <3>1, Behind DEF u
  <2>3. CASE Off(back)
    <3>1. Len(u) \in Nat  BY <1>4 DEF IsSeq, u
    <3>2. Len(<<back>> \o u) = 1 + Len(u) /\ (<<back>> \o u)[1] = back
      BY <1>4, <1>8, <3>1, ConcatSeq DEF u
    <3>3. 1 \in 1 .. Len(<<back>> \o u)  BY <3>1, <3>2
    <3> QED  BY <2>1, <2>3, <3>2, <3>3 DEF LambdaEnds
  <2> QED  BY <1>6, <2>2, <2>3
<1>16. LambdaEnds(todo', inLambda') /\ EndsPrinted(todo')
  <2>1. LambdaEnds(todo', TRUE) /\ EndsPrinted(todo')
    BY <1>5, <1>9, <1>10, <1>14, <1>15, Behind
  <2> QED  BY <2>1 DEF LambdaEnds
<1>17. FlagsArrive'
  <2>1. todo' # <<>>  BY <1>16 DEF EndsPrinted
  <2>2. IsSeq(todo')  BY <1>13 DEF Sound
  <2>3. todo'[1] = p[1]
    <3>1. Len(<<back>> \o u) \in Nat  BY <1>14 DEF IsSeq
    <3>2. 1 \in 1 .. 1 + Len(<<back>> \o u) /\ 1 <= 1  BY <3>1
    <3>3. todo' = p \o (<<back>> \o u)  BY Zenon, <1>5, <1>10
    <3>4. (p \o (<<back>> \o u))[1] = p[1]  BY <1>9, <1>14, <3>2, ConcatSeq
    <3> QED  BY Zenon, <3>3, <3>4
  <2>4. Head(todo') = todo'[1]  BY <2>1, <2>2, TailSeq
  <2>5. Head(todo').do = "print" /\ Head(todo').node.k = "code"  BY <1>9, <2>3, <2>4 DEF Code
  <2> QED  BY <2>1, <2>5 DEF FlagsArrive, Printing, Doing, node, entry
<1>18. todo' # <<>>  BY <1>16 DEF EndsPrinted
<1>19. Remaining'  BY <1>5, <1>13, <1>16, <1>17, <1>18 DEF Remaining
<1> QED  BY <1>4, <1>5, <1>19 DEF IInv

LEMMA ThrowStep ==
  ASSUME IInv, Throw
  PROVE  IInv'
<1>1. todo # <<>> /\ entry.do = "crash"  BY DEF Throw, Doing, entry
<1>2. ~Printing("code")  BY <1>1 DEF Printing, Doing, entry
<1>3. ~printDocstringAndGlobals /\ ~printClassDocstring  BY <1>1, <1>2, NoFlags
<1> QED  BY <1>3 DEF Throw, IInv, flags

LEMMA NextInv ==
  ASSUME IInv, [Next]_vars
  PROVE  IInv'
<1>1. CASE Emit \/ SetIndent  BY <1>1, EmitStep
<1>2. CASE SetClean  BY <1>2, CleanStep
<1>3. CASE SetInLambda  BY <1>3, LambdaStep
<1>4. CASE EnterBody  BY <1>4, BodyStep
<1>5. CASE SetFunction \/ SetClass  BY <1>5, FlagSteps
<1>6. CASE Throw  BY <1>6, ThrowStep
<1>7. CASE PrintExpression
  BY <1>7, NullStep, BinaryStep, UnaryStep, CallStep, WordSteps, DisplayStep, ConstMapStep,
     ComprehensionStep, SubscrStep, TupleStep, TernaryStep, FunctionStep, UnsupportedStep
  DEF PrintExpression
<1>8. CASE PrintStatement
  BY <1>8, WordSteps, RaiseStep, PrintStep, ExecStep, ReturnStep, NodeListStep, BlockStep,
     StoreFunctionStep, StoreClassStep, StoreValueStep, StoreImportStep, ChainStoreStep, ImportStep
  DEF PrintStatement
<1>9. CASE Decompyle  BY <1>9, DecompyleStep
<1>10. CASE Warn  BY <1>10, WarnStep
<1>11. CASE UNCHANGED vars
  BY <1>11 DEF vars, IInv, Remaining, FlagsArrive, Printing, Doing, node, entry
<1> QED  BY <1>1, <1>2, <1>3, <1>4, <1>5, <1>6, <1>7, <1>8, <1>9, <1>10, <1>11 DEF Next

-----------------------------------------------------------------------------
LEMMA InvProperties ==
  ASSUME IInv
  PROVE  FlagsArrive /\ GlobalsAtEnd
<1>1. FlagsArrive  BY DEF IInv, Remaining, FlagsArrive
<1>2. ASSUME todo = <<>>, ~threw
      PROVE  cur_indent = -1 /\ ~inLambda /\ ~printDocstringAndGlobals /\ ~printClassDocstring /\ cleanBuild
  <2>1. Remaining /\ inLambda \in BOOLEAN  BY <1>2 DEF IInv
  <2>2. IsSeq(<<>>) /\ Len(<<>>) = 0  BY EmptyIsSeq
  <2>3. PICK d \in [1 .. 0 + 1 -> Int] : d[1] = cur_indent /\ d[0 + 1] = -1
    BY <1>2, <2>1, <2>2 DEF Remaining, Sound, Leads
  <2>4. cur_indent = -1  BY <2>3
  <2>5. ~inLambda  BY <1>2, <2>1, <2>2 DEF Remaining, LambdaEnds
  <2>6. cleanBuild /\ ~printDocstringAndGlobals /\ ~printClassDocstring  BY <1>2, <2>1 DEF Remaining, FlagsArrive
  <2> QED  BY <2>4, <2>5, <2>6
<1> QED  BY <1>1, <1>2 DEF GlobalsAtEnd

\* Whatever the statements and expressions of a file are and however its
\* functions, classes and lambdas are nested: a flag that print_src sets in
\* front of a code object is taken by that code object and by no other.
THEOREM FlagsAlwaysArrive == Spec => []FlagsArrive
<1>1. Init => IInv  BY InitInv
<1>2. IInv /\ [Next]_vars => IInv'  BY NextInv
<1>3. IInv => FlagsArrive  BY InvProperties
<1> QED  BY <1>1, <1>2, <1>3, PTL DEF Spec

\* Whatever the statements and expressions of a file are: when it has been
\* printed to its end, without an exception, the indentation, inLambda and the
\* flag for a function's docstring are what they were before it.  The flag for
\* the module's and the classes' docstrings, set before it, is no longer set,
\* and cleanBuild, not set before it, is.
THEOREM GlobalsEndRight == Spec => []GlobalsAtEnd
<1>1. Init => IInv  BY InitInv
<1>2. IInv /\ [Next]_vars => IInv'  BY NextInv
<1>3. IInv => GlobalsAtEnd  BY InvProperties
<1> QED  BY <1>1, <1>2, <1>3, PTL DEF Spec

=============================================================================
