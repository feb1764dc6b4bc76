-------------------------- MODULE HttpParserProofs --------------------------
(***************************************************************************)
(* Proofs about HttpParser, for any menu of well-formed requests, any      *)
(* number of them and any way their text is cut into reads: requests whose *)
(* headers arrive together are answered as they were sent, and requests    *)
(* that are understood never wait for text that is not coming.             *)
(***************************************************************************)
EXTENDS HttpParser, FiniteSetTheorems, SequenceTheorems, TLAPS

(* Induction over the natural numbers with a set for the predicate, and    *)
(* with it what FlattenSeq, a recursive function of SequencesExt, computes *)
(* for every sequence of sequences.                                        *)

(* A non-empty set of naturals has a least element: of the intervals 1..m  *)
(* one is minimal under inclusion.                                         *)
LEMMA LeastElement ==
  ASSUME NEW S \in SUBSET Nat, S # {}
  PROVE  \E m \in S : \A n \in S : m <= n
<1> DEFINE R == StrictSubsetOrdering(Nat)
           D == FiniteSubsetsOf(Nat)
           T == {1..m : m \in S}
<1>1. IsWellFoundedOn(R, D)
  BY FS_StrictSubsetOrderingWellFounded
<1>2. T \subseteq D /\ T # {}
  <2>1. \A m \in Nat : 1..m \in D
    BY FS_Interval DEF FiniteSubsetsOf
  <2> HIDE DEF D
  <2> QED BY <2>1
<1>3. PICK x \in T : \A y \in T : ~(<<y, x>> \in R)
  <2> HIDE DEF R, D, T
  <2> QED BY <1>1, <1>2, WFMin
<1>4. PICK m \in S : x = 1..m
  OBVIOUS
<1>5. ASSUME NEW n \in S, n < m PROVE FALSE
  <2>1. 1..n \in T /\ 1..n \subseteq 1..m
    BY <1>5
  <2>2. m \in 1..m /\ m \notin 1..n
    BY <1>5
  <2>3. <<1..n, x>> \in R
    BY <1>4, <2>1, <2>2 DEF StrictSubsetOrdering
  <2> QED BY <1>3, <2>1, <2>3
<1> QED BY <1>5

(* Induction: a set with 0 and with n + 1 for each n in it is all of Nat.  *)
LEMMA InductionOverSet ==
  ASSUME NEW P \in SUBSET Nat, 0 \in P, \A n \in P : n + 1 \in P
  PROVE  P = Nat
<1> SUFFICES ASSUME Nat \ P # {} PROVE FALSE
  OBVIOUS
<1>1. PICK m \in Nat \ P : \A n \in Nat \ P : m <= n
  BY LeastElement
<1>2. m # 0 /\ m - 1 \in Nat /\ m - 1 < m /\ (m - 1) + 1 = m
  BY <1>1
<1>3. m - 1 \in P
  BY <1>1, <1>2
<1> QED BY <1>1, <1>2, <1>3

(* f is the function FlattenSeq chooses, for the first n of ss.            *)
Flattens(f, ss, n) ==
  f = [i \in 1..n |-> IF i = 1 THEN ss[i] ELSE f[i - 1] \o ss[i]]

(* There is one for each length.                                           *)
LEMMA FlattensExists ==
  ASSUME NEW ss, NEW n \in Nat
  PROVE  \E f : Flattens(f, ss, n)
<1> DEFINE P == {k \in Nat : \E f : Flattens(f, ss, k)}
<1>1. 0 \in P
  <2>1. Flattens([i \in 1..0 |-> <<>>], ss, 0)
    BY DEF Flattens
  <2> QED BY <2>1
<1>2. ASSUME NEW k \in P PROVE k + 1 \in P
  <2>1. PICK f : Flattens(f, ss, k)
    OBVIOUS
  <2> DEFINE g == [i \in 1..(k + 1) |->
                     IF i = k + 1 THEN (IF i = 1 THEN ss[i] ELSE f[i - 1] \o ss[i])
                                  ELSE f[i]]
  <2>2. \A i \in 1..k : f[i] = IF i = 1 THEN ss[i] ELSE f[i - 1] \o ss[i]
    BY <2>1 DEF Flattens
  <2>3. \A i \in 1..(k + 1) : g[i] = IF i = 1 THEN ss[i] ELSE g[i - 1] \o ss[i]
    <3>1. SUFFICES ASSUME NEW i \in 1..(k + 1)
                   PROVE  g[i] = IF i = 1 THEN ss[i] ELSE g[i - 1] \o ss[i]
      OBVIOUS
    <3>2. i # 1 => i - 1 \in 1..k /\ g[i - 1] = f[i - 1]
      OBVIOUS
    <3> QED BY <2>2, <3>2
  <2>4. Flattens(g, ss, k + 1)
    BY <2>3 DEF Flattens
  <2> QED BY <2>4
<1> HIDE DEF P
<1>3. P = Nat
  BY <1>1, <1>2, InductionOverSet DEF P
<1> QED BY <1>3 DEF P

(* And only one: it begins like that of any longer sequence.               *)
LEMMA FlattensUnique ==
  ASSUME NEW m \in Nat, NEW ss, NEW tt, NEW f, NEW g,
         \A i \in 1..m : ss[i] = tt[i],
         Flattens(f, ss, m), Flattens(g, tt, m + 1)
  PROVE  \A i \in 1..m : f[i] = g[i]
<1> DEFINE P == {k \in Nat : k \in 1..m => f[k] = g[k]}
<1>1. /\ \A i \in 1..m : f[i] = IF i = 1 THEN ss[i] ELSE f[i - 1] \o ss[i]
      /\ \A i \in 1..(m + 1) : g[i] = IF i = 1 THEN tt[i] ELSE g[i - 1] \o tt[i]
  BY DEF Flattens
<1>2. ASSUME NEW k \in P PROVE k + 1 \in P
  <2>1. SUFFICES ASSUME k + 1 \in 1..m PROVE f[k + 1] = g[k + 1]
    OBVIOUS
  <2>2. CASE k = 0
    BY <1>1, <2>1, <2>2
  <2>3. CASE k # 0
    <3>1. k \in 1..m /\ k + 1 \in 1..(m + 1) /\ k + 1 # 1 /\ (k + 1) - 1 = k
      BY <2>1, <2>3
    <3>2. f[k] = g[k]
      BY <3>1
    <3> QED BY <1>1, <2>1, <3>1, <3>2
  <2> QED BY <2>2, <2>3
<1>3. 0 \in P
  OBVIOUS
<1> HIDE DEF P
<1>4. P = Nat
  BY <1>2, <1>3, InductionOverSet DEF P
<1> QED BY <1>4 DEF P

(* FlattenSeq as such a function.                                          *)
LEMMA FlattenValue ==
  ASSUME NEW T, NEW ss \in Seq(Seq(T))
  PROVE  \E f : /\ Flattens(f, ss, Len(ss))
                /\ FlattenSeq(ss) = IF ss = <<>> THEN <<>> ELSE f[Len(ss)]
<1> DEFINE n == Len(ss)
           f == CHOOSE h : Flattens(h, ss, n)
<1>1. Flattens(f, ss, n)
  <2>1. n \in Nat
    OBVIOUS
  <2> HIDE DEF n
  <2>2. \E h : Flattens(h, ss, n)
    BY <2>1, FlattensExists
  <2> QED BY <2>2
<1>2. FlattenSeq(ss) = IF n = 0 THEN <<>> ELSE f[n]
  BY DEF FlattenSeq, Flattens
<1>3. n = 0 <=> ss = <<>>
  OBVIOUS
<1> QED BY <1>1, <1>2, <1>3

(* Flattening keeps to the elements. *)
LEMMA FlattenType ==
  ASSUME NEW T, NEW ss \in Seq(Seq(T))
  PROVE  FlattenSeq(ss) \in Seq(T)
<1> DEFINE n == Len(ss)
<1>1. n \in Nat /\ (n = 0 <=> ss = <<>>) /\ \A i \in 1..n : ss[i] \in Seq(T)
  OBVIOUS
<1> HIDE DEF n
<1>2. PICK f : /\ Flattens(f, ss, n)
               /\ FlattenSeq(ss) = IF ss = <<>> THEN <<>> ELSE f[n]
  BY FlattenValue DEF n
<1>3. \A i \in 1..n : f[i] = IF i = 1 THEN ss[i] ELSE f[i - 1] \o ss[i]
  BY <1>2 DEF Flattens
<1> DEFINE P == {k \in Nat : k \in 1..n => f[k] \in Seq(T)}
<1>4. 0 \in P
  OBVIOUS
<1>5. ASSUME NEW k \in P PROVE k + 1 \in P
  <2>1. SUFFICES ASSUME k + 1 \in 1..n PROVE f[k + 1] \in Seq(T)
    OBVIOUS
  <2>2. CASE k = 0
    BY <1>1, <1>3, <2>1, <2>2
  <2>3. CASE k # 0
    <3>1. k \in 1..n /\ k + 1 # 1 /\ (k + 1) - 1 = k
      BY <2>1, <2>3, <1>1
    <3>2. f[k] \in Seq(T) /\ ss[k + 1] \in Seq(T)
      BY <1>1, <2>1, <3>1
    <3>3. f[k + 1] = f[k] \o ss[k + 1]
      BY <1>3, <2>1, <3>1
    <3> QED BY <3>2, <3>3, ConcatProperties
  <2> QED BY <2>2, <2>3
<1> HIDE DEF P
<1>6. P = Nat
  BY <1>4, <1>5, InductionOverSet DEF P
<1>7. ss = <<>> \/ n \in 1..n
  BY <1>1
<1>8. <<>> \in Seq(T)
  OBVIOUS
<1> QED BY <1>1, <1>2, <1>6, <1>7, <1>8 DEF P

(* The unfolding of FlattenSeq from the back.                              *)
LEMMA FlattenAppend ==
  ASSUME NEW T, NEW ss \in Seq(Seq(T)), NEW s \in Seq(T)
  PROVE  FlattenSeq(Append(ss, s)) = FlattenSeq(ss) \o s
<1> DEFINE n == Len(ss)
           tt == Append(ss, s)
<1>1. /\ n \in Nat /\ n + 1 \in Nat /\ Len(tt) = n + 1 /\ tt[n + 1] = s
      /\ tt \in Seq(Seq(T)) /\ tt # <<>> /\ (n = 0 <=> ss = <<>>)
      /\ \A i \in 1..n : tt[i] = ss[i]
  <2>1. n \in Nat /\ (n = 0 <=> ss = <<>>)
    BY EmptySeq
  <2>2. /\ tt \in Seq(Seq(T)) /\ tt # <<>> /\ Len(tt) = n + 1
        /\ \A i \in 1..n : tt[i] = ss[i]
        /\ tt[n + 1] = s
    BY AppendProperties
  <2> QED BY <2>1, <2>2
<1> HIDE DEF n, tt
<1>2. PICK f : /\ Flattens(f, ss, n)
               /\ FlattenSeq(ss) = IF ss = <<>> THEN <<>> ELSE f[n]
  BY FlattenValue DEF n
<1>3. PICK g : Flattens(g, tt, n + 1) /\ FlattenSeq(tt) = g[n + 1]
  BY <1>1, FlattenValue
<1>4. g[n + 1] = IF n = 0 THEN s ELSE g[n] \o s
  <2>1. n + 1 \in 1..(n + 1) /\ (n + 1) - 1 = n /\ (n + 1 = 1 <=> n = 0)
    BY <1>1
  <2> QED BY <1>1, <1>3, <2>1 DEF Flattens
<1>5. \A i \in 1..n : f[i] = g[i]
  <2>1. \A i \in 1..n : ss[i] = tt[i]
    BY <1>1
  <2>2. n \in Nat
    BY <1>1
  <2>3. Flattens(f, ss, n) /\ Flattens(g, tt, n + 1)
    BY <1>2, <1>3
  <2> QED BY <2>1, <2>2, <2>3, FlattensUnique, SMTT(60)
<1>6. <<>> \o s = s
  OBVIOUS
<1>7. CASE n = 0
  BY <1>1, <1>2, <1>3, <1>4, <1>6, <1>7 DEF tt
<1>8. CASE n # 0
  <2>1. f[n] = g[n]
    BY <1>1, <1>5, <1>8
  <2>2. FlattenSeq(tt) = f[n] \o s /\ FlattenSeq(ss) = f[n]
    BY <1>1, <1>2, <1>3, <1>4, <1>8, <2>1
  <2> QED BY <2>2 DEF tt
<1> QED BY <1>7, <1>8

(* Nothing, flattened.                                                     *)
LEMMA FlattenEmpty == FlattenSeq(<<>>) = <<>>
BY DEF FlattenSeq

(* Flattening takes concatenation to concatenation.                        *)
LEMMA FlattenConcat ==
  ASSUME NEW T, NEW ss \in Seq(Seq(T)), NEW tt \in Seq(Seq(T))
  PROVE  FlattenSeq(ss \o tt) = FlattenSeq(ss) \o FlattenSeq(tt)
<1> DEFINE P == {k \in Nat : \A u \in Seq(Seq(T)) :
                   Len(u) = k => FlattenSeq(ss \o u) = FlattenSeq(ss) \o FlattenSeq(u)}
<1>1. 0 \in P
  <2>1. SUFFICES ASSUME NEW u \in Seq(Seq(T)), Len(u) = 0
                 PROVE  FlattenSeq(ss \o u) = FlattenSeq(ss) \o FlattenSeq(u)
    OBVIOUS
  <2>2. u = <<>> /\ FlattenSeq(ss) \in Seq(T)
    BY <2>1, FlattenType
  <2> QED BY <2>2, FlattenEmpty, ConcatEmptySeq
<1>2. ASSUME NEW k \in P PROVE k + 1 \in P
  <2>1. SUFFICES ASSUME NEW u \in Seq(Seq(T)), Len(u) = k + 1
                 PROVE  FlattenSeq(ss \o u) = FlattenSeq(ss) \o FlattenSeq(u)
    OBVIOUS
  <2>2. PICK v \in Seq(Seq(T)), s \in Seq(T) : u = Append(v, s)
    <3>1. u # <<>>
      BY <2>1
    <3> QED BY <3>1, SequenceEmptyOrAppend
  <2>3. Len(v) = k
    BY <2>1, <2>2
  <2>4. FlattenSeq(ss \o v) = FlattenSeq(ss) \o FlattenSeq(v)
    BY <2>3
  <2>5. ss \o u = Append(ss \o v, s)
    <3> DEFINE S == Seq(T)
    <3> HIDE DEF S
    <3>0. ss \in Seq(S) /\ v \in Seq(S) /\ s \in S
      BY DEF S
    <3>1. u = v \o <<s>> /\ <<s>> \in Seq(S) /\ ss \o v \in Seq(S)
      BY <2>2, <3>0, AppendIsConcat, ConcatProperties
    <3>2. (ss \o v) \o <<s>> = ss \o (v \o <<s>>)
      BY <3>0, <3>1, ConcatAssociative, SMTT(30)
    <3>3. Append(ss \o v, s) = (ss \o v) \o <<s>>
      BY <3>0, <3>1, AppendIsConcat
    <3> QED BY <3>1, <3>2, <3>3
  <2>6. FlattenSeq(ss \o u) = (FlattenSeq(ss) \o FlattenSeq(v)) \o s
    <3>1. ss \o v \in Seq(Seq(T))
      BY ConcatProperties
    <3>2. FlattenSeq(Append(ss \o v, s)) = FlattenSeq(ss \o v) \o s
      BY <3>1, FlattenAppend
    <3> QED BY <2>4, <2>5, <3>2
  <2>7. /\ FlattenSeq(u) = FlattenSeq(v) \o s
        /\ FlattenSeq(ss) \in Seq(T) /\ FlattenSeq(v) \in Seq(T)
    BY <2>2, FlattenAppend, FlattenType
  <2>8. (FlattenSeq(ss) \o FlattenSeq(v)) \o s = FlattenSeq(ss) \o (FlattenSeq(v) \o s)
    <3> DEFINE a == FlattenSeq(ss)
               b == FlattenSeq(v)
    <3>1. a \in Seq(T) /\ b \in Seq(T)
      BY <2>7
    <3> HIDE DEF a, b
    <3>2. (a \o b) \o s = a \o (b \o s)
      BY <3>1, ConcatAssociative, SMTT(60)
    <3> QED BY <3>2 DEF a, b
  <2> QED BY <2>6, <2>7, <2>8
<1> HIDE DEF P
<1>3. P = Nat
  BY <1>1, <1>2, InductionOverSet DEF P
<1>4. Len(tt) \in P
  BY <1>3
<1> QED BY <1>4 DEF P

----------------------------------------------------------------------------
(***************************************************************************)
(* The text of requests, by position.                                      *)
(***************************************************************************)

(* What a text is made of. *)
Tokens == Words \cup Methods \cup Separators \cup Versions \cup {HTTP, Arguments, NoValue}

Texts == Seq(Tokens)

(* What a concatenation is made of.                                        *)
LEMMA Glue ==
  ASSUME NEW a \in Texts, NEW b \in Texts
  PROVE  /\ a \o b \in Texts /\ Len(a \o b) = Len(a) + Len(b)
         /\ \A k \in 1..Len(a) : (a \o b)[k] = a[k]
         /\ \A k \in 1..Len(b) : (a \o b)[Len(a) + k] = b[k]
<1>1. /\ a \o b \in Texts /\ Len(a \o b) = Len(a) + Len(b)
      /\ \A k \in 1..(Len(a) + Len(b)) :
           (a \o b)[k] = IF k <= Len(a) THEN a[k] ELSE b[k - Len(a)]
  BY ConcatProperties DEF Texts
<1>2. Len(a) \in Nat /\ Len(b) \in Nat
  BY DEF Texts
<1> DEFINE m == Len(a)
           n == Len(b)
           c == a \o b
<1>3. ASSUME NEW k \in 1..m PROVE c[k] = a[k]
  <2>1. k \in 1..(m + n) /\ k <= m
    BY <1>2
  <2> QED BY <1>1, <2>1
<1>4. ASSUME NEW k \in 1..n PROVE c[m + k] = b[k]
  <2>1. m + k \in 1..(m + n) /\ ~(m + k <= m) /\ (m + k) - m = k
    BY <1>2
  <2> HIDE DEF m, n, c
  <2>2. c[m + k] = b[(m + k) - m]
    BY <1>1, <2>1 DEF m, n, c
  <2> QED BY <2>1, <2>2
<1> QED BY <1>1, <1>3, <1>4

(* What a part of a text is.                                               *)
LEMMA Cut ==
  ASSUME NEW s \in Texts, NEW m \in Nat, NEW n \in Nat, 1 <= m, n <= Len(s), m <= n + 1
  PROVE  /\ SubSeq(s, m, n) \in Texts
         /\ Len(SubSeq(s, m, n)) = n - m + 1
         /\ \A k \in 1..(n - m + 1) : SubSeq(s, m, n)[k] = s[m + k - 1]
<1>1. \A k \in m..n : s[k] \in Tokens
  BY DEF Texts
<1>2. m \in Int /\ n \in Int
  OBVIOUS
<1>3. /\ SubSeq(s, m, n) \in Seq(Tokens)
      /\ Len(SubSeq(s, m, n)) = IF m <= n THEN n - m + 1 ELSE 0
      /\ \A i \in 1..(n - m + 1) : SubSeq(s, m, n)[i] = s[m + i - 1]
  BY <1>1, <1>2, SubSeqProperties
<1> QED BY <1>3 DEF Texts

(* Short texts, token by token.                                            *)
LEMMA TextOf1 ==
  ASSUME NEW a \in Tokens
  PROVE  <<a>> \in Texts /\ Len(<<a>>) = 1 /\ <<a>>[1] = a
BY DEF Texts

LEMMA TextOf2 ==
  ASSUME NEW a \in Tokens, NEW b \in Tokens
  PROVE  /\ <<a, b>> \in Texts /\ Len(<<a, b>>) = 2
         /\ <<a, b>>[1] = a /\ <<a, b>>[2] = b
BY DEF Texts

LEMMA TextOf3 ==
  ASSUME NEW a \in Tokens, NEW b \in Tokens, NEW c \in Tokens
  PROVE  /\ <<a, b, c>> \in Texts /\ Len(<<a, b, c>>) = 3
         /\ <<a, b, c>>[1] = a /\ <<a, b, c>>[2] = b /\ <<a, b, c>>[3] = c
BY DEF Texts

LEMMA TextOf6 ==
  ASSUME NEW a \in Tokens, NEW b \in Tokens, NEW c \in Tokens,
         NEW d \in Tokens, NEW e \in Tokens, NEW f \in Tokens
  PROVE  LET t == <<a, b, c, d, e, f>>
         IN  /\ t \in Texts /\ Len(t) = 6
             /\ t[1] = a /\ t[2] = b /\ t[3] = c /\ t[4] = d /\ t[5] = e /\ t[6] = f
BY DEF Texts

(* What is not a word of the sender's is a token too.                      *)
LEMMA TokensOfText ==
  /\ Blank \in Tokens /\ Slash \in Tokens /\ HTTP \in Tokens /\ CR \in Tokens
  /\ LF \in Tokens /\ Mark \in Tokens /\ Arguments \in Tokens /\ Colon \in Tokens
BY DEF Tokens, Separators

(* Texts are put together in any order of the concatenations.              *)
LEMMA GlueAssociates ==
  ASSUME NEW a \in Texts, NEW b \in Texts, NEW c \in Texts
  PROVE  (a \o b) \o c = a \o (b \o c)
BY ConcatAssociative DEF Texts

(* Three texts after one another. *)
LEMMA Glue3 ==
  ASSUME NEW a \in Texts, NEW b \in Texts, NEW c \in Texts
  PROVE  LET t == (a \o b) \o c
         IN  /\ t \in Texts /\ Len(t) = Len(a) + Len(b) + Len(c)
             /\ \A k \in 1..Len(a) : t[k] = a[k]
             /\ \A k \in 1..Len(b) : t[Len(a) + k] = b[k]
             /\ \A k \in 1..Len(c) : t[Len(a) + Len(b) + k] = c[k]
<1> DEFINE u == a \o b
           t == u \o c
<1>1. /\ u \in Texts /\ Len(u) = Len(a) + Len(b)
      /\ \A k \in 1..Len(a) : u[k] = a[k]
      /\ \A k \in 1..Len(b) : u[Len(a) + k] = b[k]
  BY Glue
<1>2. Len(a) \in Nat /\ Len(b) \in Nat /\ Len(c) \in Nat
  BY DEF Texts
<1> HIDE DEF u
<1>3. /\ t \in Texts /\ Len(t) = Len(u) + Len(c)
      /\ \A k \in 1..Len(u) : t[k] = u[k]
      /\ \A k \in 1..Len(c) : t[Len(u) + k] = c[k]
  BY <1>1, Glue
<1> HIDE DEF t
<1>4. \A k \in 1..Len(a) : k \in 1..Len(u)
  BY <1>1, <1>2
<1>5. \A k \in 1..Len(b) : Len(a) + k \in 1..Len(u)
  BY <1>1, <1>2
<1>6. /\ \A k \in 1..Len(a) : t[k] = a[k]
      /\ \A k \in 1..Len(b) : t[Len(a) + k] = b[k]
  BY <1>1, <1>3, <1>4, <1>5
<1> QED BY <1>1, <1>3, <1>6 DEF t, u

----------------------------------------------------------------------------
(* A request line: the method, the target, the protocol.                   *)
Query(r) == IF r.query THEN <<Mark, Arguments>> ELSE <<>>

Target(r) == r.path \o Query(r)

(* The position of the blank after the target. *)
BlankAt(r) == 4 + Len(Target(r))

(* A target: the words of the path, and behind them the query.             *)
LEMMA TargetLayout ==
  ASSUME NEW r, WellFormed(r)
  PROVE  /\ Target(r) \in Texts
         /\ r.path \in Texts /\ Query(r) \in Texts
         /\ \A k \in 1..Len(r.path) : r.path[k] \in Words /\ Target(r)[k] = r.path[k]
         /\ ~r.query => Target(r) = r.path
         /\ r.query => /\ Len(Target(r)) = Len(r.path) + 2
                       /\ Target(r)[Len(r.path) + 1] = Mark
                       /\ Target(r)[Len(r.path) + 2] = Arguments
<1> DEFINE p == r.path
           q == Query(r)
<1>1. p \in Texts /\ \A k \in 1..Len(p) : p[k] \in Words
  <2>1. Seq(Words) \subseteq Seq(Tokens)
    BY SeqMonotonic DEF Tokens
  <2>2. p \in Seq(Words)
    BY DEF WellFormed
  <2> QED BY <2>1, <2>2 DEF Texts
<1>2. q \in Texts
  BY TextOf2, TokensOfText DEF Texts, Query
<1>3. r.query => Len(q) = 2 /\ q[1] = Mark /\ q[2] = Arguments
  BY TextOf2, TokensOfText DEF Query
<1>4. ~r.query => q = <<>>
  BY DEF Query
<1>5. Target(r) = p \o q
  BY DEF Target
<1> HIDE DEF p, q
<1>6. ~r.query => p \o q = p
  BY <1>1, <1>4, ConcatEmptySeq DEF Texts
<1>7. /\ p \o q \in Texts /\ Len(p \o q) = Len(p) + Len(q)
      /\ \A k \in 1..Len(p) : (p \o q)[k] = p[k]
      /\ \A k \in 1..Len(q) : (p \o q)[Len(p) + k] = q[k]
  BY <1>1, <1>2, Glue
<1>8. r.query => 1 \in 1..Len(q) /\ 2 \in 1..Len(q)
  BY <1>3, SMTT(60)
<1>9. r.query => (p \o q)[Len(p) + 1] = Mark /\ (p \o q)[Len(p) + 2] = Arguments
  BY <1>3, <1>7, <1>8
<1>10. r.query => Len(p \o q) = Len(p) + 2
  BY <1>3, <1>7
<1> QED BY <1>1, <1>2, <1>5, <1>6, <1>7, <1>9, <1>10 DEF p, q

(* The request line, position by position.                                 *)
LEMMA LineLayout ==
  ASSUME NEW r, WellFormed(r)
  PROVE  LET t == LineText(r)
             z == BlankAt(r)
         IN  /\ t \in Texts /\ z \in Nat /\ 4 <= z /\ Len(t) = z + 5
             /\ t[1] = r.method /\ t[2] = Blank /\ t[3] = Slash
             /\ \A k \in 1..(z - 4) : t[3 + k] = Target(r)[k]
             /\ t[z] = Blank /\ t[z + 1] = HTTP /\ t[z + 2] = Slash
             /\ t[z + 3] = r.version /\ t[z + 4] = CR /\ t[z + 5] = LF
<1> DEFINE a == <<r.method, Blank, Slash>>
           e == Target(r)
           d == <<Blank, HTTP, Slash, r.version, CR, LF>>
           z == BlankAt(r)
<1>1. r.method \in Tokens /\ r.version \in Tokens
  <2>1. r.method \in Methods /\ r.version \in Versions
    BY DEF WellFormed
  <2> QED BY <2>1 DEF Tokens
<1>2. a \in Texts /\ Len(a) = 3 /\ a[1] = r.method /\ a[2] = Blank /\ a[3] = Slash
  BY <1>1, TextOf3, TokensOfText
<1>3. e \in Texts /\ Len(e) \in Nat /\ z = 4 + Len(e)
  BY TargetLayout DEF Texts, BlankAt
<1>4. /\ d \in Texts /\ Len(d) = 6 /\ d[1] = Blank /\ d[2] = HTTP /\ d[3] = Slash
      /\ d[4] = r.version /\ d[5] = CR /\ d[6] = LF
  BY <1>1, TextOf6, TokensOfText
<1>5. LineText(r) = (a \o e) \o d
  <2>1. LineText(r) = ((a \o r.path) \o Query(r)) \o d
    BY DEF LineText, Query
  <2>2. (a \o r.path) \o Query(r) = a \o e
    <3>1. r.path \in Texts /\ Query(r) \in Texts
      BY TargetLayout
    <3> HIDE DEF a
    <3> QED BY <1>2, <3>1, GlueAssociates DEF Target
  <2> QED BY <2>1, <2>2
<1> HIDE DEF a, e, d, z
<1> DEFINE t == (a \o e) \o d
<1>6. /\ t \in Texts /\ Len(t) = Len(a) + Len(e) + Len(d)
      /\ \A k \in 1..Len(a) : t[k] = a[k]
      /\ \A k \in 1..Len(e) : t[Len(a) + k] = e[k]
      /\ \A k \in 1..Len(d) : t[Len(a) + Len(e) + k] = d[k]
  BY <1>2, <1>3, <1>4, Glue3
<1> HIDE DEF t
<1>7. /\ z \in Nat /\ 4 <= z /\ Len(t) = z + 5 /\ Len(e) = z - 4
      /\ t[1] = a[1] /\ t[2] = a[2] /\ t[3] = a[3]
  BY <1>2, <1>3, <1>4, <1>6
<1>8. \A k \in 1..6 : t[(z - 1) + k] = d[k]
  BY <1>2, <1>3, <1>4, <1>6
<1>9. /\ t[z] = d[1] /\ t[z + 1] = d[2] /\ t[z + 2] = d[3]
      /\ t[z + 3] = d[4] /\ t[z + 4] = d[5] /\ t[z + 5] = d[6]
  <2>1. /\ (z - 1) + 1 = z /\ (z - 1) + 2 = z + 1 /\ (z - 1) + 3 = z + 2
        /\ (z - 1) + 4 = z + 3 /\ (z - 1) + 5 = z + 4 /\ (z - 1) + 6 = z + 5
    BY <1>7
  <2> QED BY <1>8, <2>1
<1>10. \A k \in 1..(z - 4) : t[3 + k] = e[k]
  BY <1>2, <1>6, <1>7
<1> QED BY <1>2, <1>4, <1>5, <1>6, <1>7, <1>9, <1>10 DEF e, z, t

(* Separators, the names of methods and all other words are different. *)
LEMMA TokensDiffer ==
  /\ Blank # Slash /\ Blank # Mark /\ Blank # CR /\ Blank # LF /\ Blank # Colon
  /\ Slash # CR /\ CR # LF /\ CR # Colon /\ LF # Colon /\ Slash # Mark /\ Mark # CR
  /\ \A w \in Methods : w \notin Separators
  /\ \A w \in {HTTP, Arguments} \cup Versions : w \notin Separators /\ w \notin Methods
  /\ \A w \in Words : w \notin Separators /\ w \notin Methods /\ w # NoValue
<1>1. \A w \in Words : w \notin Separators /\ w \notin Methods /\ w # NoValue
  BY DEF Words
<1> QED BY <1>1 DEF Methods, Versions, Blank, Slash, Mark, Colon, CR, LF, Separators,
                    HTTP, Arguments

(* What a search of a request line finds where.                            *)
LEMMA LineTokens ==
  ASSUME NEW r, WellFormed(r)
  PROVE  LET t == LineText(r)
             z == BlankAt(r)
         IN  /\ \A k \in 1..(z + 3) : t[k] # CR
             /\ \A k \in 2..(z + 3) : t[k] \notin Methods
             /\ \A k \in 4..(z - 1) : t[k] # Blank
             /\ t[1] # Slash
<1> DEFINE t == LineText(r)
           z == BlankAt(r)
           e == Target(r)
<1>1. /\ t[1] = r.method /\ t[2] = Blank /\ t[3] = Slash /\ z \in Nat /\ 4 <= z
      /\ \A k \in 1..(z - 4) : t[3 + k] = e[k]
      /\ t[z] = Blank /\ t[z + 1] = HTTP /\ t[z + 2] = Slash /\ t[z + 3] = r.version
  BY LineLayout
<1>2. r.method \in Methods /\ r.version \in Versions
  BY DEF WellFormed
<1>3. \A k \in 1..(z - 4) : e[k] \in Words \cup {Mark, Arguments}
  <2> DEFINE p == r.path
  <2>1. /\ Len(e) \in Nat /\ Len(p) \in Nat /\ z - 4 = Len(e)
        /\ \A k \in 1..Len(p) : p[k] \in Words /\ e[k] = p[k]
        /\ ~r.query => e = p
        /\ r.query => /\ Len(e) = Len(p) + 2
                      /\ e[Len(p) + 1] = Mark
                      /\ e[Len(p) + 2] = Arguments
    BY TargetLayout DEF Texts, BlankAt
  <2> HIDE DEF p, e, z
  <2>2. CASE r.query
    <3>1. \A k \in 1..(z - 4) : k \in 1..Len(p) \/ k = Len(p) + 1 \/ k = Len(p) + 2
      BY <2>1, <2>2
    <3> QED BY <2>1, <2>2, <3>1
  <2>3. CASE ~r.query
    BY <2>1, <2>3
  <2> QED BY <2>2, <2>3
<1> HIDE DEF t, z, e
<1> DEFINE Other == Words \cup {Mark, Arguments}
<1>4. /\ \A w \in Other : w # CR /\ w \notin Methods /\ w # Blank
      /\ HTTP # CR /\ HTTP \notin Methods /\ r.version # CR /\ r.version \notin Methods
      /\ r.method # CR /\ r.method # Slash /\ Blank # CR /\ Slash # CR
      /\ Blank \notin Methods /\ Slash \notin Methods
  BY <1>2, TokensDiffer DEF Separators
<1>5. \A k \in 4..(z - 1) : t[k] \in Other
  <2>1. SUFFICES ASSUME NEW k \in 4..(z - 1) PROVE t[k] \in Other
    OBVIOUS
  <2>2. k - 3 \in 1..(z - 4) /\ 3 + (k - 3) = k
    BY <1>1
  <2>3. t[3 + (k - 3)] = e[k - 3]
    BY <1>1, <2>2
  <2> QED BY <1>3, <2>2, <2>3
<1> HIDE DEF Other
<1>6. \A k \in 1..(z + 3) :
        k \in {1, 2, 3} \/ k \in 4..(z - 1) \/ k \in {z, z + 1, z + 2, z + 3}
  BY <1>1
<1>7. \A k \in 1..(z + 3) : t[k] # CR
  BY <1>1, <1>4, <1>5, <1>6
<1>8. \A k \in 2..(z + 3) : k \in 1..(z + 3) /\ k # 1
  BY <1>1
<1>9. \A k \in 2..(z + 3) : t[k] \notin Methods
  BY <1>1, <1>4, <1>5, <1>6, <1>8
<1> QED BY <1>1, <1>4, <1>5, <1>7, <1>9 DEF t, z

----------------------------------------------------------------------------
(* The headers: six tokens for each that has a value, CR LF after them.    *)
LEMMA HeaderLayout ==
  ASSUME NEW h \in Words \X (Words \cup {NoValue})
  PROVE  LET t == HeaderText(h)
         IN  /\ t \in Texts
             /\ h[2] # NoValue =>
                  /\ Len(t) = 6
                  /\ t[1] = h[1] /\ t[2] = Colon /\ t[3] = Blank
                  /\ t[4] = h[2] /\ t[5] = CR /\ t[6] = LF
<1> DEFINE a == <<h[1], Colon, Blank>>
           b == IF h[2] = NoValue THEN <<>> ELSE <<h[2]>>
           c == <<CR, LF>>
<1>1. h[1] \in Tokens /\ h[2] \in Tokens
  BY DEF Tokens
<1>2. a \in Texts /\ Len(a) = 3 /\ a[1] = h[1] /\ a[2] = Colon /\ a[3] = Blank
  BY <1>1, TextOf3, TokensOfText
<1>3. b \in Texts /\ (h[2] # NoValue => Len(b) = 1 /\ b[1] = h[2])
  <2>1. <<h[2]>> \in Texts /\ Len(<<h[2]>>) = 1 /\ <<h[2]>>[1] = h[2]
    BY <1>1, TextOf1
  <2>2. <<>> \in Texts
    BY DEF Texts
  <2> QED BY <2>1, <2>2
<1>4. c \in Texts /\ Len(c) = 2 /\ c[1] = CR /\ c[2] = LF
  BY TextOf2, TokensOfText
<1>5. HeaderText(h) = (a \o b) \o c
  BY DEF HeaderText
<1> HIDE DEF a, b, c
<1> DEFINE t == (a \o b) \o c
<1>6. /\ t \in Texts /\ Len(t) = Len(a) + Len(b) + Len(c)
      /\ \A k \in 1..Len(a) : t[k] = a[k]
      /\ \A k \in 1..Len(b) : t[Len(a) + k] = b[k]
      /\ \A k \in 1..Len(c) : t[Len(a) + Len(b) + k] = c[k]
  BY <1>2, <1>3, <1>4, Glue3
<1> HIDE DEF t
<1>7. ASSUME h[2] # NoValue
      PROVE  /\ Len(t) = 6 /\ t[1] = a[1] /\ t[2] = a[2] /\ t[3] = a[3]
             /\ t[4] = b[1] /\ t[5] = c[1] /\ t[6] = c[2]
  <2>1. Len(a) = 3 /\ Len(b) = 1 /\ Len(c) = 2
    BY <1>2, <1>3, <1>4, <1>7
  <2> QED BY <1>6, <2>1
<1> QED BY <1>2, <1>3, <1>4, <1>5, <1>6, <1>7 DEF t

(* The lines of the first j headers of hs. *)
HeaderLines(hs, j) == FlattenSeq([i \in 1..j |-> HeaderText(hs[i])])

AllWords(hs) == hs \in Seq(Words \X (Words \cup {NoValue}))

(* Every header has a value; without one its line is a token shorter.      *)
HaveValues(hs) == \A i \in DOMAIN hs : hs[i][2] # NoValue

(* Line i of t starts after `at` tokens. *)
IsLine(t, at, h) ==
  /\ t[at + 1] = h[1] /\ t[at + 2] = Colon /\ t[at + 3] = Blank
  /\ t[at + 4] = h[2] /\ t[at + 5] = CR /\ t[at + 6] = LF

(* The lines of j + 1 headers are those of j, and one more.                *)
LEMMA HeaderLinesNext ==
  ASSUME NEW hs, AllWords(hs), NEW j \in 0..(Len(hs) - 1), HeaderLines(hs, j) \in Texts
  PROVE  /\ HeaderLines(hs, j + 1) \in Texts
         /\ HeaderLines(hs, j + 1) = HeaderLines(hs, j) \o HeaderText(hs[j + 1])
<1> DEFINE ss == [i \in 1..j |-> HeaderText(hs[i])]
           tt == [i \in 1..(j + 1) |-> HeaderText(hs[i])]
           s == HeaderText(hs[j + 1])
<1>1. \A i \in 1..Len(hs) : HeaderText(hs[i]) \in Texts
  BY HeaderLayout DEF AllWords
<1>2. Len(hs) \in Nat /\ j \in Nat /\ j + 1 \in 1..Len(hs)
  BY DEF AllWords
<1>3. ss \in Seq(Texts) /\ s \in Texts /\ Len(ss) = j
  BY <1>1, <1>2
<1>4. tt = Append(ss, s)
  <2>1. Append(ss, s) = [i \in 1..(j + 1) |-> IF i = j + 1 THEN s ELSE ss[i]]
    BY <1>3
  <2> QED BY <1>2, <2>1
<1> HIDE DEF ss, tt, s
<1>5. FlattenSeq(tt) = FlattenSeq(ss) \o s
  BY <1>3, <1>4, FlattenAppend DEF Texts
<1>6. HeaderLines(hs, j + 1) = HeaderLines(hs, j) \o s
  BY <1>5 DEF HeaderLines, ss, tt
<1>7. HeaderLines(hs, j) \o s \in Texts
  BY <1>3, Glue
<1> QED BY <1>6, <1>7 DEF s

(* Where each header's line begins, if all have a value.                   *)
LEMMA HeaderLinesLayout ==
  ASSUME NEW hs, AllWords(hs)
  PROVE  LET t == HeaderLines(hs, Len(hs))
         IN  /\ t \in Texts
             /\ HaveValues(hs) =>
                  /\ Len(t) = 6 * Len(hs)
                  /\ \A i \in 1..Len(hs) : IsLine(t, 6 * (i - 1), hs[i])
<1> DEFINE n == Len(hs)
           L(j) == HeaderLines(hs, j)
           G(j) == /\ L(j) \in Texts
                   /\ HaveValues(hs) =>
                        /\ Len(L(j)) = 6 * j
                        /\ \A i \in 1..j : IsLine(L(j), 6 * (i - 1), hs[i])
           P == {j \in Nat : j <= n => G(j)}
<1>1. n \in Nat /\ \A i \in 1..n : hs[i] \in Words \X (Words \cup {NoValue})
  BY DEF AllWords
<1>2. 0 \in P
  <2>1. L(0) = <<>>
    <3>1. [i \in 1..0 |-> HeaderText(hs[i])] = <<>>
      OBVIOUS
    <3> QED BY <3>1, FlattenEmpty DEF HeaderLines
  <2>2. L(0) \in Texts /\ Len(L(0)) = 6 * 0
    <3>1. <<>> \in Texts /\ Len(<<>>) = 0
      BY DEF Texts
    <3>2. 6 * 0 = 0
      OBVIOUS
    <3> HIDE DEF L
    <3> QED BY <2>1, <3>1, <3>2
  <2>3. \A i \in 1..0 : IsLine(L(0), 6 * (i - 1), hs[i])
    OBVIOUS
  <2> HIDE DEF L
  <2>4. G(0)
    BY <2>2, <2>3
  <2> QED BY <2>4
<1>3. ASSUME NEW j \in P PROVE j + 1 \in P
  <2>1. SUFFICES ASSUME j + 1 <= n PROVE G(j + 1)
    OBVIOUS
  <2> DEFINE u == L(j)
             s == HeaderText(hs[j + 1])
             t == L(j + 1)
  <2>2. j \in Nat /\ j \in 0..(Len(hs) - 1) /\ j + 1 \in 1..n
    BY <1>1, <2>1
  <2>3. /\ u \in Texts
        /\ HaveValues(hs) => /\ Len(u) = 6 * j
                             /\ \A i \in 1..j : IsLine(u, 6 * (i - 1), hs[i])
    BY <1>1, <2>1, <2>2
  <2>4. t \in Texts /\ t = u \o s
    BY <2>2, <2>3, HeaderLinesNext
  <2>5. /\ s \in Texts
        /\ hs[j + 1][2] # NoValue => Len(s) = 6 /\ IsLine(s, 0, hs[j + 1])
    BY <1>1, <2>2, HeaderLayout DEF IsLine
  <2> HIDE DEF u, s, t, P, n
  <2>6. ASSUME HaveValues(hs)
        PROVE  Len(t) = 6 * (j + 1) /\ \A i \in 1..(j + 1) : IsLine(t, 6 * (i - 1), hs[i])
    <3>1. Len(s) = 6 /\ IsLine(s, 0, hs[j + 1]) /\ Len(u) = 6 * j
      BY <2>2, <2>3, <2>5, <2>6 DEF HaveValues, n, AllWords
    <3>2. /\ Len(t) = 6 * j + 6
          /\ \A k \in 1..(6 * j) : t[k] = u[k]
          /\ \A k \in 1..6 : t[6 * j + k] = s[k]
      <4>1. u \in Texts /\ s \in Texts
        BY <2>3, <2>5
      <4>2. /\ Len(u \o s) = Len(u) + Len(s)
            /\ \A k \in 1..Len(u) : (u \o s)[k] = u[k]
            /\ \A k \in 1..Len(s) : (u \o s)[Len(u) + k] = s[k]
        BY <4>1, Glue
      <4>3. t = u \o s
        BY <2>4
      <4> HIDE DEF L, G
      <4> QED BY <3>1, <4>2, <4>3
    <3>3. ASSUME NEW i \in 1..j PROVE IsLine(t, 6 * (i - 1), hs[i])
      <4>1. IsLine(u, 6 * (i - 1), hs[i])
        BY <2>3, <2>6
      <4>2. \A k \in 1..6 : 6 * (i - 1) + k \in 1..(6 * j)
        BY <2>2
      <4>3. \A k \in 1..6 : t[6 * (i - 1) + k] = u[6 * (i - 1) + k]
        BY <3>2, <4>2
      <4> QED BY <4>1, <4>3 DEF IsLine
    <3>4. IsLine(t, 6 * ((j + 1) - 1), hs[j + 1])
      <4>1. 6 * ((j + 1) - 1) = 6 * j
        BY <2>2
      <4>2. \A k \in 1..6 : t[6 * j + k] = s[0 + k]
        BY <3>2
      <4> QED BY <3>1, <4>1, <4>2, SMTT(60) DEF IsLine
    <3>5. Len(t) = 6 * (j + 1) /\ \A i \in 1..(j + 1) : i \in 1..j \/ i = j + 1
      BY <2>2, <3>2
    <3> QED BY <3>3, <3>4, <3>5
  <2> QED BY <2>4, <2>6 DEF t
<1> HIDE DEF P
<1>4. P = Nat
  BY <1>2, <1>3, InductionOverSet DEF P
<1>5. n \in P
  BY <1>1, <1>4
<1>6. G(n)
  BY <1>1, <1>5 DEF P
<1> QED BY <1>6

(* The header lines of a request, and the CR LF that ends them.            *)
LEMMA HeadersLayout ==
  ASSUME NEW r, WellFormed(r)
  PROVE  LET t == HeadersText(r)
             n == Len(r.headers)
         IN  /\ t \in Texts /\ n \in Nat /\ 2 <= Len(t)
             /\ t[Len(t) - 1] = CR /\ t[Len(t)] = LF
             /\ HaveValues(r.headers) =>
                  /\ Len(t) = 6 * n + 2
                  /\ \A i \in 1..n : IsLine(t, 6 * (i - 1), r.headers[i])
<1> DEFINE hs == r.headers
           n == Len(hs)
           u == HeaderLines(hs, n)
           c == <<CR, LF>>
<1>1. AllWords(hs) /\ n \in Nat /\ DOMAIN hs = 1..n
  BY DEF WellFormed, AllWords
<1>2. /\ u \in Texts /\ Len(u) \in Nat
      /\ HaveValues(hs) =>
           Len(u) = 6 * n /\ \A i \in 1..n : IsLine(u, 6 * (i - 1), hs[i])
  <2>1. u \in Texts => Len(u) \in Nat
    BY DEF Texts
  <2> QED BY <1>1, <2>1, HeaderLinesLayout
<1>3. c \in Texts /\ Len(c) = 2 /\ c[1] = CR /\ c[2] = LF
  BY TextOf2, TokensOfText
<1>4. HeadersText(r) = u \o c
  BY <1>1 DEF HeadersText, HeaderLines
<1> HIDE DEF hs, n, u, c
<1> DEFINE t == u \o c
<1>5. /\ t \in Texts /\ Len(t) = Len(u) + 2
      /\ \A k \in 1..Len(u) : t[k] = u[k]
      /\ \A k \in 1..2 : t[Len(u) + k] = c[k]
  <2>1. u \in Texts /\ c \in Texts
    BY <1>2, <1>3
  <2>2. /\ t \in Texts /\ Len(t) = Len(u) + Len(c)
        /\ \A k \in 1..Len(u) : t[k] = u[k]
        /\ \A k \in 1..Len(c) : t[Len(u) + k] = c[k]
    BY <2>1, Glue
  <2> HIDE DEF t
  <2> QED BY <1>3, <2>2
<1> HIDE DEF t
<1>6. /\ 2 <= Len(t) /\ t[Len(t) - 1] = CR /\ t[Len(t)] = LF
  <2>1. Len(t) - 1 = Len(u) + 1 /\ Len(t) = Len(u) + 2
    BY <1>2, <1>5
  <2> QED BY <1>2, <1>3, <1>5, <2>1
<1>7. ASSUME HaveValues(hs), NEW i \in 1..n PROVE IsLine(t, 6 * (i - 1), hs[i])
  <2>1. IsLine(u, 6 * (i - 1), hs[i]) /\ Len(u) = 6 * n
    BY <1>2, <1>7
  <2>2. \A k \in 1..6 : 6 * (i - 1) + k \in 1..(6 * n)
    BY <1>1
  <2>3. \A k \in 1..6 : t[6 * (i - 1) + k] = u[6 * (i - 1) + k]
    BY <1>5, <2>1, <2>2
  <2> QED BY <2>1, <2>3 DEF IsLine
<1>8. HaveValues(hs) => Len(t) = 6 * n + 2
  BY <1>2, <1>5
<1> QED BY <1>1, <1>4, <1>5, <1>6, <1>7, <1>8 DEF t, hs, n

----------------------------------------------------------------------------
(* The text of several requests: where request j starts, where its headers *)
(* and its body do.                                                        *)
Before(rs, j) == Len(TextOf(SubSeq(rs, 1, j - 1)))

HeadersAt(rs, j) == Before(rs, j) + Len(LineText(rs[j]))

BodyAt(rs, j) == HeadersAt(rs, j) + Len(HeadersText(rs[j]))

AllWellFormed(rs) == rs \in Seq(Menu) /\ \A j \in 1..Len(rs) : WellFormed(rs[j])

(* A request's text: its line, its headers and its body.                   *)
LEMMA TextLayout ==
  ASSUME NEW r, WellFormed(r)
  PROVE  LET t == Text(r)
             m == Len(LineText(r))
             n == m + Len(HeadersText(r))
         IN  /\ t \in Texts /\ r.body \in Texts
             /\ m \in Nat /\ n \in Nat /\ Len(r.body) \in Nat
             /\ Len(t) = n + Len(r.body)
             /\ \A k \in 1..m : t[k] = LineText(r)[k]
             /\ \A k \in 1..Len(HeadersText(r)) : t[m + k] = HeadersText(r)[k]
             /\ \A k \in 1..Len(r.body) : t[n + k] = r.body[k]
<1> DEFINE a == LineText(r)
           b == HeadersText(r)
           c == r.body
           t == (a \o b) \o c
<1>1. a \in Texts /\ b \in Texts
  BY LineLayout, HeadersLayout
<1>2. c \in Texts
  <2>1. Seq(Words) \subseteq Seq(Tokens)
    BY SeqMonotonic DEF Tokens
  <2>2. c \in Seq(Words)
    BY DEF WellFormed
  <2> QED BY <2>1, <2>2 DEF Texts
<1>3. Text(r) = t
  BY DEF Text
<1>4. Len(a) \in Nat /\ Len(b) \in Nat /\ Len(c) \in Nat
  BY <1>1, <1>2 DEF Texts
<1> HIDE DEF a, b, c
<1>5. /\ t \in Texts /\ Len(t) = Len(a) + Len(b) + Len(c)
      /\ \A k \in 1..Len(a) : t[k] = a[k]
      /\ \A k \in 1..Len(b) : t[Len(a) + k] = b[k]
      /\ \A k \in 1..Len(c) : t[Len(a) + Len(b) + k] = c[k]
  BY <1>1, <1>2, Glue3
<1> HIDE DEF t
<1>6. Len(a) + Len(b) \in Nat
  BY <1>4
<1> QED BY <1>2, <1>3, <1>4, <1>5, <1>6 DEF a, b, c

(* The text of all but the first j is what follows theirs.                 *)
LEMMA TextOfType ==
  ASSUME NEW rs, AllWellFormed(rs)
  PROVE  TextOf(rs) \in Texts
<1> DEFINE ss == [i \in DOMAIN rs |-> Text(rs[i])]
<1>1. \A i \in 1..Len(rs) : Text(rs[i]) \in Texts
  BY TextLayout DEF AllWellFormed
<1>2. ss \in Seq(Texts)
  BY <1>1 DEF AllWellFormed
<1> HIDE DEF ss
<1>3. FlattenSeq(ss) \in Texts
  BY <1>2, FlattenType DEF Texts
<1> QED BY <1>3 DEF TextOf, ss

(* Consecutive requests of well-formed ones are well-formed.               *)
LEMMA PartWellFormed ==
  ASSUME NEW rs, AllWellFormed(rs), NEW m \in 1..(Len(rs) + 1), NEW n \in 0..Len(rs), m <= n + 1
  PROVE  /\ AllWellFormed(SubSeq(rs, m, n)) /\ Len(SubSeq(rs, m, n)) = n - m + 1
         /\ \A i \in 1..(n - m + 1) : SubSeq(rs, m, n)[i] = rs[m + i - 1]
<1> DEFINE u == SubSeq(rs, m, n)
<1>1. rs \in Seq(Menu) /\ Len(rs) \in Nat /\ \A j \in 1..Len(rs) : WellFormed(rs[j])
  BY DEF AllWellFormed
<1>2. \A i \in m..n : rs[i] \in Menu
  BY <1>1
<1>3. m \in Int /\ n \in Int
  BY <1>1
<1>4. /\ u \in Seq(Menu) /\ Len(u) = IF m <= n THEN n - m + 1 ELSE 0
      /\ \A i \in 1..(n - m + 1) : u[i] = rs[m + i - 1]
  BY <1>2, <1>3, SubSeqProperties
<1> HIDE DEF u
<1>5. Len(u) = n - m + 1
  BY <1>3, <1>4
<1>6. \A i \in 1..(n - m + 1) : m + i - 1 \in 1..Len(rs)
  BY <1>1
<1>7. \A i \in 1..Len(u) : WellFormed(u[i])
  BY <1>1, <1>4, <1>5, <1>6
<1> QED BY <1>4, <1>5, <1>7 DEF AllWellFormed, u

(* The text of j requests is that of j - 1, and the last one's.            *)
LEMMA TextOfNext ==
  ASSUME NEW rs, AllWellFormed(rs), NEW j \in 1..Len(rs)
  PROVE  TextOf(SubSeq(rs, 1, j)) = TextOf(SubSeq(rs, 1, j - 1)) \o Text(rs[j])
<1> DEFINE a == SubSeq(rs, 1, j - 1)
           b == SubSeq(rs, 1, j)
           ss == [i \in DOMAIN a |-> Text(a[i])]
           tt == [i \in DOMAIN b |-> Text(b[i])]
           s == Text(rs[j])
<1>1. Len(rs) \in Nat
  BY DEF AllWellFormed
<1>2. /\ AllWellFormed(a) /\ Len(a) = j - 1 /\ \A i \in 1..(j - 1) : a[i] = rs[i]
      /\ AllWellFormed(b) /\ Len(b) = j /\ \A i \in 1..j : b[i] = rs[i]
  <2>1. 1 \in 1..(Len(rs) + 1) /\ j - 1 \in 0..Len(rs) /\ j \in 0..Len(rs) /\ 1 <= j + 1
        /\ 1 <= (j - 1) + 1
    BY <1>1
  <2>2. /\ AllWellFormed(a) /\ Len(a) = (j - 1) - 1 + 1
        /\ \A i \in 1..((j - 1) - 1 + 1) : a[i] = rs[1 + i - 1]
    BY <2>1, PartWellFormed
  <2>3. /\ AllWellFormed(b) /\ Len(b) = j - 1 + 1
        /\ \A i \in 1..(j - 1 + 1) : b[i] = rs[1 + i - 1]
    BY <2>1, PartWellFormed
  <2>4. (j - 1) - 1 + 1 = j - 1 /\ j - 1 + 1 = j /\ \A i \in Nat : 1 + i - 1 = i
    BY <1>1
  <2> HIDE DEF a, b
  <2> QED BY <2>2, <2>3, <2>4
<1> HIDE DEF a, b
<1>3. /\ DOMAIN a = 1..(j - 1) /\ DOMAIN b = 1..j
  BY <1>2 DEF AllWellFormed
<1>4. /\ \A i \in 1..(j - 1) : Text(a[i]) \in Texts
      /\ s \in Texts
  BY <1>1, <1>2, TextLayout DEF AllWellFormed
<1>5. ss \in Seq(Texts) /\ Len(ss) = j - 1
  BY <1>3, <1>4
<1>6. tt = Append(ss, s)
  <2>1. Append(ss, s) = [i \in 1..j |-> IF i = j THEN s ELSE ss[i]]
    BY <1>3, <1>5
  <2>2. tt = [i \in 1..j |-> Text(rs[i])]
    BY <1>2, <1>3
  <2>3. \A i \in 1..j : i # j => i \in 1..(j - 1) /\ ss[i] = Text(rs[i])
    BY <1>2, <1>3
  <2> HIDE DEF ss, tt, s
  <2> QED BY <2>1, <2>2, <2>3 DEF s
<1> HIDE DEF ss, tt, s
<1>7. FlattenSeq(tt) = FlattenSeq(ss) \o s
  BY <1>4, <1>5, <1>6, FlattenAppend DEF Texts
<1> QED BY <1>7 DEF TextOf, ss, tt, s, a, b

(* The text of all requests, cut between two of them.                      *)
LEMMA TextOfSplit ==
  ASSUME NEW rs, AllWellFormed(rs), NEW j \in 0..Len(rs)
  PROVE  TextOf(rs) = TextOf(SubSeq(rs, 1, j)) \o TextOf(SubSeq(rs, j + 1, Len(rs)))
<1> DEFINE n == Len(rs)
           a == SubSeq(rs, 1, j)
           b == SubSeq(rs, j + 1, n)
           ss == [i \in DOMAIN a |-> Text(a[i])]
           tt == [i \in DOMAIN b |-> Text(b[i])]
           uu == [i \in DOMAIN rs |-> Text(rs[i])]
<1>1. n \in Nat /\ DOMAIN rs = 1..n /\ j \in Nat /\ j <= n
  BY DEF AllWellFormed
<1>2. /\ AllWellFormed(a) /\ Len(a) = j /\ \A i \in 1..j : a[i] = rs[i]
      /\ AllWellFormed(b) /\ Len(b) = n - j /\ \A i \in 1..(n - j) : b[i] = rs[j + i]
  <2>1. /\ 1 \in 1..(n + 1) /\ j \in 0..n /\ 1 <= j + 1
        /\ j + 1 \in 1..(n + 1) /\ n \in 0..n /\ j + 1 <= n + 1
    BY <1>1
  <2>2. /\ AllWellFormed(a) /\ Len(a) = j - 1 + 1
        /\ \A i \in 1..(j - 1 + 1) : a[i] = rs[1 + i - 1]
    BY <2>1, PartWellFormed
  <2>3. /\ AllWellFormed(b) /\ Len(b) = n - (j + 1) + 1
        /\ \A i \in 1..(n - (j + 1) + 1) : b[i] = rs[(j + 1) + i - 1]
    BY <2>1, PartWellFormed
  <2>4. /\ j - 1 + 1 = j /\ n - (j + 1) + 1 = n - j
        /\ \A i \in Nat : 1 + i - 1 = i /\ (j + 1) + i - 1 = j + i
    BY <1>1
  <2> HIDE DEF a, b, n
  <2> QED BY <2>2, <2>3, <2>4
<1> HIDE DEF a, b, n
<1>3. DOMAIN a = 1..j /\ DOMAIN b = 1..(n - j)
  BY <1>2 DEF AllWellFormed
<1>4. /\ \A i \in 1..j : Text(a[i]) \in Texts
      /\ \A i \in 1..(n - j) : Text(b[i]) \in Texts
  BY <1>2, TextLayout DEF AllWellFormed
<1>5. /\ ss \in Seq(Texts) /\ Len(ss) = j
      /\ tt \in Seq(Texts) /\ Len(tt) = n - j
  BY <1>1, <1>3, <1>4
<1>6. uu = ss \o tt
  <2> DEFINE v == ss \o tt
  <2>0. /\ \A i \in 1..j : ss[i] = Text(rs[i])
        /\ \A i \in 1..(n - j) : tt[i] = Text(rs[j + i])
    BY <1>2, <1>3
  <2> HIDE DEF ss, tt
  <2>1. /\ v \in Seq(Texts) /\ Len(v) = n
        /\ \A i \in 1..n : v[i] = IF i <= j THEN ss[i] ELSE tt[i - j]
    <3>1. /\ v \in Seq(Texts) /\ Len(v) = Len(ss) + Len(tt)
          /\ \A i \in 1..(Len(ss) + Len(tt)) :
               v[i] = IF i <= Len(ss) THEN ss[i] ELSE tt[i - Len(ss)]
      BY <1>5, ConcatProperties
    <3>2. Len(ss) + Len(tt) = n /\ Len(ss) = j
      BY <1>1, <1>5
    <3> HIDE DEF v
    <3> QED BY <3>1, <3>2
  <2> HIDE DEF v
  <2>2. \A i \in 1..n : v[i] = Text(rs[i])
    <3>1. SUFFICES ASSUME NEW i \in 1..n PROVE v[i] = Text(rs[i])
      OBVIOUS
    <3>2. CASE i <= j
      <4>1. i \in 1..j
        BY <1>1, <3>2
      <4> QED BY <2>0, <2>1, <3>2, <4>1
    <3>3. CASE ~(i <= j)
      <4>1. i - j \in 1..(n - j) /\ j + (i - j) = i
        BY <1>1, <3>3
      <4> QED BY <2>0, <2>1, <3>3, <4>1
    <3> QED BY <3>2, <3>3
  <2>3. v = [i \in 1..n |-> v[i]]
    <3>1. DOMAIN v = 1..n /\ v = [i \in DOMAIN v |-> v[i]]
      BY <2>1
    <3> QED BY <3>1
  <2>4. uu = [i \in 1..n |-> Text(rs[i])]
    BY <1>1
  <2> HIDE DEF uu
  <2>5. v = uu
    BY <2>2, <2>3, <2>4
  <2> QED BY <2>5 DEF v
<1> HIDE DEF ss, tt, uu
<1>7. FlattenSeq(uu) = FlattenSeq(ss) \o FlattenSeq(tt)
  BY <1>5, <1>6, FlattenConcat DEF Texts
<1> QED BY <1>7 DEF TextOf, ss, tt, uu, a, b, n

(* s is what F has from position p on. *)
IsPart(s, F, p) == p + Len(s) <= Len(F) /\ \A k \in 1..Len(s) : s[k] = F[p + k]

(* The positions of the requests in their text.                            *)
LEMMA Positions ==
  ASSUME NEW rs, AllWellFormed(rs), NEW j \in 1..Len(rs)
  PROVE  LET F == TextOf(rs)
             r == rs[j]
             b == Before(rs, j)
             h == HeadersAt(rs, j)
             p == BodyAt(rs, j)
             e == Before(rs, j + 1)
         IN  /\ F \in Texts /\ Len(F) \in Nat
             /\ b \in Nat /\ h \in Nat /\ p \in Nat /\ e \in Nat
             /\ h = b + Len(LineText(r)) /\ p = h + Len(HeadersText(r))
             /\ e = p + Len(r.body) /\ e <= Len(F)
             /\ Len(r.body) \in Nat
             /\ IsPart(LineText(r), F, b) /\ IsPart(HeadersText(r), F, h)
             /\ IsPart(r.body, F, p)
             /\ Len(TextOf(SubSeq(rs, j + 1, Len(rs)))) = Len(F) - e
<1> DEFINE F == TextOf(rs)
           r == rs[j]
           A == TextOf(SubSeq(rs, 1, j - 1))
           B == TextOf(SubSeq(rs, 1, j))
           C == TextOf(SubSeq(rs, j + 1, Len(rs)))
           t == Text(r)
           b == Before(rs, j)
           e == Before(rs, j + 1)
           m == Len(LineText(r))
           n == m + Len(HeadersText(r))
           l == Len(r.body)
<1>1. Len(rs) \in Nat /\ WellFormed(r)
  BY DEF AllWellFormed
<1>2. A \in Texts /\ B \in Texts /\ C \in Texts
  <2>1. /\ 1 \in 1..(Len(rs) + 1) /\ j - 1 \in 0..Len(rs) /\ 1 <= (j - 1) + 1
        /\ j \in 0..Len(rs) /\ 1 <= j + 1 /\ j + 1 \in 1..(Len(rs) + 1)
        /\ Len(rs) \in 0..Len(rs) /\ j + 1 <= Len(rs) + 1
    BY <1>1
  <2>2. /\ AllWellFormed(SubSeq(rs, 1, j - 1)) /\ AllWellFormed(SubSeq(rs, 1, j))
        /\ AllWellFormed(SubSeq(rs, j + 1, Len(rs)))
    BY <2>1, PartWellFormed
  <2> QED BY <2>2, TextOfType
<1>3. B = A \o t /\ F = B \o C
  BY <1>1, TextOfNext, TextOfSplit, SMTT(60)
<1>4. /\ t \in Texts /\ m \in Nat /\ n \in Nat /\ l \in Nat /\ Len(t) = n + l
      /\ \A k \in 1..m : t[k] = LineText(r)[k]
      /\ \A k \in 1..Len(HeadersText(r)) : t[m + k] = HeadersText(r)[k]
      /\ \A k \in 1..l : t[n + k] = r.body[k]
  BY <1>1, TextLayout
<1>5. b = Len(A) /\ e = Len(B) /\ Len(HeadersText(r)) \in Nat
  <2>1. (j + 1) - 1 = j
    BY <1>1
  <2> QED BY <1>1, <2>1, HeadersLayout DEF Before, Texts
<1>6. Len(A) \in Nat /\ Len(C) \in Nat
  BY <1>2 DEF Texts
<1>7. HeadersAt(rs, j) = b + m /\ BodyAt(rs, j) = b + m + Len(HeadersText(r))
  BY DEF HeadersAt, BodyAt
<1> DEFINE H == HeadersText(r)
           L == LineText(r)
           body == r.body
<1>8. n = m + Len(H)
  OBVIOUS
<1> HIDE DEF F, A, B, C, t, b, e, m, n, l, H, L, body
<1>9. /\ F = (A \o t) \o C
  BY <1>3
<1>10. /\ F \in Texts /\ Len(F) = Len(A) + Len(t) + Len(C)
       /\ \A k \in 1..Len(t) : F[Len(A) + k] = t[k]
  <2>1. A \in Texts /\ t \in Texts /\ C \in Texts
    BY <1>2, <1>4
  <2>2. /\ (A \o t) \o C \in Texts /\ Len((A \o t) \o C) = Len(A) + Len(t) + Len(C)
        /\ \A k \in 1..Len(t) : ((A \o t) \o C)[Len(A) + k] = t[k]
    BY <2>1, Glue3
  <2> QED BY <1>9, <2>2
<1>11. e = b + Len(t)
  BY <1>2, <1>3, <1>4, <1>5, Glue
<1>12. Len(F) = e + Len(C) /\ \A k \in 1..(n + l) : F[b + k] = t[k]
  BY <1>4, <1>5, <1>10, <1>11
<1>13. \A k \in 1..m : F[b + k] = L[k]
  <2>1. \A k \in 1..m : k \in 1..(n + l)
    BY <1>4, <1>5, <1>8 DEF H
  <2> QED BY <1>4, <1>12, <2>1 DEF L
<1>14. \A k \in 1..Len(H) : F[(b + m) + k] = H[k]
  <2>1. SUFFICES ASSUME NEW k \in 1..Len(H) PROVE F[(b + m) + k] = H[k]
    OBVIOUS
  <2>2. m + k \in 1..(n + l) /\ (b + m) + k = b + (m + k)
    BY <1>4, <1>5, <1>6, <1>8 DEF H
  <2> QED BY <1>4, <1>12, <2>2 DEF H
<1>15. \A k \in 1..l : F[(b + m + Len(H)) + k] = body[k]
  <2>1. SUFFICES ASSUME NEW k \in 1..l PROVE F[(b + m + Len(H)) + k] = body[k]
    OBVIOUS
  <2>2. n + k \in 1..(n + l) /\ (b + m + Len(H)) + k = b + (n + k)
    BY <1>4, <1>5, <1>6, <1>8 DEF H
  <2> QED BY <1>4, <1>12, <2>2 DEF body
<1>16. /\ Len(F) \in Nat /\ b \in Nat /\ b + m \in Nat /\ b + m + Len(H) \in Nat /\ e \in Nat
       /\ e = (b + m + Len(H)) + l /\ e <= Len(F) /\ Len(C) = Len(F) - e
  BY <1>4, <1>5, <1>6, <1>8, <1>11, <1>12 DEF H
<1>17. Len(r.body) = l /\ Len(LineText(r)) = m
  BY DEF l, m
<1>18. /\ IsPart(L, F, b) /\ IsPart(H, F, b + m) /\ IsPart(body, F, b + m + Len(H))
  <2>1. b + Len(L) <= Len(F) /\ (b + m) + Len(H) <= Len(F) /\ (b + m + Len(H)) + Len(body) <= Len(F)
    BY <1>4, <1>6, <1>12, <1>16, <1>17, <1>5, SMTT(60) DEF L, body, H
  <2> QED BY <1>13, <1>14, <1>15, <1>17, <2>1 DEF IsPart, L, body
<1> QED BY <1>4, <1>7, <1>10, <1>16, <1>17, <1>18 DEF F, b, e, C, H, L, body

----------------------------------------------------------------------------
(***************************************************************************)
(* What Find and Scan compute.                                             *)
(***************************************************************************)

(* What a search finds.                                                    *)
LEMMA FindNone ==
  ASSUME NEW s, NEW x, NEW from, \A i \in from..Len(s) : s[i] # x
  PROVE  Find(s, x, from) = 0
BY DEF Find

(* What a search finds is the first of its kind.                           *)
LEMMA FindFirst ==
  ASSUME NEW s, NEW x, NEW from \in Nat, Len(s) \in Nat, NEW i \in from..Len(s),
         s[i] = x, \A k \in from..(i - 1) : s[k] # x
  PROVE  Find(s, x, from) = i
<1> DEFINE at == {k \in from..Len(s) : s[k] = x}
<1>1. i \in at /\ \A k \in at : i <= k
  OBVIOUS
<1>2. \A y \in at : (\A k \in at : y <= k) => y = i
  BY <1>1
<1>3. Min(at) = i
  <2> HIDE DEF at
  <2>1. \E y \in at : \A k \in at : y <= k
    BY <1>1
  <2> QED BY <1>1, <1>2, <2>1 DEF Min
<1>4. Find(s, x, from) = IF at = {} THEN 0 ELSE Min(at)
  BY DEF Find
<1> HIDE DEF at
<1> QED BY <1>1, <1>3, <1>4

(* A search finds what is there.                                           *)
LEMMA FindSome ==
  ASSUME NEW s, NEW x, NEW from \in Nat, Len(s) \in Nat,
         NEW i \in from..Len(s), s[i] = x
  PROVE  Find(s, x, from) \in from..Len(s)
<1> DEFINE at == {k \in from..Len(s) : s[k] = x}
<1>1. at # {} /\ at \subseteq Nat
  OBVIOUS
<1>2. \E y \in at : \A k \in at : y <= k
  <2> HIDE DEF at
  <2> QED BY <1>1, LeastElement
<1>3. Min(at) \in at
  <2> HIDE DEF at
  <2> QED BY <1>2 DEF Min
<1>4. Find(s, x, from) = IF at = {} THEN 0 ELSE Min(at)
  BY DEF Find
<1> QED BY <1>1, <1>3, <1>4

(* The locals of parseHeaders when its loop begins.                        *)
Locals(h, map) ==
  [h |-> h, headers |-> map, keyStart |-> 0, keyEnd |-> 0,
   valueStart |-> 0, valueEnd |-> 0, line |-> 1, body |-> 1]

(* m is the course of the loop over s. *)
Runs(m, s) == \A i \in 1..Len(s) : m[i] = HeaderStep(m[i - 1], s, i)

(* A scan is one HeaderStep for each byte of the buffer.                   *)
LEMMA ScanFunction ==
  ASSUME NEW s \in Texts, NEW h, NEW map
  PROVE  \E m : m[0] = Locals(h, map) /\ Runs(m, s) /\ Scan(s, h, map) = m[Len(s)]
<1> DEFINE l == Locals(h, map)
           Step(x, i) == HeaderStep(x, s, i)
           To(n, m) == m = [i \in 0..n |-> IF i = 0 THEN l ELSE Step(m[i - 1], i)]
           P == {n \in Nat : \E m : To(n, m)}
<1> HIDE DEF l, Step
<1>1. 0 \in P
  <2>1. To(0, [i \in 0..0 |-> l])
    OBVIOUS
  <2> QED BY <2>1
<1>2. ASSUME NEW n \in P PROVE n + 1 \in P
  <2>1. PICK m : To(n, m)
    OBVIOUS
  <2> DEFINE g == [i \in 0..(n + 1) |-> IF i = n + 1 THEN Step(m[n], n + 1) ELSE m[i]]
  <2>2. \A i \in 0..n : m[i] = IF i = 0 THEN l ELSE Step(m[i - 1], i)
    BY <2>1
  <2>3. \A i \in 0..(n + 1) : g[i] = IF i = 0 THEN l ELSE Step(g[i - 1], i)
    <3>1. SUFFICES ASSUME NEW i \in 0..(n + 1)
                   PROVE  g[i] = IF i = 0 THEN l ELSE Step(g[i - 1], i)
      OBVIOUS
    <3>2. i # 0 => i - 1 \in 0..n /\ g[i - 1] = m[i - 1]
      OBVIOUS
    <3>3. n + 1 # 0 /\ (n + 1) - 1 = n
      OBVIOUS
    <3> QED BY <2>2, <3>2, <3>3
  <2>4. To(n + 1, g)
    <3>1. g = [i \in 0..(n + 1) |-> g[i]]
      OBVIOUS
    <3> HIDE DEF g
    <3> QED BY <2>3, <3>1
  <2>5. \E f : To(n + 1, f)
    <3> HIDE DEF g, To
    <3> QED BY <2>4
  <2> HIDE DEF To
  <2> QED BY <2>5
<1> HIDE DEF P
<1>3. P = Nat
  BY <1>1, <1>2, InductionOverSet DEF P
<1> DEFINE n == Len(s)
<1>4. n \in Nat
  BY DEF Texts
<1>5. \E m : To(n, m)
  BY <1>3, <1>4 DEF P
<1> DEFINE m == CHOOSE m : To(n, m)
<1>6. To(n, m)
  BY <1>5
<1>7. Scan(s, h, map) = m[n]
  BY DEF Scan, Locals, l, Step
<1> HIDE DEF m, n
<1>8. /\ m[0] = l /\ \A i \in 1..n : m[i] = Step(m[i - 1], i)
  <2>1. \A i \in 0..n : m[i] = IF i = 0 THEN l ELSE Step(m[i - 1], i)
    BY <1>6
  <2>2. 0 \in 0..n /\ \A i \in 1..n : i \in 0..n /\ i # 0
    BY <1>4
  <2> QED BY <2>1, <2>2
<1> QED BY <1>7, <1>8 DEF n, l, Step, Runs

----------------------------------------------------------------------------
(***************************************************************************)
(* A request line.                                                         *)
(***************************************************************************)

(* The file a request names, as parseURI understands it.                   *)
FileName(r) == IF r.path = <<>> /\ ~r.query THEN <<"index.html">> ELSE r.path

(* What parseURI makes of a request line that lies in the buffer behind    *)
(* `junk` tokens that are neither a CR nor the name of a method.           *)
LEMMA LineFound ==
  ASSUME NEW r, WellFormed(r), NEW s \in Texts, NEW junk \in Nat,
         \A k \in 1..Len(s) :
           IF k <= junk THEN s[k] # CR /\ s[k] \notin Methods
           ELSE k <= junk + BlankAt(r) + 5 => s[k] = LineText(r)[k - junk]
  PROVE  LET cr   == Find(s, CR, 1)
             line == SubSeq(s, 1, cr - 1)
             last == junk + BlankAt(r) + 4
         IN  /\ Len(s) < last => cr = 0
             /\ last <= Len(s) =>
                  /\ cr = last
                  /\ line \in Texts /\ Len(line) = cr - 1
                  /\ \A k \in 1..(cr - 1) : line[k] = s[k]
                  /\ MethodsIn(line) = {r.method} /\ MethodIn(line) = r.method
<1> DEFINE t == LineText(r)
           z == BlankAt(r)
           cr == Find(s, CR, 1)
           line == SubSeq(s, 1, cr - 1)
           last == junk + z + 4
<1>1. /\ t \in Texts /\ z \in Nat /\ 4 <= z
      /\ t[1] = r.method /\ t[z + 4] = CR
      /\ \A k \in 1..(z + 3) : t[k] # CR
      /\ \A k \in 2..(z + 3) : t[k] \notin Methods
  BY LineLayout, LineTokens
<1>2. Len(s) \in Nat /\ last \in Nat /\ 1 \in Nat
  BY <1>1 DEF Texts
<1> HIDE DEF t, z
<1>3. \A k \in 1..Len(s) : k < last => s[k] # CR
  <2>1. SUFFICES ASSUME NEW k \in 1..Len(s), k < last, ~(k <= junk) PROVE s[k] # CR
    OBVIOUS
  <2>2. k - junk \in 1..(z + 3) /\ k <= junk + z + 5
    BY <1>1, <2>1, SMTT(60)
  <2>3. s[k] = t[k - junk]
    BY <2>1, <2>2 DEF t, z
  <2> QED BY <1>1, <2>2, <2>3
<1>4. ASSUME Len(s) < last PROVE cr = 0
  <2>1. \A k \in 1..Len(s) : s[k] # CR
    BY <1>2, <1>3, <1>4
  <2> QED BY <2>1, FindNone
<1>5. ASSUME last <= Len(s)
      PROVE  /\ cr = last
             /\ line \in Texts /\ Len(line) = cr - 1
             /\ \A k \in 1..(cr - 1) : line[k] = s[k]
             /\ MethodsIn(line) = {r.method}
  <2>1. last \in 1..Len(s) /\ ~(last <= junk) /\ last <= junk + z + 5 /\ last - junk = z + 4
    BY <1>1, <1>2, <1>5
  <2>2. s[last] = CR
    <3>1. s[last] = t[last - junk]
      BY <2>1 DEF t, z
    <3> QED BY <1>1, <2>1, <3>1
  <2>3. \A k \in 1..(last - 1) : s[k] # CR
    BY <1>2, <1>3, <1>5
  <2>4. cr = last
    <3> HIDE DEF last
    <3> QED BY <1>2, <2>1, <2>2, <2>3, FindFirst
  <2> HIDE DEF cr, last
  <2>5. /\ line \in Texts /\ Len(line) = last - 1
        /\ \A k \in 1..(last - 1) : line[k] = s[k]
    <3>1. last - 1 \in Nat /\ last - 1 <= Len(s) /\ 1 <= (last - 1) + 1
      BY <1>2, <2>1
    <3>2. /\ SubSeq(s, 1, last - 1) \in Texts /\ Len(SubSeq(s, 1, last - 1)) = (last - 1) - 1 + 1
          /\ \A k \in 1..((last - 1) - 1 + 1) : SubSeq(s, 1, last - 1)[k] = s[1 + k - 1]
      BY <1>2, <3>1, Cut
    <3>3. (last - 1) - 1 + 1 = last - 1 /\ \A k \in 1..(last - 1) : 1 + k - 1 = k
      BY <1>2
    <3> QED BY <2>4, <3>2, <3>3
  <2> HIDE DEF line
  <2>6. Find(line, r.method, 1) \in 1..(last - 1)
    <3>1. junk + 1 \in 1..Len(s) /\ ~(junk + 1 <= junk) /\ (junk + 1) - junk = 1
          /\ junk + 1 <= junk + z + 5 /\ junk + 1 \in 1..(last - 1)
      BY <1>1, <1>2, <2>1 DEF last
    <3>2. s[junk + 1] = t[(junk + 1) - junk]
      BY <3>1 DEF t, z
    <3>3. line[junk + 1] = r.method
      BY <1>1, <2>5, <3>1, <3>2
    <3>4. Len(line) \in Nat /\ junk + 1 \in 1..Len(line)
      BY <1>2, <2>5, <3>1
    <3>5. Find(line, r.method, 1) \in 1..Len(line)
      BY <3>3, <3>4, FindSome
    <3> QED BY <2>5, <3>5
  <2>7. ASSUME NEW w \in Methods, w # r.method PROVE Find(line, w, 1) = 0
    <3>1. \A k \in 1..Len(line) : line[k] # w
      <4>1. SUFFICES ASSUME NEW k \in 1..(last - 1) PROVE s[k] # w
        BY <2>5
      <4>2. k \in 1..Len(s)
        BY <1>2, <2>1
      <4>3. CASE k <= junk
        BY <4>2, <4>3
      <4>4. CASE ~(k <= junk)
        <5>1. k - junk \in 1..(z + 3) /\ k <= junk + z + 5
          BY <1>1, <1>2, <4>4 DEF last
        <5>2. s[k] = t[k - junk]
          BY <4>2, <4>4, <5>1 DEF t, z
        <5>3. k - junk = 1 \/ k - junk \in 2..(z + 3)
          BY <5>1
        <5> QED BY <1>1, <2>7, <5>2, <5>3
      <4> QED BY <4>3, <4>4
    <3> QED BY <3>1, FindNone
  <2>8. r.method \in Methods
    BY DEF WellFormed
  <2>9. MethodsIn(line) = {r.method}
    <3>1. Find(line, r.method, 1) # 0
      BY <2>6
    <3> QED BY <2>7, <2>8, <3>1 DEF MethodsIn
  <2> QED BY <2>4, <2>5, <2>9
<1>6. MethodsIn(line) = {r.method} => MethodIn(line) = r.method
  <2>1. r.method \in Methods
    BY DEF WellFormed
  <2> HIDE DEF line
  <2> QED BY <2>1 DEF MethodIn, Methods
<1> QED BY <1>4, <1>5, <1>6 DEF t, z

(* And what it finds in that line: the target, and a version.              *)
LEMMA LineParsed ==
  ASSUME NEW r, WellFormed(r), NEW junk \in Nat, NEW line \in Texts,
         Len(line) = junk + BlankAt(r) + 3,
         \A k \in 1..Len(line) :
           IF k <= junk THEN line[k] \notin Methods ELSE line[k] = LineText(r)[k - junk],
         NEW from, from = Find(line, r.method, 1)
  PROVE  LET slash == Find(line, Slash, from)
             blank == Find(line, Blank, slash)
         IN  /\ slash = junk + 3 /\ blank = junk + BlankAt(r)
             /\ VersionOK(line, blank)
             /\ NameIn(line, slash, blank) = FileName(r)
<1> DEFINE t == LineText(r)
           z == BlankAt(r)
<1>1. /\ t \in Texts /\ z \in Nat /\ 4 <= z
      /\ t[1] = r.method /\ t[2] = Blank /\ t[3] = Slash
      /\ t[z] = Blank /\ t[z + 1] = HTTP /\ t[z + 2] = Slash /\ t[z + 3] = r.version
      /\ \A k \in 4..(z - 1) : t[k] # Blank
      /\ \A k \in 1..(z - 4) : t[3 + k] = Target(r)[k]
      /\ t[1] # Slash
  BY LineLayout, LineTokens
<1> HIDE DEF t, z
<1>2. /\ Len(line) = junk + z + 3 /\ Len(line) \in Nat
      /\ \A k \in 1..(z + 3) : line[junk + k] = t[k]
      /\ \A k \in 1..junk : line[k] \notin Methods
  <2>1. Len(line) = junk + z + 3 /\ Len(line) \in Nat
    BY <1>1 DEF z
  <2>2. ASSUME NEW k \in 1..(z + 3) PROVE line[junk + k] = t[k]
    <3>1. junk + k \in 1..Len(line) /\ ~(junk + k <= junk) /\ (junk + k) - junk = k
      BY <1>1, <2>1
    <3> QED BY <3>1 DEF t
  <2>3. \A k \in 1..junk : k \in 1..Len(line) /\ k <= junk
    BY <1>1, <2>1
  <2> QED BY <2>1, <2>2, <2>3
<1>3. from = junk + 1
  <2>1. junk + 1 \in 1..Len(line) /\ line[junk + 1] = r.method
    BY <1>1, <1>2
  <2>2. r.method \in Methods
    BY DEF WellFormed
  <2>3. \A k \in 1..((junk + 1) - 1) : line[k] # r.method
    BY <1>2, <2>2
  <2> QED BY <1>2, <2>1, <2>3, FindFirst
<1>4. Find(line, Slash, junk + 1) = junk + 3
  <2>1. junk + 3 \in (junk + 1)..Len(line) /\ line[junk + 3] = Slash
    BY <1>1, <1>2
  <2>2. \A k \in (junk + 1)..((junk + 3) - 1) : line[k] # Slash
    <3>1. \A k \in (junk + 1)..((junk + 3) - 1) : k = junk + 1 \/ k = junk + 2
      OBVIOUS
    <3>2. line[junk + 1] = t[1] /\ line[junk + 2] = t[2]
      BY <1>1, <1>2
    <3> QED BY <1>1, <3>1, <3>2, TokensDiffer
  <2>3. junk + 1 \in Nat
    OBVIOUS
  <2> QED BY <1>2, <2>1, <2>2, <2>3, FindFirst
<1>5. Find(line, Blank, junk + 3) = junk + z
  <2>1. junk + z \in (junk + 3)..Len(line) /\ line[junk + z] = Blank
    BY <1>1, <1>2
  <2>2. ASSUME NEW k \in (junk + 3)..((junk + z) - 1) PROVE line[k] # Blank
    <3>1. /\ k - junk \in 1..(z + 3) /\ junk + (k - junk) = k
          /\ (k - junk = 3 \/ k - junk \in 4..(z - 1))
      BY <1>1
    <3>2. line[k] = t[k - junk]
      BY <1>2, <3>1
    <3> QED BY <1>1, <3>1, <3>2, TokensDiffer
  <2>3. junk + 3 \in Nat
    OBVIOUS
  <2> QED BY <1>2, <2>1, <2>2, <2>3, FindFirst
<1>6. VersionOK(line, junk + z)
  <2> DEFINE at == junk + z
  <2>1. at \in Nat /\ 1 <= at /\ Len(line) = at + 3
    BY <1>1, <1>2
  <2>2. line[at] = t[z] /\ line[at + 1] = t[z + 1] /\ line[at + 2] = t[z + 2]
        /\ line[at + 3] = t[z + 3]
    <3>1. /\ z \in 1..(z + 3) /\ z + 1 \in 1..(z + 3) /\ z + 2 \in 1..(z + 3)
          /\ z + 3 \in 1..(z + 3)
          /\ at + 1 = junk + (z + 1) /\ at + 2 = junk + (z + 2) /\ at + 3 = junk + (z + 3)
      BY <1>1
    <3>2. line[at] = t[z]
      BY <1>2, <3>1
    <3> HIDE DEF at
    <3>3. \A k \in 1..(z + 3) : line[junk + k] = t[k]
      BY <1>2
    <3>4. line[junk + (z + 1)] = t[z + 1] /\ line[junk + (z + 2)] = t[z + 2]
          /\ line[junk + (z + 3)] = t[z + 3]
      BY <3>1, <3>3
    <3> QED BY <3>1, <3>2, <3>4
  <2> HIDE DEF at
  <2>3. /\ at + 2 \in at..Len(line) /\ line[at + 2] = Slash
        /\ at + 2 < Len(line) /\ line[at + 3] = r.version
    BY <1>1, <2>1, <2>2
  <2>4. \A k \in at..((at + 2) - 1) : line[k] # Slash
    <3>1. \A k \in at..((at + 2) - 1) : k = at \/ k = at + 1
      BY <2>1
    <3>2. HTTP # Slash /\ Blank # Slash
      BY TokensDiffer DEF Separators
    <3> QED BY <1>1, <2>2, <3>1, <3>2
  <2>5. Find(line, Slash, at) = at + 2
    BY <1>2, <2>1, <2>3, <2>4, FindFirst
  <2>6. r.version \in Versions
    BY DEF WellFormed
  <2>7. at + 2 # 0 /\ (at + 2) + 1 = at + 3
    BY <2>1
  <2>8. VersionOK(line, at)
    BY <2>3, <2>5, <2>6, <2>7 DEF VersionOK
  <2> QED BY <2>8 DEF at
<1>7. NameIn(line, junk + 3, junk + z) = FileName(r)
  <2> DEFINE e == Target(r)
             p == r.path
             first == (junk + 3) + 1
             end == (junk + z) - 1
             name == SubSeq(line, first, end)
  <2>1. /\ e \in Texts /\ p \in Texts /\ Len(e) = z - 4
        /\ \A k \in 1..Len(p) : p[k] \in Words /\ e[k] = p[k]
        /\ ~r.query => e = p
        /\ r.query => Len(e) = Len(p) + 2 /\ e[Len(p) + 1] = Mark
    <3>1. Len(e) \in Nat
      BY TargetLayout DEF Texts
    <3> QED BY <3>1, TargetLayout DEF BlankAt, z
  <2> HIDE DEF e, p
  <2>2. name = e
    <3>1. /\ first \in Nat /\ end \in Nat /\ 1 <= first /\ end <= Len(line)
          /\ first <= end + 1
      BY <1>1, <1>2
    <3>2. /\ end - first + 1 = z - 4
          /\ \A k \in 1..(z - 4) : first + k - 1 = junk + (3 + k)
      BY <1>1
    <3> HIDE DEF first, end
    <3>3. /\ name \in Texts /\ Len(name) = z - 4
          /\ \A k \in 1..(z - 4) : name[k] = line[first + k - 1]
      <4>1. /\ name \in Texts /\ Len(name) = end - first + 1
            /\ \A k \in 1..(end - first + 1) : name[k] = line[first + k - 1]
        BY <3>1, Cut
      <4> QED BY <3>2, <4>1
    <3> HIDE DEF name
    <3>4. ASSUME NEW k \in 1..(z - 4) PROVE name[k] = e[k]
      <4>1. 3 + k \in 1..(z + 3)
        BY <1>1
      <4>2. name[k] = line[junk + (3 + k)]
        BY <3>2, <3>3
      <4>3. line[junk + (3 + k)] = t[3 + k] /\ t[3 + k] = e[k]
        BY <1>1, <1>2, <4>1 DEF e
      <4> QED BY <4>2, <4>3
    <3>5. Len(name) = Len(e)
      BY <2>1, <3>3
    <3> QED BY <2>1, <3>3, <3>4, <3>5, SeqEqual DEF Texts
  <2>3. Len(p) \in Nat /\ Len(e) \in Nat
    BY <2>1 DEF Texts
  <2>4. \A w \in Words : w # Mark
    BY TokensDiffer DEF Separators
  <2>5. NameIn(line, junk + 3, junk + z) =
          IF e = <<>> THEN <<"index.html">>
          ELSE IF Find(e, Mark, 1) = 0 THEN e ELSE SubSeq(e, 1, Find(e, Mark, 1) - 1)
    <3> HIDE DEF name
    <3> QED BY <2>2 DEF NameIn, name
  <2>6. FileName(r) = IF p = <<>> /\ ~r.query THEN <<"index.html">> ELSE p
    BY DEF FileName, p
  <2>7. CASE ~r.query
    <3>1. e = p
      BY <2>1, <2>7
    <3>2. Find(e, Mark, 1) = 0
      BY <2>1, <2>4, <3>1, FindNone
    <3> QED BY <2>5, <2>6, <2>7, <3>1, <3>2
  <2>8. CASE r.query
    <3>1. Find(e, Mark, 1) = Len(p) + 1
      <4>1. Len(p) + 1 \in 1..Len(e) /\ e[Len(p) + 1] = Mark /\ (Len(p) + 1) - 1 = Len(p)
        BY <2>1, <2>3, <2>8
      <4>2. \A k \in 1..((Len(p) + 1) - 1) : e[k] # Mark
        BY <2>1, <2>3, <2>4
      <4> QED BY <2>3, <4>1, <4>2, FindFirst
    <3>2. e # <<>> /\ Len(p) + 1 # 0 /\ (Len(p) + 1) - 1 = Len(p) /\ Len(p) <= Len(e)
      BY <2>1, <2>3, <2>8
    <3>3. SubSeq(e, 1, Len(p)) = p
      <4> DEFINE v == SubSeq(e, 1, Len(p))
      <4>1. /\ v \in Texts /\ Len(v) = Len(p) - 1 + 1
            /\ \A k \in 1..(Len(p) - 1 + 1) : v[k] = e[1 + k - 1]
        BY <2>1, <2>3, <3>2, Cut
      <4>2. Len(p) - 1 + 1 = Len(p) /\ \A k \in 1..Len(p) : 1 + k - 1 = k
        BY <2>3
      <4> HIDE DEF v
      <4>3. Len(v) = Len(p) /\ \A k \in 1..Len(p) : v[k] = p[k]
        BY <2>1, <4>1, <4>2
      <4>4. v = p
        BY <2>1, <4>1, <4>3, SeqEqual DEF Texts
      <4> QED BY <4>4 DEF v
    <3> QED BY <2>5, <2>6, <2>8, <3>1, <3>2, <3>3
  <2> QED BY <2>7, <2>8
<1> QED BY <1>3, <1>4, <1>5, <1>6, <1>7 DEF z

----------------------------------------------------------------------------
(***************************************************************************)
(* One byte of the loop of parseHeaders.                                   *)
(***************************************************************************)

(* The locals of the loop over the header lines. *)
Loop(h, map, keyStart, keyEnd, valueStart, valueEnd, line, body) ==
  [h |-> h, headers |-> map, keyStart |-> keyStart, keyEnd |-> keyEnd,
   valueStart |-> valueStart, valueEnd |-> valueEnd, line |-> line, body |-> body]

LEMMA LoopFields ==
  ASSUME NEW h, NEW map, NEW a, NEW b, NEW c, NEW d, NEW l, NEW e
  PROVE  LET m == Loop(h, map, a, b, c, d, l, e)
         IN  /\ m.h = h /\ m.headers = map /\ m.keyStart = a /\ m.keyEnd = b
             /\ m.valueStart = c /\ m.valueEnd = d /\ m.line = l /\ m.body = e
BY DEF Loop

LEMMA LoopChanged ==
  ASSUME NEW h, NEW map, NEW a, NEW b, NEW c, NEW d, NEW l, NEW e, NEW x
  PROVE  LET m == Loop(h, map, a, b, c, d, l, e)
         IN  /\ [m EXCEPT !.h = x] = Loop(x, map, a, b, c, d, l, e)
             /\ [m EXCEPT !.headers = x] = Loop(h, x, a, b, c, d, l, e)
             /\ [m EXCEPT !.keyStart = x] = Loop(h, map, x, b, c, d, l, e)
             /\ [m EXCEPT !.keyEnd = x] = Loop(h, map, a, x, c, d, l, e)
             /\ [m EXCEPT !.valueStart = x] = Loop(h, map, a, b, x, d, l, e)
             /\ [m EXCEPT !.valueEnd = x] = Loop(h, map, a, b, c, x, l, e)
             /\ [m EXCEPT !.line = x] = Loop(h, map, a, b, c, d, x, e)
             /\ [m EXCEPT !.body = x] = Loop(h, map, a, b, c, d, l, x)
BY DEF Loop

(* One byte of it, state by state.                                         *)

LEMMA StepInStart ==
  ASSUME NEW s, NEW i, NEW map, NEW a, NEW b, NEW c, NEW d, NEW l, NEW e
  PROVE  HeaderStep(Loop("start", map, a, b, c, d, l, e), s, i) =
           IF s[i] \in {CR, LF} THEN Loop("start", map, a, b, c, d, l, e)
           ELSE Loop("key", map, i, b, c, d, i, e)
<1> DEFINE m == Loop("start", map, a, b, c, d, l, e)
<1>1. m.h = "start"
  BY LoopFields
<1>2. [m EXCEPT !.h = "key"] = Loop("key", map, a, b, c, d, l, e)
  BY LoopChanged
<1>3. [Loop("key", map, a, b, c, d, l, e) EXCEPT !.keyStart = i] = Loop("key", map, i, b, c, d, l, e)
  BY DEF Loop
<1>4. [Loop("key", map, i, b, c, d, l, e) EXCEPT !.line = i] = Loop("key", map, i, b, c, d, i, e)
  BY DEF Loop
<1> HIDE DEF m
<1>5. HeaderStep(m, s, i) =
      IF s[i] \in {CR, LF} THEN m
      ELSE [[[m EXCEPT !.h = "key"] EXCEPT !.keyStart = i] EXCEPT !.line = i]
  BY <1>1 DEF HeaderStep
<1> QED BY <1>1, <1>2, <1>3, <1>4, <1>5 DEF m

LEMMA StepInKey ==
  ASSUME NEW s, NEW i, NEW map, NEW a, NEW b, NEW c, NEW d, NEW l, NEW e
  PROVE  HeaderStep(Loop("key", map, a, b, c, d, l, e), s, i) =
           IF s[i] = Colon /\ i > a THEN Loop("colon", map, a, i, c, d, l, e)
           ELSE IF s[i] \in {Colon, CR, LF} THEN Loop("error", map, a, b, c, d, l, e)
           ELSE Loop("key", map, a, b, c, d, l, e)
<1> DEFINE m == Loop("key", map, a, b, c, d, l, e)
<1>1. m.h = "key" /\ m.keyStart = a
  BY LoopFields
<1>2. [m EXCEPT !.h = "error"] = Loop("error", map, a, b, c, d, l, e)
  BY LoopChanged
<1>3. [m EXCEPT !.h = "colon"] = Loop("colon", map, a, b, c, d, l, e)
  BY LoopChanged
<1>4. [Loop("colon", map, a, b, c, d, l, e) EXCEPT !.keyEnd = i] = Loop("colon", map, a, i, c, d, l, e)
  BY DEF Loop
<1> HIDE DEF m
<1>5. HeaderStep(m, s, i) =
      IF s[i] = Colon /\ i > a THEN [[m EXCEPT !.h = "colon"] EXCEPT !.keyEnd = i]
      ELSE IF s[i] \in {Colon, CR, LF} THEN [m EXCEPT !.h = "error"] ELSE m
  BY <1>1 DEF HeaderStep
<1> QED BY <1>1, <1>2, <1>3, <1>4, <1>5 DEF m

LEMMA StepInColon ==
  ASSUME NEW s, NEW i, NEW map, NEW a, NEW b, NEW c, NEW d, NEW l, NEW e
  PROVE  HeaderStep(Loop("colon", map, a, b, c, d, l, e), s, i) =
           IF s[i] = Blank THEN Loop("spaces", map, a, b, c, d, l, e)
           ELSE Loop("error", map, a, b, c, d, l, e)
<1> DEFINE m == Loop("colon", map, a, b, c, d, l, e)
<1>1. m.h = "colon"
  BY LoopFields
<1>2. [m EXCEPT !.h = "error"] = Loop("error", map, a, b, c, d, l, e)
  BY LoopChanged
<1>3. [m EXCEPT !.h = "spaces"] = Loop("spaces", map, a, b, c, d, l, e)
  BY LoopChanged
<1> HIDE DEF m
<1>4. HeaderStep(m, s, i) =
      IF s[i] = Blank THEN [m EXCEPT !.h = "spaces"] ELSE [m EXCEPT !.h = "error"]
  BY <1>1 DEF HeaderStep
<1> QED BY <1>1, <1>2, <1>3, <1>4 DEF m

LEMMA StepInSpaces ==
  ASSUME NEW s, NEW i, NEW map, NEW a, NEW b, NEW c, NEW d, NEW l, NEW e
  PROVE  HeaderStep(Loop("spaces", map, a, b, c, d, l, e), s, i) =
           Loop("value", map, a, b, i, d, l, e)
<1> DEFINE m == Loop("spaces", map, a, b, c, d, l, e)
<1>1. m.h = "spaces"
  BY LoopFields
<1>2. [m EXCEPT !.h = "value"] = Loop("value", map, a, b, c, d, l, e)
  BY LoopChanged
<1>3. [Loop("value", map, a, b, c, d, l, e) EXCEPT !.valueStart = i] = Loop("value", map, a, b, i, d, l, e)
  BY DEF Loop
<1> HIDE DEF m
<1>4. HeaderStep(m, s, i) =
      [[m EXCEPT !.h = "value"] EXCEPT !.valueStart = i]
  BY <1>1 DEF HeaderStep
<1> QED BY <1>1, <1>2, <1>3, <1>4 DEF m

LEMMA StepInValue ==
  ASSUME NEW s, NEW i, NEW map, NEW a, NEW b, NEW c, NEW d, NEW l, NEW e
  PROVE  HeaderStep(Loop("value", map, a, b, c, d, l, e), s, i) =
           IF s[i] # CR THEN Loop("value", map, a, b, c, d, l, e)
           ELSE IF i > c THEN Loop("cr", map, a, b, c, i, l, e)
           ELSE Loop("error", map, a, b, c, d, l, e)
<1> DEFINE m == Loop("value", map, a, b, c, d, l, e)
<1>1. m.h = "value" /\ m.valueStart = c
  BY LoopFields
<1>2. [m EXCEPT !.h = "error"] = Loop("error", map, a, b, c, d, l, e)
  BY LoopChanged
<1>3. [m EXCEPT !.h = "cr"] = Loop("cr", map, a, b, c, d, l, e)
  BY LoopChanged
<1>4. [Loop("cr", map, a, b, c, d, l, e) EXCEPT !.valueEnd = i] = Loop("cr", map, a, b, c, i, l, e)
  BY DEF Loop
<1> HIDE DEF m
<1>5. HeaderStep(m, s, i) =
      IF s[i] # CR THEN m
      ELSE IF i > c THEN [[m EXCEPT !.h = "cr"] EXCEPT !.valueEnd = i]
      ELSE [m EXCEPT !.h = "error"]
  BY <1>1 DEF HeaderStep
<1> QED BY <1>1, <1>2, <1>3, <1>4, <1>5 DEF m

LEMMA StepInCR ==
  ASSUME NEW s, NEW i, NEW map, NEW a, NEW b, NEW c, NEW d, NEW l, NEW e
  PROVE  HeaderStep(Loop("cr", map, a, b, c, d, l, e), s, i) =
           IF s[i] = LF
             THEN Loop("lf", Store(map, Slice(s, a, b), Slice(s, c, d)), a, b, c, d, i, e)
             ELSE Loop("error", map, a, b, c, d, l, e)
<1> DEFINE m == Loop("cr", map, a, b, c, d, l, e)
<1>1. /\ m.h = "cr" /\ m.headers = map /\ m.keyStart = a /\ m.keyEnd = b
      /\ m.valueStart = c /\ m.valueEnd = d
  BY LoopFields
<1>2. [m EXCEPT !.h = "error"] = Loop("error", map, a, b, c, d, l, e)
  BY LoopChanged
<1>3. [m EXCEPT !.h = "lf"] = Loop("lf", map, a, b, c, d, l, e)
  BY LoopChanged
<1>4. [Loop("lf", map, a, b, c, d, l, e) EXCEPT !.line = i] =
        Loop("lf", map, a, b, c, d, i, e)
  BY DEF Loop
<1>5. [Loop("lf", map, a, b, c, d, i, e) EXCEPT !.headers = Store(map, Slice(s, a, b), Slice(s, c, d))] =
        Loop("lf", Store(map, Slice(s, a, b), Slice(s, c, d)), a, b, c, d, i, e)
  BY DEF Loop
<1> HIDE DEF m
<1>6. HeaderStep(m, s, i) =
      IF s[i] = LF
        THEN [[[m EXCEPT !.h = "lf"] EXCEPT !.line = i] EXCEPT !.headers = Store(map, Slice(s, a, b), Slice(s, c, d))]
        ELSE [m EXCEPT !.h = "error"]
  BY <1>1 DEF HeaderStep
<1> QED BY <1>1, <1>2, <1>3, <1>4, <1>5, <1>6 DEF m

LEMMA StepInLF ==
  ASSUME NEW s, NEW i, NEW map, NEW a, NEW b, NEW c, NEW d, NEW l, NEW e
  PROVE  HeaderStep(Loop("lf", map, a, b, c, d, l, e), s, i) =
           IF s[i] = CR THEN Loop("endcr", map, a, b, c, d, l, e)
           ELSE Loop("key", map, i, b, c, d, l, e)
<1> DEFINE m == Loop("lf", map, a, b, c, d, l, e)
<1>1. m.h = "lf"
  BY LoopFields
<1>2. [m EXCEPT !.h = "endcr"] = Loop("endcr", map, a, b, c, d, l, e)
  BY LoopChanged
<1>3. [m EXCEPT !.h = "key"] = Loop("key", map, a, b, c, d, l, e)
  BY LoopChanged
<1>4. [Loop("key", map, a, b, c, d, l, e) EXCEPT !.keyStart = i] = Loop("key", map, i, b, c, d, l, e)
  BY DEF Loop
<1> HIDE DEF m
<1>5. HeaderStep(m, s, i) =
      IF s[i] = CR THEN [m EXCEPT !.h = "endcr"]
      ELSE [[m EXCEPT !.h = "key"] EXCEPT !.keyStart = i]
  BY <1>1 DEF HeaderStep
<1> QED BY <1>1, <1>2, <1>3, <1>4, <1>5 DEF m

LEMMA StepInEndCR ==
  ASSUME NEW s, NEW i, NEW map, NEW a, NEW b, NEW c, NEW d, NEW l, NEW e
  PROVE  HeaderStep(Loop("endcr", map, a, b, c, d, l, e), s, i) =
           IF s[i] = LF THEN Loop("endlf", map, a, b, c, d, l, i + 1)
           ELSE Loop("error", map, a, b, c, d, l, e)
<1> DEFINE m == Loop("endcr", map, a, b, c, d, l, e)
<1>1. m.h = "endcr"
  BY LoopFields
<1>2. [m EXCEPT !.h = "error"] = Loop("error", map, a, b, c, d, l, e)
  BY LoopChanged
<1>3. [m EXCEPT !.h = "endlf"] = Loop("endlf", map, a, b, c, d, l, e)
  BY LoopChanged
<1>4. [Loop("endlf", map, a, b, c, d, l, e) EXCEPT !.body = i + 1] = Loop("endlf", map, a, b, c, d, l, i + 1)
  BY DEF Loop
<1> HIDE DEF m
<1>5. HeaderStep(m, s, i) =
      IF s[i] = LF THEN [[m EXCEPT !.h = "endlf"] EXCEPT !.body = i + 1]
      ELSE [m EXCEPT !.h = "error"]
  BY <1>1 DEF HeaderStep
<1> QED BY <1>1, <1>2, <1>3, <1>4, <1>5 DEF m

LEMMA StepAtEnd ==
  ASSUME NEW s, NEW i, NEW h \in {"endlf", "error"},
         NEW map, NEW a, NEW b, NEW c, NEW d, NEW l, NEW e
  PROVE  HeaderStep(Loop(h, map, a, b, c, d, l, e), s, i) = Loop(h, map, a, b, c, d, l, e)
<1> DEFINE m == Loop(h, map, a, b, c, d, l, e)
<1>1. m.h = h
  BY LoopFields
<1> HIDE DEF m
<1>2. HeaderStep(m, s, i) = m
  BY <1>1 DEF HeaderStep
<1> QED BY <1>2 DEF m

----------------------------------------------------------------------------
(***************************************************************************)
(* Headers that no read has cut.                                           *)
(***************************************************************************)

(* What the lines D of hs store, and what the first i do.                  *)
MapOn(hs, D) ==
  [k \in {<<hs[j][1]>> : j \in D} |-> <<hs[CHOOSE j \in D : <<hs[j][1]>> = k][2]>>]

MapOf(hs, i) == MapOn(hs, 1..i)

(* No two headers of hs have the same name. *)
Distinct(hs) == \A i, j \in DOMAIN hs : hs[i][1] = hs[j][1] => i = j

(* The headers stored are those sent, name by name.                        *)
LEMMA MapOfValue ==
  ASSUME NEW hs, AllWords(hs), Distinct(hs), NEW i \in 0..Len(hs)
  PROVE  /\ DOMAIN MapOf(hs, i) = {<<hs[j][1]>> : j \in 1..i}
         /\ \A j \in 1..i : MapOf(hs, i)[<<hs[j][1]>>] = <<hs[j][2]>>
<1>1. Len(hs) \in Nat /\ DOMAIN hs = 1..Len(hs)
  BY DEF AllWords
<1>2. DOMAIN MapOf(hs, i) = {<<hs[j][1]>> : j \in 1..i}
  BY DEF MapOf, MapOn
<1>3. ASSUME NEW j \in 1..i PROVE MapOf(hs, i)[<<hs[j][1]>>] = <<hs[j][2]>>
  <2> DEFINE k == <<hs[j][1]>>
             x == CHOOSE x \in 1..i : <<hs[x][1]>> = k
  <2>1. x \in 1..i /\ <<hs[x][1]>> = k
    OBVIOUS
  <2>2. hs[x][1] = hs[j][1]
    BY <2>1
  <2>3. x = j
    BY <1>1, <2>1, <2>2 DEF Distinct
  <2>4. MapOf(hs, i)[k] = <<hs[x][2]>>
    BY DEF MapOf, MapOn
  <2> QED BY <2>3, <2>4
<1> QED BY <1>2, <1>3

LEMMA MapOfNone == ASSUME NEW hs PROVE MapOf(hs, 0) = <<>>
<1>1. {<<hs[j][1]>> : j \in 1..0} = {}
  OBVIOUS
<1> QED BY <1>1 DEF MapOf, MapOn

(* Storing the next header adds its line to what is stored.                *)
LEMMA MapOfNext ==
  ASSUME NEW hs, AllWords(hs), Distinct(hs), NEW i \in 0..(Len(hs) - 1)
  PROVE  MapOf(hs, i + 1) = Store(MapOf(hs, i), <<hs[i + 1][1]>>, <<hs[i + 1][2]>>)
<1> DEFINE K(j) == <<hs[j][1]>>
           V(j) == <<hs[j][2]>>
           f == MapOf(hs, i)
           g == MapOf(hs, i + 1)
           u == Store(f, K(i + 1), V(i + 1))
<1>1. Len(hs) \in Nat /\ i \in 0..Len(hs) /\ i + 1 \in 0..Len(hs) /\ i + 1 \in 1..Len(hs)
      /\ DOMAIN hs = 1..Len(hs)
  BY DEF AllWords
<1>2. /\ DOMAIN f = {K(j) : j \in 1..i} /\ \A j \in 1..i : f[K(j)] = V(j)
      /\ DOMAIN g = {K(j) : j \in 1..(i + 1)} /\ \A j \in 1..(i + 1) : g[K(j)] = V(j)
  BY <1>1, MapOfValue
<1>3. \A j \in 1..i : K(j) # K(i + 1)
  BY <1>1 DEF Distinct
<1>4. u = [k \in DOMAIN f \cup {K(i + 1)} |-> IF k = K(i + 1) THEN V(i + 1) ELSE f[k]]
  BY DEF Store
<1>5. g = [k \in DOMAIN g |-> g[k]]
  <2> DEFINE S == {<<hs[j][1]>> : j \in 1..(i + 1)}
             W(k) == <<hs[CHOOSE j \in 1..(i + 1) : <<hs[j][1]>> = k][2]>>
  <2>1. g = [k \in S |-> W(k)]
    BY DEF MapOf, MapOn
  <2> HIDE DEF S, W, g
  <2> QED BY <2>1
<1> HIDE DEF K, V, f, g, u
<1>6. DOMAIN g = DOMAIN f \cup {K(i + 1)}
  <2>1. \A j \in 1..(i + 1) : j \in 1..i \/ j = i + 1
    BY <1>1
  <2>2. \A j \in 1..i : j \in 1..(i + 1)
    BY <1>1
  <2>3. i + 1 \in 1..(i + 1)
    BY <1>1
  <2> QED BY <1>2, <2>1, <2>2, <2>3
<1>7. \A k \in DOMAIN g : g[k] = IF k = K(i + 1) THEN V(i + 1) ELSE f[k]
  <2>1. SUFFICES ASSUME NEW j \in 1..(i + 1)
                 PROVE  g[K(j)] = IF K(j) = K(i + 1) THEN V(i + 1) ELSE f[K(j)]
    BY <1>2
  <2>2. j \in 1..i \/ j = i + 1
    BY <1>1
  <2> QED BY <1>2, <1>3, <2>2
<1>8. g = u
  BY <1>4, <1>5, <1>6, <1>7
<1> QED BY <1>8 DEF K, V, f, g, u

(* One token.                                                              *)
LEMMA CutOne ==
  ASSUME NEW s \in Texts, NEW k \in 1..Len(s)
  PROVE  SubSeq(s, k, k) = <<s[k]>>
<1>1. Len(s) \in Nat /\ s[k] \in Tokens
  BY DEF Texts
<1>2. /\ SubSeq(s, k, k) \in Texts /\ Len(SubSeq(s, k, k)) = k - k + 1
      /\ \A i \in 1..(k - k + 1) : SubSeq(s, k, k)[i] = s[k + i - 1]
  BY <1>1, Cut
<1>3. k - k + 1 = 1 /\ k + 1 - 1 = k
  BY <1>1
<1> DEFINE v == SubSeq(s, k, k)
<1> HIDE DEF v
<1>4. v \in Texts /\ Len(v) = 1 /\ v[1] = s[k]
  BY <1>2, <1>3 DEF v
<1>5. /\ <<s[k]>> \in Texts /\ Len(<<s[k]>>) = 1 /\ <<s[k]>>[1] = s[k]
  BY <1>1, TextOf1
<1> DEFINE w == <<s[k]>>
<1> HIDE DEF w
<1>6. v = w
  BY <1>4, <1>5, SeqEqual DEF Texts, w
<1> QED BY <1>6 DEF v, w

(* One header line, from its first token to its LF.                        *)
LEMMA LineScanned ==
  ASSUME NEW s \in Texts, NEW m, NEW p \in Nat, p + 6 <= Len(s),
         Runs(m, s), NEW h \in Words \X Words, IsLine(s, p, h),
         NEW g \in {"start", "lf"}, NEW map, NEW a, NEW b, NEW c, NEW d, NEW l, NEW e,
         m[p] = Loop(g, map, a, b, c, d, l, e)
  PROVE  m[p + 6] = Loop("lf", Store(map, <<h[1]>>, <<h[2]>>),
                         p + 1, p + 2, p + 4, p + 5, p + 6, e)
<1>1. Len(s) \in Nat /\ \A k \in 1..6 : p + k \in 1..Len(s)
  BY DEF Texts
<1>2. /\ m[p + 1] = HeaderStep(m[p], s, p + 1)
      /\ m[p + 2] = HeaderStep(m[p + 1], s, p + 2)
      /\ m[p + 3] = HeaderStep(m[p + 2], s, p + 3)
      /\ m[p + 4] = HeaderStep(m[p + 3], s, p + 4)
      /\ m[p + 5] = HeaderStep(m[p + 4], s, p + 5)
      /\ m[p + 6] = HeaderStep(m[p + 5], s, p + 6)
  <2>1. /\ (p + 1) - 1 = p /\ (p + 2) - 1 = p + 1 /\ (p + 3) - 1 = p + 2
        /\ (p + 4) - 1 = p + 3 /\ (p + 5) - 1 = p + 4 /\ (p + 6) - 1 = p + 5
    OBVIOUS
  <2>2. \A k \in 1..6 : m[p + k] = HeaderStep(m[(p + k) - 1], s, p + k)
    BY <1>1 DEF Runs
  <2> QED BY <2>1, <2>2
<1>3. /\ s[p + 1] = h[1] /\ s[p + 2] = Colon /\ s[p + 3] = Blank
      /\ s[p + 4] = h[2] /\ s[p + 5] = CR /\ s[p + 6] = LF
  BY DEF IsLine
<1>4. /\ h[1] \notin {CR, LF} /\ h[2] # CR
  BY TokensDiffer DEF Separators
<1>5. PICK x : m[p + 1] = Loop("key", map, p + 1, b, c, d, x, e)
  <2>1. CASE g = "start"
    BY <1>2, <1>3, <1>4, <2>1, StepInStart
  <2>2. CASE g = "lf"
    BY <1>2, <1>3, <1>4, <2>2, StepInLF
  <2> QED BY <2>1, <2>2
<1>6. m[p + 2] = Loop("colon", map, p + 1, p + 2, c, d, x, e)
  <2>1. p + 2 > p + 1
    OBVIOUS
  <2> QED BY <1>2, <1>3, <1>5, <2>1, StepInKey
<1>7. m[p + 3] = Loop("spaces", map, p + 1, p + 2, c, d, x, e)
  BY <1>2, <1>3, <1>6, StepInColon
<1>8. m[p + 4] = Loop("value", map, p + 1, p + 2, p + 4, d, x, e)
  BY <1>2, <1>7, StepInSpaces
<1>9. m[p + 5] = Loop("cr", map, p + 1, p + 2, p + 4, p + 5, x, e)
  <2>1. p + 5 > p + 4
    OBVIOUS
  <2> QED BY <1>2, <1>3, <1>8, <2>1, StepInValue
<1>10. m[p + 6] = Loop("lf", Store(map, Slice(s, p + 1, p + 2), Slice(s, p + 4, p + 5)),
                       p + 1, p + 2, p + 4, p + 5, p + 6, e)
  BY <1>2, <1>3, <1>9, StepInCR
<1>11. Slice(s, p + 1, p + 2) = <<h[1]>> /\ Slice(s, p + 4, p + 5) = <<h[2]>>
  <2>1. /\ p + 1 # 0 /\ p + 4 # 0 /\ (p + 2) - 1 = p + 1 /\ (p + 5) - 1 = p + 4
        /\ p + 1 \in 1..Len(s) /\ p + 4 \in 1..Len(s)
    BY <1>1
  <2>2. SubSeq(s, p + 1, p + 1) = <<h[1]>> /\ SubSeq(s, p + 4, p + 4) = <<h[2]>>
    BY <1>3, <2>1, CutOne
  <2> QED BY <2>1, <2>2 DEF Slice
<1> QED BY <1>10, <1>11

(* A request line's headers, all of them in the buffer, with the LF before *)
(* them.                                                                   *)
LEMMA HeadersScanned ==
  ASSUME NEW r, WellFormed(r), Understood(r), NEW s \in Texts,
         Len(HeadersText(r)) < Len(s), s[1] = LF,
         \A k \in 1..Len(HeadersText(r)) : s[1 + k] = HeadersText(r)[k]
  PROVE  LET m == Scan(s, "start", <<>>)
         IN  /\ m.h = "endlf" /\ m.headers = MapOf(r.headers, Len(r.headers))
             /\ m.body = Len(HeadersText(r)) + 2
<1> DEFINE hs == r.headers
           n == Len(hs)
           t == HeadersText(r)
<1>1. /\ AllWords(hs) /\ Distinct(hs) /\ HaveValues(hs) /\ n \in Nat /\ n # 0
      /\ DOMAIN hs = 1..n
      /\ \A i \in 1..n : hs[i] \in Words \X Words
  <2>1. /\ hs \in Seq(Words \X (Words \cup {NoValue})) /\ n \in Nat /\ DOMAIN hs = 1..n
        /\ Distinct(hs)
    BY DEF WellFormed, Distinct
  <2>2. hs # <<>> /\ \A i \in 1..n : hs[i][2] # NoValue
    BY <2>1 DEF Understood
  <2> HIDE DEF hs
  <2>3. \A i \in 1..n : hs[i] \in Words \X (Words \cup {NoValue})
    BY <2>1
  <2> QED BY <2>1, <2>2, <2>3 DEF AllWords, HaveValues
<1>2. /\ Len(t) = 6 * n + 2 /\ t[6 * n + 1] = CR /\ t[6 * n + 2] = LF
      /\ \A i \in 1..n : IsLine(t, 6 * (i - 1), hs[i])
  <2>1. /\ t[Len(t) - 1] = CR /\ t[Len(t)] = LF /\ Len(t) = 6 * n + 2
        /\ \A i \in 1..n : IsLine(t, 6 * (i - 1), hs[i])
    BY <1>1, HeadersLayout
  <2>2. (6 * n + 2) - 1 = 6 * n + 1
    BY <1>1
  <2> QED BY <2>1, <2>2
<1>3. Len(s) \in Nat /\ 6 * n + 3 <= Len(s)
  <2>1. Len(s) \in Nat
    BY DEF Texts
  <2> QED BY <1>1, <1>2, <2>1
<1>4. PICK m : /\ m[0] = Locals("start", <<>>)
               /\ Runs(m, s)
               /\ Scan(s, "start", <<>>) = m[Len(s)]
  BY ScanFunction
<1> DEFINE At(i) == \E a, b, c, d : m[6 * i + 1] = Loop(IF i = 0 THEN "start" ELSE "lf",
                                      MapOf(hs, i), a, b, c, d, 6 * i + 1, 1)
           P == {i \in Nat : i <= n => At(i)}
<1>5. 0 \in P
  <2>1. m[0] = Loop("start", <<>>, 0, 0, 0, 0, 1, 1)
    BY <1>4 DEF Locals, Loop
  <2>2. 1 \in 1..Len(s) /\ 1 - 1 = 0
    BY <1>1, <1>3
  <2>3. m[1] = HeaderStep(m[0], s, 1)
    BY <1>4, <2>2 DEF Runs
  <2>4. m[1] = Loop("start", <<>>, 0, 0, 0, 0, 1, 1)
    BY <2>1, <2>3, StepInStart
  <2>5. MapOf(hs, 0) = <<>> /\ 6 * 0 + 1 = 1
    BY MapOfNone
  <2>6. At(0)
    BY <2>4, <2>5
  <2> QED BY <2>6
<1>6. ASSUME NEW i \in P PROVE i + 1 \in P
  <2>1. SUFFICES ASSUME i + 1 <= n PROVE At(i + 1)
    OBVIOUS
  <2>2. i \in Nat /\ i <= n /\ i \in 0..(n - 1) /\ i + 1 \in 1..n /\ (i + 1) - 1 = i /\ i + 1 # 0
    BY <1>1, <2>1
  <2>3. PICK a, b, c, d : m[6 * i + 1] = Loop(IF i = 0 THEN "start" ELSE "lf",
                                      MapOf(hs, i), a, b, c, d, 6 * i + 1, 1)
    BY <2>2
  <2> DEFINE p == 6 * i + 1
             h == hs[i + 1]
             g == IF i = 0 THEN "start" ELSE "lf"
  <2>4. p \in Nat /\ p + 6 <= Len(s) /\ p + 6 = 6 * (i + 1) + 1
    BY <1>1, <1>3, <2>1, <2>2
  <2>5. IsLine(s, p, h)
    <3>1. IsLine(t, 6 * i, h)
      BY <1>2, <2>2
    <3>2. \A k \in 1..6 : s[p + k] = t[6 * i + k]
      <4>1. \A k \in 1..6 : 6 * i + k \in 1..Len(t) /\ 1 + (6 * i + k) = p + k
        <5>1. i \in Nat /\ n \in Nat /\ Len(t) = 6 * n + 2
          BY <1>1, <1>2, <2>2
        <5> HIDE DEF n, t
        <5> QED BY <2>1, <5>1
      <4> HIDE DEF t, p
      <4> QED BY <4>1 DEF t
    <3> QED BY <3>1, <3>2, SMTT(60) DEF IsLine
  <2>6. h \in Words \X Words /\ g \in {"start", "lf"}
    BY <1>1, <2>2
  <2> HIDE DEF p, h, g
  <2>7. m[p] = Loop(g, MapOf(hs, i), a, b, c, d, p, 1)
    BY <2>3 DEF p, g
  <2>8. m[p + 6] = Loop("lf", Store(MapOf(hs, i), <<h[1]>>, <<h[2]>>),
                        p + 1, p + 2, p + 4, p + 5, p + 6, 1)
    <3> DEFINE map == MapOf(hs, i)
    <3> HIDE DEF map
    <3>1. m[p] = Loop(g, map, a, b, c, d, p, 1)
      BY <2>7 DEF map
    <3>2. m[p + 6] = Loop("lf", Store(map, <<h[1]>>, <<h[2]>>),
                          p + 1, p + 2, p + 4, p + 5, p + 6, 1)
      <4>1. Runs(m, s)
        BY <1>4
      <4>2. p \in Nat /\ p + 6 <= Len(s)
        BY <2>4
      <4>3. \A l, e : m[p] = Loop(g, map, a, b, c, d, l, e)
                      => m[p + 6] = Loop("lf", Store(map, <<h[1]>>, <<h[2]>>),
                                         p + 1, p + 2, p + 4, p + 5, p + 6, e)
        BY <2>5, <2>6, <4>1, <4>2, LineScanned, SMTT(30)
      <4> QED BY <3>1, <4>3
    <3> QED BY <3>2 DEF map
  <2>9. MapOf(hs, i + 1) = Store(MapOf(hs, i), <<h[1]>>, <<h[2]>>)
    BY <1>1, <2>2, MapOfNext DEF h
  <2>10. m[6 * (i + 1) + 1] = Loop("lf", MapOf(hs, i + 1), p + 1, p + 2, p + 4, p + 5,
                                   6 * (i + 1) + 1, 1)
    BY <2>4, <2>8, <2>9
  <2> HIDE DEF hs
  <2> QED BY <2>2, <2>10
<1> HIDE DEF P
<1>7. P = Nat
  BY <1>5, <1>6, InductionOverSet DEF P
<1>8. At(n)
  <2>1. n \in P
    BY <1>1, <1>7
  <2> HIDE DEF At
  <2> QED BY <1>1, <2>1 DEF P
<1>9. PICK a, b, c, d : m[6 * n + 1] = Loop("lf", MapOf(hs, n), a, b, c, d, 6 * n + 1, 1)
  <2> HIDE DEF hs, n
  <2> QED BY <1>1, <1>8
<1> HIDE DEF hs, n, t
<1>10. /\ 6 * n + 2 \in 1..Len(s) /\ 6 * n + 3 \in 1..Len(s)
       /\ (6 * n + 2) - 1 = 6 * n + 1 /\ (6 * n + 3) - 1 = 6 * n + 2
       /\ 6 * n + 1 \in 1..Len(t) /\ 6 * n + 2 \in 1..Len(t)
       /\ 1 + (6 * n + 1) = 6 * n + 2 /\ 1 + (6 * n + 2) = 6 * n + 3
       /\ (6 * n + 3) + 1 = Len(t) + 2
  BY <1>1, <1>2, <1>3
<1>11. s[6 * n + 2] = CR /\ s[6 * n + 3] = LF
  BY <1>2, <1>10 DEF t
<1>12. m[6 * n + 2] = Loop("endcr", MapOf(hs, n), a, b, c, d, 6 * n + 1, 1)
  <2>1. m[6 * n + 2] = HeaderStep(m[6 * n + 1], s, 6 * n + 2)
    BY <1>4, <1>10 DEF Runs
  <2> QED BY <1>9, <1>11, <2>1, StepInLF
<1> DEFINE End == Loop("endlf", MapOf(hs, n), a, b, c, d, 6 * n + 1, Len(t) + 2)
<1>13. m[6 * n + 3] = End
  <2>1. m[6 * n + 3] = HeaderStep(m[6 * n + 2], s, 6 * n + 3)
    BY <1>4, <1>10 DEF Runs
  <2> QED BY <1>10, <1>11, <1>12, <2>1, StepInEndCR, SMTT(60)
<1> DEFINE Q == {k \in Nat : 6 * n + 3 <= k /\ k <= Len(s) => m[k] = End}
<1>14. 0 \in Q
  BY <1>1
<1>15. ASSUME NEW k \in Q PROVE k + 1 \in Q
  <2>1. SUFFICES ASSUME 6 * n + 3 <= k + 1, k + 1 <= Len(s), k + 1 # 6 * n + 3
                 PROVE  m[k + 1] = End
    BY <1>13
  <2>2. 6 * n + 3 <= k /\ k <= Len(s) /\ k + 1 \in 1..Len(s) /\ (k + 1) - 1 = k
    <3>1. k \in Nat /\ n \in Nat /\ Len(s) \in Nat
      BY <1>1, <1>3
    <3> QED BY <2>1, <3>1, SMTT(60)
  <2>3. m[k] = End /\ m[k + 1] = HeaderStep(m[k], s, k + 1)
    BY <1>4, <2>2 DEF Runs
  <2>4. HeaderStep(End, s, k + 1) = End
    BY StepAtEnd, SMTT(60)
  <2> QED BY <2>3, <2>4
<1> HIDE DEF Q, End
<1>16. Q = Nat
  BY <1>14, <1>15, InductionOverSet DEF Q
<1>17. Scan(s, "start", <<>>) = End
  BY <1>3, <1>4, <1>16 DEF Q
<1>18. End.h = "endlf" /\ End.headers = MapOf(hs, n) /\ End.body = Len(t) + 2
  BY LoopFields DEF End
<1> QED BY <1>17, <1>18 DEF hs, n, t

(* Of headers of which only the LF before them has arrived nothing is read.*)
LEMMA NothingScanned ==
  ASSUME NEW s \in Texts, Len(s) <= 1, Len(s) = 1 => s[1] = LF
  PROVE  Scan(s, "start", <<>>) = Locals("start", <<>>)
<1>1. PICK m : /\ m[0] = Locals("start", <<>>)
               /\ Runs(m, s)
               /\ Scan(s, "start", <<>>) = m[Len(s)]
  BY ScanFunction
<1>2. Len(s) = 0 \/ Len(s) = 1
  <2>1. Len(s) \in Nat
    BY DEF Texts
  <2>2. \A k \in Nat : k <= 1 => k = 0 \/ k = 1
    OBVIOUS
  <2> QED BY <2>1, <2>2
<1>3. CASE Len(s) = 0
  BY <1>1, <1>3
<1>4. CASE Len(s) = 1
  <2>1. m[1] = HeaderStep(m[0], s, 1) /\ s[1] = LF
    <3>1. 1 \in 1..Len(s) /\ 1 - 1 = 0
      BY <1>4
    <3> QED BY <1>1, <1>4, <3>1 DEF Runs
  <2>2. Locals("start", <<>>) = Loop("start", <<>>, 0, 0, 0, 0, 1, 1)
    BY DEF Locals, Loop
  <2>3. m[1] = Loop("start", <<>>, 0, 0, 0, 0, 1, 1)
    BY <1>1, <2>1, <2>2, StepInStart, SMTT(60)
  <2> QED BY <1>1, <1>4, <2>2, <2>3
<1> QED BY <1>2, <1>3, <1>4

----------------------------------------------------------------------------
(***************************************************************************)
(* Parts of a text, and where a scan may leave its positions.              *)
(***************************************************************************)

(* The rest of a part, and two parts that follow each other.               *)
LEMMA RestOfPart ==
  ASSUME NEW F \in Texts, NEW s \in Texts, NEW p \in Nat, IsPart(s, F, p),
         NEW d \in 0..Len(s)
  PROVE  LET u == SubSeq(s, d + 1, Len(s))
         IN  u \in Texts /\ Len(u) = Len(s) - d /\ IsPart(u, F, p + d)
<1> DEFINE u == SubSeq(s, d + 1, Len(s))
<1>1. Len(s) \in Nat /\ Len(F) \in Nat /\ d \in Nat
  BY DEF Texts
<1>2. d + 1 \in Nat /\ 1 <= d + 1 /\ Len(s) <= Len(s) /\ d + 1 <= Len(s) + 1
  BY <1>1
<1>3. /\ u \in Texts /\ Len(u) = Len(s) - (d + 1) + 1
      /\ \A k \in 1..(Len(s) - (d + 1) + 1) : u[k] = s[(d + 1) + k - 1]
  BY <1>1, <1>2, Cut
<1> HIDE DEF u
<1>4. Len(s) - (d + 1) + 1 = Len(s) - d
  BY <1>1
<1>5. ASSUME NEW k \in 1..Len(u) PROVE u[k] = F[(p + d) + k]
  <2>1. (d + 1) + k - 1 = d + k /\ d + k \in 1..Len(s) /\ p + (d + k) = (p + d) + k
    BY <1>1, <1>3, <1>4, <1>5
  <2>2. u[k] = s[d + k]
    BY <1>3, <1>4, <1>5, <2>1
  <2> QED BY <2>1, <2>2 DEF IsPart
<1>6. p + Len(s) <= Len(F)
  BY DEF IsPart
<1>7. (p + d) + Len(u) <= Len(F)
  BY <1>1, <1>3, <1>4, <1>6
<1> QED BY <1>3, <1>4, <1>5, <1>7 DEF IsPart, u

LEMMA StartOfPart ==
  ASSUME NEW F \in Texts, NEW s \in Texts, NEW p \in Nat, IsPart(s, F, p),
         NEW d \in 0..Len(s)
  PROVE  LET u == SubSeq(s, 1, d)
         IN  u \in Texts /\ Len(u) = d /\ IsPart(u, F, p)
<1> DEFINE u == SubSeq(s, 1, d)
<1>1. Len(s) \in Nat /\ Len(F) \in Nat /\ d \in Nat
  BY DEF Texts
<1>2. 1 \in Nat /\ 1 <= 1 /\ d <= Len(s) /\ 1 <= d + 1
  BY <1>1
<1>3. /\ u \in Texts /\ Len(u) = d - 1 + 1
      /\ \A k \in 1..(d - 1 + 1) : u[k] = s[1 + k - 1]
  BY <1>1, <1>2, Cut
<1> HIDE DEF u
<1>4. d - 1 + 1 = d
  BY <1>1
<1>5. ASSUME NEW k \in 1..Len(u) PROVE u[k] = F[p + k]
  <2>1. 1 + k - 1 = k /\ k \in 1..Len(s)
    BY <1>1, <1>3, <1>4, <1>5
  <2>2. u[k] = s[k]
    BY <1>3, <1>4, <1>5, <2>1
  <2> QED BY <2>1, <2>2 DEF IsPart
<1>6. p + Len(s) <= Len(F)
  BY DEF IsPart
<1>7. p + Len(u) <= Len(F)
  BY <1>1, <1>3, <1>4, <1>6
<1> QED BY <1>3, <1>4, <1>5, <1>7 DEF IsPart, u

LEMMA PartsTogether ==
  ASSUME NEW F \in Texts, NEW s \in Texts, NEW t \in Texts, NEW p \in Nat,
         IsPart(s, F, p), IsPart(t, F, p + Len(s))
  PROVE  s \o t \in Texts /\ Len(s \o t) = Len(s) + Len(t) /\ IsPart(s \o t, F, p)
<1> DEFINE u == s \o t
<1>1. Len(s) \in Nat /\ Len(t) \in Nat /\ Len(F) \in Nat
  BY DEF Texts
<1>2. /\ u \in Texts /\ Len(u) = Len(s) + Len(t)
      /\ \A k \in 1..Len(s) : u[k] = s[k]
      /\ \A k \in 1..Len(t) : u[Len(s) + k] = t[k]
  BY Glue
<1> HIDE DEF u
<1>3. ASSUME NEW k \in 1..Len(u) PROVE u[k] = F[p + k]
  <2>1. CASE k <= Len(s)
    <3>1. k \in 1..Len(s)
      BY <1>1, <2>1
    <3> QED BY <1>2, <3>1 DEF IsPart
  <2>2. CASE ~(k <= Len(s))
    <3>1. k - Len(s) \in 1..Len(t) /\ Len(s) + (k - Len(s)) = k
          /\ (p + Len(s)) + (k - Len(s)) = p + k
      BY <1>1, <1>2, <2>2
    <3>2. u[Len(s) + (k - Len(s))] = t[k - Len(s)]
      BY <1>2, <3>1
    <3>3. t[k - Len(s)] = F[(p + Len(s)) + (k - Len(s))]
      BY <3>1 DEF IsPart
    <3> QED BY <3>1, <3>2, <3>3
  <2> QED BY <2>1, <2>2
<1>4. (p + Len(s)) + Len(t) <= Len(F)
  BY DEF IsPart
<1>5. p + Len(u) <= Len(F)
  BY <1>1, <1>2, <1>4
<1> QED BY <1>2, <1>3, <1>5 DEF IsPart, u

----------------------------------------------------------------------------
(* The states of parseHeaders, and where its positions may be after any    *)
(* part of the loop.                                                       *)
HStates == {"start", "key", "colon", "spaces", "value", "cr", "lf", "endcr", "endlf", "error"}

(* The locals in the loop over n bytes.                                    *)
InLoop(m, n) ==
  /\ m = Loop(m.h, m.headers, m.keyStart, m.keyEnd, m.valueStart, m.valueEnd,
              m.line, m.body)
  /\ m.h \in HStates /\ m.line \in 1..(n + 1) /\ m.body \in 1..(n + 1)

LEMMA LoopIn ==
  ASSUME NEW n, NEW h \in HStates, NEW map, NEW a, NEW b, NEW c, NEW d,
         NEW l \in 1..(n + 1), NEW e \in 1..(n + 1)
  PROVE  InLoop(Loop(h, map, a, b, c, d, l, e), n)
<1> DEFINE m == Loop(h, map, a, b, c, d, l, e)
<1>1. /\ m.h = h /\ m.headers = map /\ m.keyStart = a /\ m.keyEnd = b
      /\ m.valueStart = c /\ m.valueEnd = d /\ m.line = l /\ m.body = e
  BY LoopFields
<1>2. m = Loop(m.h, m.headers, m.keyStart, m.keyEnd, m.valueStart, m.valueEnd,
               m.line, m.body)
  BY <1>1
<1> HIDE DEF m
<1> QED BY <1>1, <1>2 DEF InLoop, m

(* One byte keeps the positions inside the buffer.                         *)
LEMMA StepInLoop ==
  ASSUME NEW s, Len(s) \in Nat, NEW i \in 1..Len(s), NEW m, InLoop(m, Len(s))
  PROVE  InLoop(HeaderStep(m, s, i), Len(s))
<1> DEFINE R == 1..(Len(s) + 1)
           map == m.headers
           a == m.keyStart
           b == m.keyEnd
           c == m.valueStart
           d == m.valueEnd
           l == m.line
           e == m.body
           x == HeaderStep(m, s, i)
           L(h) == Loop(h, map, a, b, c, d, l, e)
           In(y) == InLoop(y, Len(s))
<1>1. m = L(m.h) /\ m.h \in HStates /\ l \in R /\ e \in R
  BY DEF InLoop
<1>2. i \in R /\ i + 1 \in R
  OBVIOUS
<1>3. /\ "start" \in HStates /\ "key" \in HStates /\ "colon" \in HStates
      /\ "spaces" \in HStates /\ "value" \in HStates /\ "cr" \in HStates
      /\ "lf" \in HStates /\ "endcr" \in HStates /\ "endlf" \in HStates
      /\ "error" \in HStates
  BY DEF HStates
<1>4. \A h \in HStates, l2 \in R, e2 \in R : \A map2, a2, b2, c2, d2 :
        In(Loop(h, map2, a2, b2, c2, d2, l2, e2))
  BY LoopIn
<1>5. In(m) /\ In(L("error"))
  BY <1>1, <1>3, <1>4
<1>6. ASSUME m.h = "start" PROVE In(x)
  <2>1. x = HeaderStep(L("start"), s, i) /\ m = L("start")
    BY <1>1, <1>6
  <2>2. In(Loop("key", map, i, b, c, d, i, e))
    BY <1>1, <1>2, <1>3, <1>4
  <2> HIDE DEF x, In, R, map, a, b, c, d, l, e
  <2> QED BY <1>5, <2>1, <2>2, StepInStart
<1>7. ASSUME m.h = "key" PROVE In(x)
  <2>1. x = HeaderStep(L("key"), s, i) /\ m = L("key")
    BY <1>1, <1>7
  <2>2. In(Loop("colon", map, a, i, c, d, l, e))
    BY <1>1, <1>2, <1>3, <1>4
  <2> HIDE DEF x, In, R, map, a, b, c, d, l, e
  <2> QED BY <1>5, <2>1, <2>2, StepInKey
<1>8. ASSUME m.h = "colon" PROVE In(x)
  <2>1. x = HeaderStep(L("colon"), s, i) /\ m = L("colon")
    BY <1>1, <1>8
  <2>2. In(L("spaces"))
    BY <1>1, <1>2, <1>3, <1>4
  <2> HIDE DEF x, In, R, map, a, b, c, d, l, e
  <2> QED BY <1>5, <2>1, <2>2, StepInColon
<1>9. ASSUME m.h = "spaces" PROVE In(x)
  <2>1. x = HeaderStep(L("spaces"), s, i) /\ m = L("spaces")
    BY <1>1, <1>9
  <2>2. In(Loop("value", map, a, b, i, d, l, e))
    BY <1>1, <1>2, <1>3, <1>4
  <2> HIDE DEF x, In, R, map, a, b, c, d, l, e
  <2> QED BY <1>5, <2>1, <2>2, StepInSpaces
<1>10. ASSUME m.h = "value" PROVE In(x)
  <2>1. x = HeaderStep(L("value"), s, i) /\ m = L("value")
    BY <1>1, <1>10
  <2>2. In(Loop("cr", map, a, b, c, i, l, e))
    BY <1>1, <1>2, <1>3, <1>4
  <2> HIDE DEF x, In, R, map, a, b, c, d, l, e
  <2> QED BY <1>5, <2>1, <2>2, StepInValue
<1>11. ASSUME m.h = "cr" PROVE In(x)
  <2>1. x = HeaderStep(L("cr"), s, i) /\ m = L("cr")
    BY <1>1, <1>11
  <2>2. In(Loop("lf", Store(map, Slice(s, a, b), Slice(s, c, d)), a, b, c, d, i, e))
    BY <1>1, <1>2, <1>3, <1>4
  <2> HIDE DEF x, In, R, map, a, b, c, d, l, e
  <2> QED BY <1>5, <2>1, <2>2, StepInCR
<1>12. ASSUME m.h = "lf" PROVE In(x)
  <2>1. x = HeaderStep(L("lf"), s, i) /\ m = L("lf")
    BY <1>1, <1>12
  <2>2. In(Loop("key", map, i, b, c, d, l, e))
    BY <1>1, <1>2, <1>3, <1>4
  <2>3. In(L("endcr"))
    BY <1>1, <1>3, <1>4
  <2> HIDE DEF x, In, R, map, a, b, c, d, l, e
  <2> QED BY <1>5, <2>1, <2>2, <2>3, StepInLF
<1>13. ASSUME m.h = "endcr" PROVE In(x)
  <2>1. x = HeaderStep(L("endcr"), s, i) /\ m = L("endcr")
    BY <1>1, <1>13
  <2>2. In(Loop("endlf", map, a, b, c, d, l, i + 1))
    BY <1>1, <1>2, <1>3, <1>4
  <2> HIDE DEF x, In, R, map, a, b, c, d, l, e
  <2> QED BY <1>5, <2>1, <2>2, StepInEndCR
<1>14. ASSUME m.h \in {"endlf", "error"} PROVE In(x)
  <2>1. x = HeaderStep(L(m.h), s, i) /\ m = L(m.h)
    BY <1>1
  <2> HIDE DEF x, In, R, map, a, b, c, d, l, e
  <2>2. x = L(m.h)
    BY <1>14, <2>1, StepAtEnd
  <2> QED BY <1>5, <2>1, <2>2
<1> QED BY <1>1, <1>6, <1>7, <1>8, <1>9, <1>10, <1>11, <1>12, <1>13, <1>14 DEF HStates

(* And so does a whole scan.                                               *)
LEMMA ScanInLoop ==
  ASSUME NEW s \in Texts, NEW h \in HStates, NEW map
  PROVE  LET m == Scan(s, h, map)
         IN  m.h \in HStates /\ m.line \in 1..(Len(s) + 1) /\ m.body \in 1..(Len(s) + 1)
<1>1. PICK m : m[0] = Locals(h, map) /\ Runs(m, s) /\ Scan(s, h, map) = m[Len(s)]
  BY ScanFunction
<1>2. Len(s) \in Nat
  BY DEF Texts
<1> DEFINE P == {k \in Nat : k <= Len(s) => InLoop(m[k], Len(s))}
<1>3. 0 \in P
  <2>1. m[0] = Loop(h, map, 0, 0, 0, 0, 1, 1)
    BY <1>1 DEF Locals, Loop
  <2>2. 1 \in 1..(Len(s) + 1)
    BY <1>2
  <2>3. InLoop(m[0], Len(s))
    BY <2>1, <2>2, LoopIn
  <2> QED BY <2>3
<1>4. ASSUME NEW k \in P PROVE k + 1 \in P
  <2>1. k \in Nat
    OBVIOUS
  <2>2. SUFFICES ASSUME k + 1 <= Len(s) PROVE InLoop(m[k + 1], Len(s))
    BY <2>1
  <2>3. k <= Len(s) /\ k + 1 \in 1..Len(s) /\ (k + 1) - 1 = k
    BY <1>2, <2>1, <2>2
  <2>4. InLoop(m[k], Len(s)) /\ m[k + 1] = HeaderStep(m[k], s, k + 1)
    BY <1>1, <2>3 DEF Runs
  <2> QED BY <1>2, <2>3, <2>4, StepInLoop
<1> HIDE DEF P
<1>5. P = Nat
  BY <1>3, <1>4, InductionOverSet DEF P
<1>6. InLoop(m[Len(s)], Len(s))
  BY <1>2, <1>5 DEF P
<1> QED BY <1>1, <1>6 DEF InLoop

----------------------------------------------------------------------------
(***************************************************************************)
(* The invariant both theorems share: nothing is lost or read twice.       *)
(***************************************************************************)

(* What has been sent, how much of it has arrived, how much the parser is  *)
(* past, and the request it is at.                                         *)
Stream == TextOf(requests)

Arrived == Len(Stream) - Len(sent)

Taken == Arrived - Len(inBuffer)

Current == Len(answers) + 1

(* Types, and that a refused connection parses no more.                    *)
Shape ==
  /\ AllWellFormed(requests)
  /\ sent \in Texts /\ inBuffer \in Texts
  /\ \E S : answers \in Seq(S)
  /\ pc \in {"idle", "read", "parse"}
  /\ state \in {"uri", "headers", "body", "analysis"}
  /\ hState \in HStates
  /\ error \in BOOLEAN /\ (error => pc = "idle")

(* What is kept between requests, and what analysisRequest relies on.      *)
Stages ==
  /\ state = "uri" => hState = "start" /\ headers = <<>>
  /\ state = "body" => method = "POST"
  /\ state = "analysis" /\ method = "POST" => HasLength(headers) /\ BodyIsHere

(* Nothing of the text is lost or read twice.                              *)
InOrder ==
  /\ Taken \in Nat /\ Arrived \in Nat
  /\ IsPart(inBuffer, Stream, Taken)
  /\ IsPart(sent, Stream, Arrived)

(* A read that has cut a request's headers is recorded.                    *)
Cuts == TornAt(sent) \subseteq torn

Base == Shape /\ Stages /\ InOrder /\ Cuts

(* A content-length that analysisRequest has understood is a number.       *)
LEMMA LengthIsNumber ==
  ASSUME NEW map, HasLength(map)
  PROVE  ContentLength(map) \in 0..2
<1> DEFINE v == map[<<"content-length">>]
           zero == <<"0">>
           one == <<"1">>
           two == <<"2">>
<1>1. v \in {zero, one, two}
  BY DEF HasLength
<1>2. ContentLength(map) = CASE v = zero -> 0 [] v = one -> 1 [] v = two -> 2
  BY DEF ContentLength, Number
<1> HIDE DEF v, zero, one, two
<1> QED BY <1>1, <1>2

(* The lengths of what there is.                                           *)
LEMMA Lengths ==
  ASSUME Shape
  PROVE  /\ Stream \in Texts /\ Len(Stream) \in Nat /\ Len(sent) \in Nat
         /\ Len(inBuffer) \in Nat /\ Len(answers) \in Nat /\ Current \in Nat \ {0}
         /\ Len(requests) \in Nat /\ DOMAIN requests = 1..Len(requests)
         /\ DOMAIN answers = 1..Len(answers)
<1>1. Stream \in Texts
  BY TextOfType DEF Shape, Stream
<1>2. Len(requests) \in Nat /\ DOMAIN requests = 1..Len(requests)
  BY DEF Shape, AllWellFormed
<1>3. PICK S : answers \in Seq(S)
  BY DEF Shape
<1>4. Len(answers) \in Nat /\ DOMAIN answers = 1..Len(answers)
  BY <1>3
<1>5. Len(Stream) \in Nat /\ Len(sent) \in Nat /\ Len(inBuffer) \in Nat
  BY <1>1 DEF Shape, Texts
<1> QED BY <1>1, <1>2, <1>4, <1>5 DEF Current

(* What the parser takes from the front of its buffer it is past.          *)
LEMMA BufferMoves ==
  ASSUME Base, UNCHANGED <<requests, sent>>, NEW d \in 0..Len(inBuffer),
         inBuffer' = SubSeq(inBuffer, d + 1, Len(inBuffer))
  PROVE  /\ InOrder' /\ inBuffer' \in Texts /\ Len(inBuffer') = Len(inBuffer) - d
         /\ Taken' = Taken + d /\ Arrived' = Arrived
<1>1. /\ Stream \in Texts /\ Len(Stream) \in Nat /\ Len(sent) \in Nat /\ Len(inBuffer) \in Nat
  BY Lengths DEF Base
<1>2. /\ inBuffer \in Texts /\ Taken \in Nat /\ Arrived \in Nat
      /\ IsPart(inBuffer, Stream, Taken)
      /\ IsPart(sent, Stream, Arrived)
  BY DEF Base, Shape, InOrder
<1>3. /\ inBuffer' \in Texts /\ Len(inBuffer') = Len(inBuffer) - d
      /\ IsPart(inBuffer', Stream, Taken + d)
  BY <1>1, <1>2, RestOfPart
<1>4. Stream' = Stream /\ Arrived' = Arrived
  BY DEF Stream, Arrived
<1>5. Taken' = Taken + d
  <2>1. Taken' = Arrived' - Len(inBuffer') /\ Taken = Arrived - Len(inBuffer)
    BY DEF Taken
  <2>2. \A a, k \in Int : a - (k - d) = (a - k) + d
    BY <1>1
  <2> QED BY <1>1, <1>2, <1>3, <1>4, <2>1, <2>2
<1> QED BY <1>1, <1>2, <1>3, <1>4, <1>5 DEF InOrder

(* A step that reads and parses nothing leaves the text where it is.       *)
LEMMA BufferStays ==
  ASSUME Base, UNCHANGED <<requests, sent, inBuffer>>
  PROVE  InOrder' /\ inBuffer' \in Texts /\ Taken' = Taken /\ Arrived' = Arrived
<1>1. Stream' = Stream /\ Arrived' = Arrived /\ Taken' = Taken
  BY DEF Stream, Arrived, Taken
<1>2. inBuffer \in Texts /\ InOrder
  BY DEF Base, Shape
<1> QED BY <1>1, <1>2 DEF InOrder

(* Only a read cuts a request's headers.                                   *)
LEMMA CutsStay ==
  ASSUME Base, UNCHANGED peerVars
  PROVE  Cuts'
<1>1. TornAt(sent)' = TornAt(sent)
  BY DEF TornAt, peerVars
<1> QED BY <1>1 DEF Base, Cuts, peerVars

(* Before the first read nothing is lost.                                  *)
LEMMA BaseInit == ASSUME Init PROVE Base
<1>1. PICK n \in 1..MaxRequests : requests \in [1..n -> Menu]
  BY DEF Init
<1>2. AllWellFormed(requests)
  <2>1. requests \in Seq(Menu) /\ Len(requests) = n
    BY <1>1
  <2>2. \A j \in 1..Len(requests) : WellFormed(requests[j])
    BY <1>1, <2>1, ParserAssumption
  <2> QED BY <2>1, <2>2 DEF AllWellFormed
<1>3. sent = Stream /\ inBuffer = <<>> /\ answers = <<>>
  BY DEF Init, Stream
<1>4. Stream \in Texts /\ Len(Stream) \in Nat
  BY <1>2, TextOfType DEF Stream, Texts
<1>5. Shape
  <2>1. answers \in Seq({}) /\ inBuffer \in Texts
    BY <1>3 DEF Texts
  <2> QED BY <1>2, <1>3, <1>4, <2>1 DEF Shape, Init, HStates
<1>6. Stages
  BY DEF Stages, Init
<1>7. InOrder
  <2>1. Arrived = 0 /\ Len(inBuffer) = 0
    BY <1>3, <1>4 DEF Arrived
  <2>2. Taken = 0
    BY <2>1 DEF Taken
  <2>3. IsPart(inBuffer, Stream, 0)
    BY <1>4, <2>1 DEF IsPart
  <2>4. IsPart(sent, Stream, 0)
    BY <1>3, <1>4 DEF IsPart
  <2> QED BY <2>1, <2>2, <2>3, <2>4 DEF InOrder
<1>8. TornAt(sent) = {}
  <2>1. SUFFICES ASSUME NEW j \in DOMAIN requests
                 PROVE  LET after == Len(TextOf(SubSeq(requests, j + 1, Len(requests))))
                                     + Len(requests[j].body)
                        IN  ~(Len(sent) < after + Len(HeadersText(requests[j])))
    BY DEF TornAt
  <2> DEFINE C == Len(TextOf(SubSeq(requests, j + 1, Len(requests))))
             H == Len(HeadersText(requests[j]))
             B == Len(requests[j].body)
             h == HeadersAt(requests, j)
             p == BodyAt(requests, j)
             e == Before(requests, j + 1)
  <2>2. j \in 1..Len(requests)
    BY <1>2 DEF AllWellFormed
  <2>3. /\ h \in Nat /\ p \in Nat /\ e \in Nat /\ p = h + H /\ e = p + B
        /\ C = Len(Stream) - e
    BY <1>2, <2>2, Positions DEF Stream
  <2>4. H \in Nat /\ B \in Nat
    <3>1. WellFormed(requests[j])
      BY <1>2, <2>2 DEF AllWellFormed
    <3> QED BY <3>1, HeadersLayout, TextLayout DEF Texts
  <2> HIDE DEF C, H, B, h, p, e
  <2>5. ~(Len(sent) < C + B + H)
    BY <1>3, <1>4, <2>3, <2>4
  <2> QED BY <2>5 DEF C, B, H
<1> QED BY <1>5, <1>6, <1>7, <1>8 DEF Base, Cuts

----------------------------------------------------------------------------
(* Every step preserves it.                                                *)
LEMMA BaseRead == ASSUME Base, Read PROVE Base' /\ Taken' = Taken
<1>1. PICK k \in 0..Len(sent) :
        /\ inBuffer' = inBuffer \o SubSeq(sent, 1, k)
        /\ sent' = SubSeq(sent, k + 1, Len(sent))
  BY DEF Read
<1>2. /\ Stream \in Texts /\ Len(Stream) \in Nat /\ Len(sent) \in Nat
      /\ Len(inBuffer) \in Nat
      /\ inBuffer \in Texts /\ sent \in Texts /\ Taken \in Nat /\ Arrived \in Nat
      /\ IsPart(inBuffer, Stream, Taken) /\ IsPart(sent, Stream, Arrived)
  BY Lengths DEF Base, Shape, InOrder
<1>3. Stream' = Stream
  BY DEF Read, Stream
<1> DEFINE u == SubSeq(sent, 1, k)
<1>4. u \in Texts /\ Len(u) = k /\ IsPart(u, Stream, Arrived)
  BY <1>2, StartOfPart
<1>5. sent' \in Texts /\ Len(sent') = Len(sent) - k /\ IsPart(sent', Stream, Arrived + k)
  BY <1>1, <1>2, RestOfPart
<1>6. inBuffer' \in Texts /\ Len(inBuffer') = Len(inBuffer) + k
      /\ IsPart(inBuffer', Stream, Taken)
  <2>1. Taken + Len(inBuffer) = Arrived /\ inBuffer' = inBuffer \o u
    BY <1>1, <1>2 DEF Taken
  <2>2. IsPart(u, Stream, Taken + Len(inBuffer)) /\ Len(u) = k /\ u \in Texts
    BY <1>4, <2>1
  <2> HIDE DEF u
  <2>3. /\ inBuffer \o u \in Texts /\ Len(inBuffer \o u) = Len(inBuffer) + Len(u)
        /\ IsPart(inBuffer \o u, Stream, Taken)
    BY <1>2, <2>2, PartsTogether
  <2> QED BY <2>1, <2>2, <2>3
<1>7. Arrived' = Arrived + k /\ Taken' = Taken
  <2>1. Arrived' = Arrived + k
    BY <1>2, <1>3, <1>5 DEF Arrived
  <2> QED BY <1>2, <1>6, <2>1 DEF Taken
<1>8. InOrder'
  BY <1>2, <1>3, <1>5, <1>6, <1>7 DEF InOrder
<1>9. Shape'
  BY <1>5, <1>6 DEF Base, Shape, Read, lineVars
<1>10. Stages'
  <2>1. Len(inBuffer') >= Len(inBuffer)
    BY <1>2, <1>6
  <2>2. state = "analysis" /\ method = "POST" => ContentLength(headers) \in 0..2
    BY LengthIsNumber DEF Base, Stages
  <2>3. /\ UNCHANGED <<state, hState, headers, method>>
    BY DEF Read, lineVars
  <2>4. state = "analysis" /\ method = "POST" => Len(inBuffer') >= ContentLength(headers)
    BY <1>2, <1>6, <2>1, <2>2 DEF Base, Stages, BodyIsHere
  <2> QED BY <2>3, <2>4 DEF Base, Stages, BodyIsHere
<1>11. Cuts'
  <2>1. torn' = torn \cup TornAt(sent') /\ requests' = requests
    BY DEF Read
  <2>2. TornAt(sent)' = TornAt(sent')
    BY <2>1 DEF TornAt
  <2> QED BY <2>1, <2>2 DEF Cuts
<1> QED BY <1>7, <1>8, <1>9, <1>10, <1>11 DEF Base

(* A search finds nothing beyond the text.                                 *)
LEMMA FindBounds ==
  ASSUME NEW s \in Texts, NEW x
  PROVE  Find(s, x, 1) \in 0..Len(s)
<1>1. Len(s) \in Nat
  BY DEF Texts
<1>2. CASE \A i \in 1..Len(s) : s[i] # x
  BY <1>1, <1>2, FindNone
<1>3. CASE \E i \in 1..Len(s) : s[i] = x
  <2>1. Find(s, x, 1) \in 1..Len(s)
    BY <1>1, <1>3, FindSome
  <2> QED BY <1>1, <2>1
<1> QED BY <1>2, <1>3

(* parseURI drops the request line, or nothing while it is incomplete.     *)
LEMMA BaseParseURI == ASSUME Base, ParseURI PROVE Base'
<1> DEFINE cr == Find(inBuffer, CR, 1)
<1>1. /\ state = "uri" /\ pc = "parse" /\ hState = "start" /\ headers = <<>>
      /\ UNCHANGED <<hState, headers, requests, sent, torn, answers>>
      /\ UNCHANGED peerVars
      /\ inBuffer \in Texts /\ Len(inBuffer) \in Nat
  BY Lengths DEF ParseURI, Base, Stages, Shape, Again, Refuse, peerVars
<1>2. \E d \in 0..Len(inBuffer) : inBuffer' = SubSeq(inBuffer, d + 1, Len(inBuffer))
  <2>1. cr \in 0..Len(inBuffer)
    BY <1>1, FindBounds
  <2>2. \/ inBuffer' = inBuffer \/ inBuffer' = <<>>
        \/ inBuffer' = SubSeq(inBuffer, cr + 1, Len(inBuffer))
    BY DEF ParseURI
  <2>3. SubSeq(inBuffer, 0 + 1, Len(inBuffer)) = inBuffer
    BY <1>1 DEF Texts
  <2>4. SubSeq(inBuffer, Len(inBuffer) + 1, Len(inBuffer)) = <<>>
    BY <1>1 DEF Texts
  <2>5. 0 \in 0..Len(inBuffer) /\ Len(inBuffer) \in 0..Len(inBuffer)
    BY <1>1
  <2> HIDE DEF cr
  <2> QED BY <2>1, <2>2, <2>3, <2>4, <2>5
<1>3. InOrder' /\ inBuffer' \in Texts
  BY <1>1, <1>2, BufferMoves
<1>4. /\ pc' \in {"idle", "parse"} /\ state' \in {"uri", "headers"}
      /\ error' \in BOOLEAN /\ (error' => pc' = "idle")
  BY <1>1 DEF ParseURI, Again, Refuse, Base, Shape
<1>5. Shape'
  BY <1>1, <1>3, <1>4 DEF Base, Shape, HStates
<1>6. Stages'
  BY <1>1, <1>4 DEF Stages
<1> QED BY <1>1, <1>3, <1>5, <1>6, CutsStay DEF Base

(* parseHeaders drops what it has scanned up to the line it is in.         *)
LEMMA BaseParseHeaders == ASSUME Base, ParseHeaders PROVE Base'
<1> DEFINE m == Scan(inBuffer, hState, headers)
<1>1. /\ state = "headers" /\ pc = "parse"
      /\ UNCHANGED <<requests, sent, torn, answers, method>>
      /\ UNCHANGED peerVars
      /\ hState' = m.h
      /\ inBuffer \in Texts /\ Len(inBuffer) \in Nat /\ hState \in HStates
  BY Lengths DEF ParseHeaders, Base, Shape, Again, Refuse, peerVars, lineVars
<1>2. m.h \in HStates /\ m.line \in 1..(Len(inBuffer) + 1) /\ m.body \in 1..(Len(inBuffer) + 1)
  BY <1>1, ScanInLoop
<1>3. \/ inBuffer' = inBuffer
      \/ inBuffer' = SubSeq(inBuffer, m.line, Len(inBuffer))
      \/ inBuffer' = SubSeq(inBuffer, m.body, Len(inBuffer))
  BY DEF ParseHeaders
<1>4. /\ pc' \in {"idle", "parse"} /\ state' \in {"headers", "body", "analysis"}
      /\ error' \in BOOLEAN /\ (error' => pc' = "idle")
      /\ state' = "body" => method = "POST"
      /\ state' = "analysis" => method # "POST"
  BY <1>1 DEF ParseHeaders, Again, Refuse, Base, Shape
<1> HIDE DEF m
<1>5. \E d \in 0..Len(inBuffer) : inBuffer' = SubSeq(inBuffer, d + 1, Len(inBuffer))
  <2>1. /\ m.line - 1 \in 0..Len(inBuffer) /\ m.body - 1 \in 0..Len(inBuffer)
        /\ 0 \in 0..Len(inBuffer)
        /\ (m.line - 1) + 1 = m.line /\ (m.body - 1) + 1 = m.body
    BY <1>1, <1>2
  <2>2. SubSeq(inBuffer, 0 + 1, Len(inBuffer)) = inBuffer
    BY <1>1 DEF Texts
  <2> QED BY <1>3, <2>1, <2>2
<1>6. InOrder' /\ inBuffer' \in Texts
  BY <1>1, <1>5, BufferMoves
<1>7. Shape'
  BY <1>1, <1>2, <1>4, <1>6 DEF Base, Shape
<1>8. Stages'
  BY <1>1, <1>4 DEF Stages
<1> QED BY <1>1, <1>6, <1>7, <1>8, CutsStay DEF Base

(* Waiting for the body takes nothing.                                     *)
LEMMA BaseRecvBody == ASSUME Base, RecvBody PROVE Base'
<1>1. /\ state = "body" /\ pc = "parse" /\ method = "POST"
      /\ UNCHANGED <<requests, sent, torn, answers, method, hState, headers, inBuffer>>
      /\ UNCHANGED peerVars
  BY DEF RecvBody, Base, Stages, Again, Refuse, peerVars, lineVars
<1>2. InOrder' /\ inBuffer' \in Texts
  BY <1>1, BufferStays
<1>3. /\ pc' \in {"idle", "parse"} /\ state' \in {"body", "analysis"}
      /\ error' \in BOOLEAN /\ (error' => pc' = "idle")
      /\ state' = "analysis" => HasLength(headers) /\ BodyIsHere
  BY <1>1 DEF RecvBody, Again, Refuse, Base, Shape
<1>4. Shape'
  BY <1>1, <1>2, <1>3 DEF Base, Shape
<1>5. Stages'
  BY <1>1, <1>3 DEF Stages, BodyIsHere
<1> QED BY <1>1, <1>2, <1>4, <1>5, CutsStay DEF Base

(* How much of the buffer an answered request takes with it. *)
BodyLength == IF method = "POST" THEN ContentLength(headers) ELSE 0

(* analysisRequest takes no more than what has arrived.                    *)
LEMMA BodyLengthBounds ==
  ASSUME Base, state = "analysis"
  PROVE  BodyLength \in 0..Len(inBuffer)
<1>1. Len(inBuffer) \in Nat
  BY Lengths DEF Base
<1>2. method = "POST" => ContentLength(headers) \in 0..2 /\ Len(inBuffer) >= ContentLength(headers)
  BY LengthIsNumber DEF Base, Stages, BodyIsHere
<1> QED BY <1>1, <1>2 DEF BodyLength

(* Answered is answered.                                                   *)
LEMMA OneMore ==
  ASSUME Base, NEW x, answers' = Append(answers, x)
  PROVE  /\ \E S : answers' \in Seq(S)
         /\ Len(answers') = Len(answers) + 1
         /\ answers'[Len(answers) + 1] = x
         /\ \A i \in 1..Len(answers) : answers'[i] = answers[i]
<1>1. PICK S : answers \in Seq(S)
  BY DEF Base, Shape
<1> DEFINE T == S \cup {x}
<1>2. answers \in Seq(T) /\ x \in T
  <2>1. Seq(S) \subseteq Seq(T)
    BY SeqMonotonic
  <2> QED BY <1>1, <2>1
<1> HIDE DEF T
<1>3. answers' \in Seq(T) /\ Len(answers') = Len(answers) + 1
      /\ answers'[Len(answers) + 1] = x
      /\ \A i \in 1..Len(answers) : answers'[i] = answers[i]
  BY <1>2
<1> QED BY <1>3

(* An answered request takes its body with it.                             *)
LEMMA BaseAnalysis == ASSUME Base, Analysis PROVE Base'
<1>1. /\ state = "analysis" /\ pc = "parse"
      /\ UNCHANGED <<requests, sent, torn, error>> /\ UNCHANGED peerVars
      /\ state' = "uri" /\ hState' = "start" /\ headers' = <<>>
      /\ pc' \in {"idle", "read"} /\ ~error
      /\ inBuffer' = SubSeq(inBuffer, BodyLength + 1, Len(inBuffer))
      /\ \E x : answers' = Append(answers, x)
  BY DEF Analysis, Reset, peerVars, BodyLength, Base, Shape
<1>2. InOrder' /\ inBuffer' \in Texts
  BY <1>1, BodyLengthBounds, BufferMoves
<1>3. \E S : answers' \in Seq(S)
  BY <1>1, OneMore
<1>4. Shape'
  BY <1>1, <1>2, <1>3 DEF Base, Shape, HStates
<1>5. Stages'
  BY <1>1 DEF Stages
<1> QED BY <1>1, <1>2, <1>4, <1>5, CutsStay DEF Base

(* A request that is refused is the last one.                              *)
LEMMA BaseAnalysisFails == ASSUME Base, AnalysisFails PROVE Base'
<1>1. /\ UNCHANGED <<requests, sent, torn, answers, method, hState, headers, inBuffer, state>>
      /\ UNCHANGED peerVars /\ pc' = "idle" /\ error' = TRUE
  BY DEF AnalysisFails, Refuse, peerVars, lineVars
<1>2. InOrder' /\ inBuffer' \in Texts
  BY <1>1, BufferStays
<1>3. Shape'
  BY <1>1, <1>2 DEF Base, Shape
<1>4. Stages'
  BY <1>1 DEF Base, Stages, BodyIsHere
<1> QED BY <1>1, <1>2, <1>3, <1>4, CutsStay DEF Base

(* Every step of the parser and every read keeps the text in order.        *)
LEMMA BaseNext == ASSUME Base, [Next]_vars PROVE Base'
<1>1. CASE Read
  BY <1>1, BaseRead
<1>2. CASE ParseURI
  BY <1>2, BaseParseURI
<1>3. CASE ParseHeaders
  BY <1>3, BaseParseHeaders
<1>4. CASE RecvBody
  BY <1>4, BaseRecvBody
<1>5. CASE Analysis
  BY <1>5, BaseAnalysis
<1>6. CASE AnalysisFails
  BY <1>6, BaseAnalysisFails
<1>7. CASE UNCHANGED vars
  <2>1. /\ UNCHANGED <<requests, sent, torn, answers, method, hState, headers, inBuffer, state, pc, error>>
        /\ UNCHANGED peerVars
    BY <1>7 DEF vars, peerVars, lineVars
  <2>2. InOrder' /\ inBuffer' \in Texts
    BY <2>1, BufferStays
  <2>3. Shape'
    BY <2>1, <2>2 DEF Base, Shape
  <2>4. Stages'
    BY <2>1 DEF Base, Stages, BodyIsHere
  <2> QED BY <2>1, <2>2, <2>3, <2>4, CutsStay DEF Base
<1> QED BY <1>1, <1>2, <1>3, <1>4, <1>5, <1>6, <1>7 DEF Next

----------------------------------------------------------------------------
(***************************************************************************)
(* What a request asks for.                                                *)
(***************************************************************************)

(* The answer a sender may expect, from the headers it sent.               *)
LEMMA SentMap ==
  ASSUME NEW r, WellFormed(r)
  PROVE  AsSent(r) = Answer(r.method, Name(r), MapOf(r.headers, Len(r.headers)), r.body)
<1>1. DOMAIN r.headers = 1..Len(r.headers)
  BY DEF WellFormed
<1>2. AsSent(r) = Answer(r.method, Name(r), MapOn(r.headers, DOMAIN r.headers), r.body)
  BY DEF AsSent, MapOn
<1> QED BY <1>1, <1>2 DEF MapOf

(* The content-length of a request whose headers are stored.               *)
LEMMA LengthOfSent ==
  ASSUME NEW r, WellFormed(r), Understood(r)
  PROVE  LET map == MapOf(r.headers, Len(r.headers))
         IN  /\ ~HasLength(map) => \A i \in DOMAIN r.headers : r.headers[i][1] # "content-length"
             /\ HasLength(map) => ContentLength(map) = Len(r.body)
<1> DEFINE hs == r.headers
           n == Len(hs)
           map == MapOf(hs, n)
           K == "content-length"
           v == map[<<K>>]
           zero == "0"
           one == "1"
           two == "2"
<1>1. AllWords(hs) /\ Distinct(hs) /\ n \in Nat /\ DOMAIN hs = 1..n /\ n \in 0..n
  BY DEF WellFormed, AllWords, Distinct
<1>2. /\ DOMAIN map = {<<hs[j][1]>> : j \in 1..n}
      /\ \A j \in 1..n : map[<<hs[j][1]>>] = <<hs[j][2]>>
  BY <1>1, MapOfValue
<1>3. ASSUME NEW i \in 1..n, hs[i][1] = K
      PROVE  \/ hs[i][2] = zero /\ Len(r.body) = 0
             \/ hs[i][2] = one /\ Len(r.body) = 1
             \/ hs[i][2] = two /\ Len(r.body) = 2
  <2>1. hs[i][2] # NoValue
    BY <1>1 DEF Understood
  <2>2. PICK k \in 0..2 : hs[i][2] = <<"0", "1", "2">>[k + 1] /\ Len(r.body) = k
    BY <1>1, <1>3, <2>1 DEF WellFormed
  <2>3. k = 0 \/ k = 1 \/ k = 2
    OBVIOUS
  <2> QED BY <2>2, <2>3
<1>4. HasLength(map) <=> <<K>> \in DOMAIN map /\ v \in {<<zero>>, <<one>>, <<two>>}
  BY DEF HasLength
<1>5. ContentLength(map) = CASE v = <<zero>> -> 0 [] v = <<one>> -> 1 [] v = <<two>> -> 2
  BY DEF ContentLength, Number
<1>6. zero # one /\ one # two /\ zero # two
  OBVIOUS
<1> HIDE DEF hs, n, map, K, v, zero, one, two
<1>7. ASSUME NEW i \in 1..n, hs[i][1] = K
      PROVE  HasLength(map) /\ ContentLength(map) = Len(r.body)
  <2>1. <<K>> \in DOMAIN map /\ v = <<hs[i][2]>>
    BY <1>2, <1>7 DEF v
  <2>2. <<zero>> # <<one>> /\ <<one>> # <<two>> /\ <<zero>> # <<two>>
    BY <1>6
  <2> QED BY <1>3, <1>4, <1>5, <1>7, <2>1, <2>2
<1>8. HasLength(map) => \E i \in 1..n : hs[i][1] = K
  <2>1. SUFFICES ASSUME HasLength(map) PROVE \E i \in 1..n : hs[i][1] = K
    OBVIOUS
  <2>2. PICK i \in 1..n : <<K>> = <<hs[i][1]>>
    BY <1>2, <1>4, <2>1
  <2>3. K = hs[i][1]
    BY <2>2
  <2> QED BY <2>3
<1> QED BY <1>1, <1>7, <1>8 DEF hs, n, map, K

(* Nothing answers the name that is left of an empty path and a query.     *)
LEMMA NoNameNoAnswer ==
  ASSUME NEW how PROVE ~Answerable(how, <<>>)
<1>1. \A a : <<a>> # <<>>
  OBVIOUS
<1> QED BY <1>1 DEF Answerable, ApiPaths, StaticPaths

----------------------------------------------------------------------------
(***************************************************************************)
(* Requests whose headers arrive together are answered as they were sent.  *)
(***************************************************************************)

(* Where the parser is in a request whose headers no read has cut, and     *)
(* what it holds of it.                                                    *)
InRequest(r) ==
  /\ method = r.method /\ fileName = FileName(r)
  /\ state = "headers" =>
       /\ Taken = HeadersAt(requests, Current) - 1
       /\ hState = "start" /\ headers = <<>>
  /\ state \in {"body", "analysis"} =>
       /\ Taken = BodyAt(requests, Current)
       /\ headers = MapOf(r.headers, Len(r.headers))
  /\ state = "analysis" /\ method = "POST" => ContentLength(headers) = Len(r.body)

(* The parser at a request that no read has cut: where it is, or why it has*)
(* refused.                                                                *)
Expected ==
  IF error THEN Current \in 1..Len(requests) /\ Refusable(requests[Current])
  ELSE /\ Current \in 1..(Len(requests) + 1)
       /\ state = "uri" => Taken = Before(requests, Current)
       /\ state # "uri" => Current \in 1..Len(requests) /\ InRequest(requests[Current])

(* The answers to such requests are those their senders asked for.         *)
AnsweredAsSent ==
  \A i \in 1..Len(answers) :
    Untorn(i) => i \in 1..Len(requests) /\ answers[i] = AsSent(requests[i])

Exact == Base /\ AnsweredAsSent /\ (Untorn(Current) => Expected)

(* No request before an uncut one has been cut, and what is uncut after a  *)
(* step was so before.                                                     *)
LEMMA UntornBefore ==
  ASSUME NEW i \in Nat, NEW j \in Nat, j <= i, Untorn(i) PROVE Untorn(j)
<1>1. \A k \in 1..j : k \in 1..i
  OBVIOUS
<1> QED BY <1>1 DEF Untorn

LEMMA UntornStays ==
  ASSUME UNCHANGED requests, torn \subseteq torn', NEW i, Untorn(i)' PROVE Untorn(i)
BY DEF Untorn

(* The request the parser is at, and the places in it.                     *)
LEMMA AtRequest ==
  ASSUME Base, Current \in 1..Len(requests)
  PROVE  LET c == Current
             r == requests[c]
             b == Before(requests, c)
             h == HeadersAt(requests, c)
             p == BodyAt(requests, c)
         IN  /\ WellFormed(r) /\ c + 1 \in 1..(Len(requests) + 1)
             /\ b \in Nat /\ h \in Nat /\ p \in Nat /\ p <= Len(Stream)
             /\ h = b + BlankAt(r) + 5 /\ p = h + Len(HeadersText(r))
             /\ 4 <= BlankAt(r) /\ BlankAt(r) \in Nat
             /\ Len(HeadersText(r)) \in Nat /\ 2 <= Len(HeadersText(r))
             /\ Len(r.body) \in Nat /\ Before(requests, c + 1) = p + Len(r.body)
             /\ p + Len(r.body) <= Len(Stream)
             /\ Stream[h] = LF
             /\ \A k \in 1..(BlankAt(r) + 5) : Stream[b + k] = LineText(r)[k]
             /\ \A k \in 1..Len(HeadersText(r)) : Stream[h + k] = HeadersText(r)[k]
             /\ \A k \in 1..Len(r.body) : Stream[p + k] = r.body[k]
<1> DEFINE c == Current
           r == requests[c]
           b == Before(requests, c)
           h == HeadersAt(requests, c)
           p == BodyAt(requests, c)
           z == BlankAt(r)
<1>1. AllWellFormed(requests) /\ WellFormed(r) /\ c \in 1..Len(requests) /\ Len(requests) \in Nat
  BY DEF Base, Shape, AllWellFormed
<1>2. Stream = TextOf(requests)
  BY DEF Stream
<1> DEFINE L == LineText(r)
           H == HeadersText(r)
           B == r.body
           l == Len(L)
           m == Len(H)
           n == Len(B)
           e == Before(requests, c + 1)
<1> HIDE DEF c
<1>3. /\ Stream \in Texts /\ Len(Stream) \in Nat
      /\ b \in Nat /\ h \in Nat /\ p \in Nat /\ e \in Nat
      /\ h = b + l /\ p = h + m /\ e = p + n /\ e <= Len(Stream) /\ n \in Nat
      /\ \A k \in 1..l : Stream[b + k] = L[k]
      /\ \A k \in 1..m : Stream[h + k] = H[k]
      /\ \A k \in 1..n : Stream[p + k] = B[k]
  <2> DEFINE F == TextOf(requests)
  <2>1. AllWellFormed(requests) /\ c \in 1..Len(requests)
    BY <1>1
  <2>2. /\ F \in Texts /\ Len(F) \in Nat
        /\ b \in Nat /\ h \in Nat /\ p \in Nat /\ e \in Nat
        /\ h = b + l /\ p = h + m /\ e = p + n /\ e <= Len(F) /\ n \in Nat
        /\ \A k \in 1..l : F[b + k] = L[k]
        /\ \A k \in 1..m : F[h + k] = H[k]
        /\ \A k \in 1..n : F[p + k] = B[k]
    <3>1. /\ F \in Texts /\ Len(F) \in Nat
          /\ b \in Nat /\ h \in Nat /\ p \in Nat /\ e \in Nat
          /\ h = b + l /\ p = h + m /\ e = p + n /\ e <= Len(F) /\ n \in Nat
      BY <2>1, Positions
    <3>2. IsPart(L, F, b) /\ IsPart(H, F, h) /\ IsPart(B, F, p)
      BY <2>1, Positions
    <3> HIDE DEF F, r, b, h, p, L, H, B
    <3> QED BY <3>1, <3>2 DEF IsPart
  <2>3. Stream = F
    BY <1>2
  <2> HIDE DEF F, r, b, h, p, z, L, H, B, l, m, n, e
  <2> QED BY <2>2, <2>3
<1>4. z \in Nat /\ 4 <= z /\ l = z + 5 /\ L[z + 5] = LF
  BY <1>1, LineLayout
<1>5. 2 <= m /\ m \in Nat
  BY <1>1, HeadersLayout DEF Texts
<1>6. WellFormed(r)
  BY <1>1
<1> HIDE DEF r, b, h, p, z, L, H, B, l, m, n, e
<1>7. /\ h = b + z + 5 /\ p <= Len(Stream) /\ p + n <= Len(Stream)
      /\ c + 1 \in 1..(Len(requests) + 1)
      /\ z + 5 \in 1..l /\ h = b + (z + 5)
  BY <1>1, <1>3, <1>4, SMTT(60)
<1>8. Stream[h] = LF
  BY <1>3, <1>4, <1>7
<1>9. \A k \in 1..(z + 5) : Stream[b + k] = L[k]
  BY <1>3, <1>4
<1> QED BY <1>3, <1>4, <1>5, <1>6, <1>7, <1>8, <1>9 DEF c, r, b, h, p, z, L, H, B, l, m, n, e

(* Its headers have arrived together, or not at all.                       *)
LEMMA NotTorn ==
  ASSUME Base, Current \in 1..Len(requests), Untorn(Current)
  PROVE  /\ Understood(requests[Current])
         /\ \/ Arrived <= HeadersAt(requests, Current)
            \/ Arrived >= BodyAt(requests, Current)
<1> DEFINE c == Current
           r == requests[c]
           h == HeadersAt(requests, c)
           p == BodyAt(requests, c)
           C == Len(TextOf(SubSeq(requests, c + 1, Len(requests))))
           H == Len(HeadersText(r))
           B == Len(r.body)
           e == Before(requests, c + 1)
<1>1. c \in DOMAIN requests /\ c \in 1..Len(requests) /\ c \in 1..c /\ Len(sent) \in Nat
      /\ Len(Stream) \in Nat
  BY Lengths DEF Base
<1>2. c \notin torn /\ Understood(r)
  BY <1>1 DEF Untorn
<1>3. c \notin TornAt(sent)
  BY <1>2 DEF Base, Cuts
<1>4. ~(Len(sent) > C + B /\ Len(sent) < C + B + H)
  BY <1>1, <1>3 DEF TornAt
<1>5. /\ h \in Nat /\ p \in Nat /\ e \in Nat /\ p = h + H /\ e = p + B /\ B \in Nat
      /\ C = Len(Stream) - e
  <2>1. AllWellFormed(requests)
    BY DEF Base, Shape
  <2> QED BY <1>1, <2>1, Positions DEF Stream
<1>6. Arrived = Len(Stream) - Len(sent) /\ H \in Nat
  <2>1. WellFormed(r)
    BY <1>1 DEF Base, Shape, AllWellFormed
  <2> QED BY <2>1, HeadersLayout DEF Arrived, Texts
<1> HIDE DEF c, r, h, p, C, H, B, e
<1>7. Arrived <= h \/ Arrived >= p
  BY <1>1, <1>4, <1>5, <1>6
<1> QED BY <1>2, <1>7 DEF c, r, h, p

(* Nothing has been read, and the first request is the one at hand.        *)
LEMMA AtFirst ==
  ASSUME Init
  PROVE  /\ Current = 1 /\ state = "uri" /\ ~error /\ answers = <<>> /\ Len(answers) = 0
         /\ Taken = 0 /\ Arrived = 0 /\ Before(requests, 1) = 0
         /\ Len(requests) \in Nat \ {0}
<1>1. Base
  BY BaseInit
<1>2. answers = <<>> /\ state = "uri" /\ ~error /\ Len(answers) = 0 /\ Current = 1
  BY DEF Init, Current
<1>3. Taken = 0 /\ Arrived = 0
  <2>1. Len(Stream) \in Nat /\ sent = Stream /\ Len(inBuffer) = 0
    BY <1>1, Lengths DEF Base, Init, Stream
  <2>2. Arrived = 0
    BY <2>1 DEF Arrived
  <2> QED BY <2>1, <2>2 DEF Taken
<1>4. Before(requests, 1) = 0
  <2>1. SubSeq(requests, 1, 1 - 1) = <<>>
    BY <1>1 DEF Base, Shape, AllWellFormed
  <2>2. TextOf(<<>>) = <<>>
    BY FlattenEmpty DEF TextOf
  <2>3. Before(requests, 1) = Len(TextOf(SubSeq(requests, 1, 1 - 1)))
    BY DEF Before
  <2>4. Len(<<>>) = 0
    OBVIOUS
  <2>5. Before(requests, 1) = Len(<<>>)
    BY <2>1, <2>2, <2>3, Zenon
  <2> QED BY <2>4, <2>5
<1>5. Len(requests) \in Nat \ {0}
  <2>1. PICK n \in 1..MaxRequests : requests \in [1..n -> Menu]
    BY DEF Init
  <2>2. n \in Nat \ {0} /\ DOMAIN requests = 1..n
    BY <2>1, ParserAssumption
  <2>3. DOMAIN requests = 1..Len(requests) /\ Len(requests) \in Nat
    BY <1>1, Lengths DEF Base
  <2>4. n \in 1..Len(requests)
    BY <2>2, <2>3
  <2> QED BY <2>3, <2>4
<1> QED BY <1>2, <1>3, <1>4, <1>5

LEMMA ExactInit == ASSUME Init PROVE Exact
<1>1. Base
  BY BaseInit
<1>2. /\ Current = 1 /\ state = "uri" /\ ~error /\ Len(answers) = 0
      /\ Taken = 0 /\ Before(requests, 1) = 0 /\ Len(requests) \in Nat \ {0}
  BY AtFirst
<1>3. Current \in 1..(Len(requests) + 1)
  BY <1>2
<1>4. Expected
  BY <1>2, <1>3 DEF Expected
<1>5. AnsweredAsSent
  BY <1>2 DEF AnsweredAsSent
<1> QED BY <1>1, <1>4, <1>5 DEF Exact

(* A step that answers nothing leaves the earlier answers as they were.    *)
LEMMA NoNewAnswer ==
  ASSUME Exact, Base', UNCHANGED <<requests, answers>>, torn \subseteq torn',
         Untorn(Current) /\ Untorn(Current)' => Expected'
  PROVE  Exact'
<1>1. Current' = Current
  BY DEF Current
<1>2. AnsweredAsSent'
  BY UntornStays DEF Exact, AnsweredAsSent
<1>3. Untorn(Current)' => Untorn(Current)
  BY <1>1 DEF Untorn
<1> QED BY <1>2, <1>3 DEF Exact

(* A read changes nothing of the request at hand.                          *)
LEMMA ExactRead == ASSUME Exact, Read PROVE Exact'
<1>1. Base' /\ Taken' = Taken
  BY BaseRead DEF Exact
<1>2. /\ UNCHANGED <<requests, answers, state, hState, method, fileName, headers, error>>
      /\ torn \subseteq torn'
  BY DEF Read, lineVars
<1>3. Expected => Expected'
  BY <1>1, <1>2 DEF Expected, InRequest, Current
<1> QED BY <1>1, <1>2, <1>3, NoNewAnswer DEF Exact

(* What Expected says while the connection is not refused.                 *)
LEMMA UntornIsNow ==
  ASSUME Exact, Untorn(Current), ~error
  PROVE  /\ Current \in 1..(Len(requests) + 1)
         /\ state = "uri" => Taken = Before(requests, Current)
         /\ state # "uri" => Current \in 1..Len(requests) /\ InRequest(requests[Current])
BY DEF Exact, Expected

(* Behind the last request there is no more text.                          *)
LEMMA EndOfRequests ==
  ASSUME Base PROVE Before(requests, Len(requests) + 1) = Len(Stream)
<1>1. Len(requests) \in Nat /\ requests \in Seq(Menu)
  BY DEF Base, Shape, AllWellFormed
<1>2. (Len(requests) + 1) - 1 = Len(requests) /\ SubSeq(requests, 1, Len(requests)) = requests
  BY <1>1
<1>3. Before(requests, Len(requests) + 1)
        = Len(TextOf(SubSeq(requests, 1, (Len(requests) + 1) - 1)))
  BY DEF Before
<1> QED BY <1>2, <1>3 DEF Stream

(* parseURI: the line that is complete is the one the sender wrote.        *)
LEMMA ExactParseURI == ASSUME Exact, ParseURI PROVE Exact'
<1>1. /\ pc = "parse" /\ state = "uri" /\ ~error /\ UNCHANGED <<requests, answers, torn>>
      /\ UNCHANGED <<hState, headers, sent>> /\ torn \subseteq torn' /\ Current' = Current
      /\ hState = "start" /\ headers = <<>>
  BY DEF ParseURI, Again, Refuse, Exact, Base, Shape, Stages, Current, peerVars
<1>2. Base' /\ Base
  BY BaseParseURI DEF Exact
<1>3. SUFFICES ASSUME Untorn(Current) PROVE Expected'
  BY <1>1, <1>2, NoNewAnswer
<1> DEFINE c == Current
           r == requests[c]
           z == BlankAt(r)
           cr == Find(inBuffer, CR, 1)
           line == SubSeq(inBuffer, 1, cr - 1)
           from == Find(line, MethodIn(line), 1)
           slash == Find(line, Slash, from)
           blank == Find(line, Blank, slash)
           last == z + 4
<1>4. /\ c \in 1..(Len(requests) + 1) /\ Taken = Before(requests, c)
  BY <1>1, <1>3, UntornIsNow
<1>5. /\ inBuffer \in Texts /\ Len(inBuffer) \in Nat /\ IsPart(inBuffer, Stream, Taken)
      /\ Len(Stream) \in Nat /\ Taken \in Nat /\ Len(requests) \in Nat
  BY <1>2, Lengths DEF Base, Shape, InOrder
<1>6. ASSUME cr = 0 PROVE Expected'
  <2>1. /\ UNCHANGED <<inBuffer, state, error>>
    BY <1>6 DEF ParseURI, Again
  <2>2. Taken' = Taken
    BY <1>1, <1>2, <2>1, BufferStays
  <2> QED BY <1>1, <1>4, <2>1, <2>2 DEF Expected, Current
<1>7. ASSUME c = Len(requests) + 1 PROVE cr = 0
  <2>1. Taken = Len(Stream)
    BY <1>2, <1>4, <1>7, EndOfRequests
  <2>2. Len(inBuffer) = 0
    BY <1>5, <2>1 DEF IsPart
  <2>3. \A k \in 1..Len(inBuffer) : inBuffer[k] # CR
    BY <2>2
  <2> QED BY <2>3, FindNone
<1>8. ASSUME c \in 1..Len(requests), cr # 0 PROVE Expected'
  <2>1. /\ WellFormed(r) /\ z \in Nat /\ 4 <= z
        /\ \A k \in 1..(z + 5) : Stream[Taken + k] = LineText(r)[k]
        /\ HeadersAt(requests, c) = Taken + z + 5
    BY <1>2, <1>4, <1>8, AtRequest
  <2>2. \A k \in 1..Len(inBuffer) :
          IF k <= 0 THEN inBuffer[k] # CR /\ inBuffer[k] \notin Methods
          ELSE k <= 0 + z + 5 => inBuffer[k] = LineText(r)[k - 0]
    <3>1. SUFFICES ASSUME NEW k \in 1..Len(inBuffer), k <= z + 5
                   PROVE  inBuffer[k] = LineText(r)[k]
      BY <2>1
    <3>2. k \in 1..(z + 5)
      BY <2>1, <3>1
    <3> HIDE DEF r, z
    <3> QED BY <1>5, <2>1, <3>1, <3>2 DEF IsPart
  <2>3. /\ Len(inBuffer) < 0 + z + 4 => cr = 0
        /\ 0 + z + 4 <= Len(inBuffer) =>
             /\ cr = 0 + z + 4
             /\ line \in Texts /\ Len(line) = cr - 1
             /\ \A k \in 1..(cr - 1) : line[k] = inBuffer[k]
             /\ MethodsIn(line) = {r.method} /\ MethodIn(line) = r.method
    <3>1. 0 \in Nat
      OBVIOUS
    <3> QED BY <1>5, <2>1, <2>2, <3>1, LineFound
  <2>4. /\ cr = z + 4 /\ z + 4 <= Len(inBuffer)
        /\ line \in Texts /\ Len(line) = z + 3
        /\ \A k \in 1..(z + 3) : line[k] = inBuffer[k]
        /\ MethodsIn(line) = {r.method} /\ MethodIn(line) = r.method
    <3>1. 0 + z + 4 = z + 4 /\ (z + 4) - 1 = z + 3
      BY <2>1
    <3> HIDE DEF cr, line, r, z
    <3> QED BY <1>5, <1>8, <2>1, <2>3, <3>1
  <2>5. \A k \in 1..Len(line) :
          IF k <= 0 THEN line[k] \notin Methods ELSE line[k] = LineText(r)[k - 0]
    <3>1. \A k \in 1..(z + 3) : k \in 1..Len(inBuffer) /\ k <= z + 5 /\ ~(k <= 0) /\ k - 0 = k
          /\ k <= 0 + z + 5
      BY <1>5, <2>1, <2>4, SMTT(60)
    <3> HIDE DEF line, r, z
    <3> QED BY <2>2, <2>4, <3>1
  <2>6. /\ slash = 3 /\ blank = z /\ VersionOK(line, blank)
        /\ NameIn(line, slash, blank) = FileName(r)
    <3>1. /\ from = Find(line, r.method, 1) /\ Len(line) = 0 + BlankAt(r) + 3
          /\ 0 \in Nat /\ 0 + 3 = 3 /\ 0 + BlankAt(r) = z
      BY <2>1, <2>4
    <3> HIDE DEF line, r, from, z
    <3>2. /\ slash = 0 + 3 /\ blank = 0 + BlankAt(r) /\ VersionOK(line, blank)
          /\ NameIn(line, slash, blank) = FileName(r)
      BY <2>1, <2>4, <2>5, <3>1, LineParsed, SMTT(60)
    <3> QED BY <3>1, <3>2
  <2>7. /\ inBuffer' = SubSeq(inBuffer, cr + 1, Len(inBuffer))
        /\ method' = MethodIn(line) /\ fileName' = NameIn(line, slash, blank)
        /\ state' = "headers" /\ error' = error
    <3>1. MethodsIn(line) # {} /\ ~(slash # 0 /\ (blank = 0 \/ ~VersionOK(line, blank))) /\ slash # 0
      <4> HIDE DEF line, slash, blank, z, r
      <4> QED BY <2>1, <2>4, <2>6
    <3>2. ParseURI
      OBVIOUS
    <3> HIDE DEF cr
    <3> QED BY <1>8, <3>1, <3>2 DEF ParseURI, cr
  <2>8. cr \in 0..Len(inBuffer)
    BY <2>1, <2>4
  <2>9. Taken' = Taken + cr
    <3> HIDE DEF cr
    <3> QED BY <1>1, <1>2, <2>7, <2>8, BufferMoves
  <2>10. Taken' = HeadersAt(requests, c) - 1
    <3> HIDE DEF cr, z
    <3> QED BY <1>5, <2>1, <2>4, <2>9
  <2>11. InRequest(requests[Current])'
    <3>1. method' = r.method /\ fileName' = FileName(r)
      BY <2>4, <2>6, <2>7
    <3> QED BY <1>1, <2>7, <2>10, <3>1 DEF InRequest
  <2> QED BY <1>1, <1>8, <2>7, <2>11 DEF Expected
<1>9. c \in 1..Len(requests) \/ c = Len(requests) + 1
  BY <1>4, <1>5
<1> QED BY <1>6, <1>7, <1>8, <1>9

(* parseHeaders: with all headers in the buffer it stores them all and ends*)
(* at the body, with none but the LF before them it waits.                 *)
LEMMA ExactParseHeaders == ASSUME Exact, ParseHeaders PROVE Exact'
<1> DEFINE c == Current
           r == requests[c]
           H == HeadersText(r)
           h == HeadersAt(requests, c)
           m == Scan(inBuffer, hState, headers)
<1>1. /\ pc = "parse" /\ state = "headers" /\ ~error /\ UNCHANGED <<requests, answers, torn>>
      /\ UNCHANGED <<method, fileName, sent>> /\ torn \subseteq torn' /\ Current' = Current
  BY DEF ParseHeaders, Again, Refuse, Exact, Base, Shape, Current, peerVars, lineVars
<1>2. Base' /\ Base
  BY BaseParseHeaders DEF Exact
<1>3. SUFFICES ASSUME Untorn(Current) PROVE Expected'
  BY <1>1, <1>2, NoNewAnswer
<1>4. /\ c \in 1..Len(requests) /\ InRequest(r)
      /\ method = r.method /\ fileName = FileName(r)
      /\ Taken = h - 1 /\ hState = "start" /\ headers = <<>>
  BY <1>1, <1>3, UntornIsNow DEF InRequest
<1>5. /\ inBuffer \in Texts /\ Len(inBuffer) \in Nat /\ IsPart(inBuffer, Stream, Taken)
      /\ Taken \in Nat /\ Arrived = Taken + Len(inBuffer) /\ Len(requests) \in Nat
  BY <1>2, Lengths DEF Base, Shape, InOrder, Taken
<1>6. /\ WellFormed(r) /\ Understood(r) /\ h \in Nat /\ Len(H) \in Nat /\ 2 <= Len(H)
      /\ Stream[h] = LF /\ \A k \in 1..Len(H) : Stream[h + k] = H[k]
      /\ BodyAt(requests, c) = h + Len(H)
      /\ Arrived <= h \/ Arrived >= h + Len(H)
  BY <1>2, <1>3, <1>4, AtRequest, NotTorn
<1>7. m = Scan(inBuffer, "start", <<>>)
  BY <1>4
<1>8. inBuffer # <<>> => 1 \in 1..Len(inBuffer) /\ inBuffer[1] = LF
  <2>1. SUFFICES ASSUME inBuffer # <<>> PROVE 1 \in 1..Len(inBuffer) /\ inBuffer[1] = LF
    OBVIOUS
  <2>2. 1 \in 1..Len(inBuffer)
    BY <1>5, <2>1 DEF Texts
  <2>3. inBuffer[1] = Stream[Taken + 1]
    BY <1>5, <2>2 DEF IsPart
  <2>4. Taken + 1 = h
    BY <1>4, <1>6
  <2> QED BY <1>6, <2>2, <2>3, <2>4
<1>9. CASE Arrived <= h
  <2>1. Len(inBuffer) <= 1
    BY <1>4, <1>5, <1>6, <1>9
  <2>2. m = Locals("start", <<>>)
    <3>1. Len(inBuffer) = 1 => inBuffer[1] = LF
      BY <1>8
    <3> QED BY <1>5, <1>7, <2>1, <3>1, NothingScanned
  <2>3. m.h = "start" /\ m.headers = <<>> /\ m.line = 1
    BY <2>2 DEF Locals
  <2> HIDE DEF m
  <2>4. /\ hState' = "start" /\ headers' = <<>> /\ state' = "headers" /\ error' = error
        /\ inBuffer' = SubSeq(inBuffer, 0 + 1, Len(inBuffer))
    BY <1>1, <2>3 DEF ParseHeaders, Again, m
  <2>5. Taken' = Taken + 0
    <3>1. 0 \in 0..Len(inBuffer)
      BY <1>5
    <3> QED BY <1>1, <1>2, <2>4, <3>1, BufferMoves
  <2>6. Taken' = h - 1
    BY <1>4, <1>5, <2>5
  <2>7. InRequest(requests[Current])'
    BY <1>1, <1>4, <2>4, <2>6 DEF InRequest
  <2> QED BY <1>1, <1>4, <2>4, <2>7 DEF Expected
<1>10. CASE Arrived >= h + Len(H)
  <2>1. Len(H) < Len(inBuffer) /\ Len(H) + 1 \in 0..Len(inBuffer)
    BY <1>4, <1>5, <1>6, <1>10, SMTT(60)
  <2>2. \A k \in 1..Len(H) : inBuffer[1 + k] = H[k]
    <3>1. SUFFICES ASSUME NEW k \in 1..Len(H) PROVE inBuffer[1 + k] = H[k]
      OBVIOUS
    <3>2. 1 + k \in 1..Len(inBuffer) /\ Taken + (1 + k) = h + k
      BY <1>4, <1>5, <1>6, <2>1, SMTT(60)
    <3>3. inBuffer[1 + k] = Stream[Taken + (1 + k)]
      BY <1>5, <3>2 DEF IsPart
    <3> QED BY <1>6, <3>2, <3>3
  <2>3. /\ m.h = "endlf" /\ m.headers = MapOf(r.headers, Len(r.headers))
        /\ m.body = Len(H) + 2
    <3>1. inBuffer[1] = LF
      <4>1. inBuffer # <<>>
        BY <1>6, <2>1
      <4> QED BY <1>8, <4>1
    <3> QED BY <1>5, <1>6, <1>7, <2>1, <2>2, <3>1, HeadersScanned, SMTT(60)
  <2> HIDE DEF m
  <2>4. /\ headers' = MapOf(r.headers, Len(r.headers)) /\ error' = error
        /\ state' = IF method = "POST" THEN "body" ELSE "analysis"
        /\ inBuffer' = SubSeq(inBuffer, Len(H) + 2, Len(inBuffer))
    BY <1>1, <2>3 DEF ParseHeaders, m
  <2>5. Taken' = Taken + (Len(H) + 1)
    <3>1. (Len(H) + 1) + 1 = Len(H) + 2
      BY <1>6
    <3> HIDE DEF H
    <3>2. inBuffer' = SubSeq(inBuffer, (Len(H) + 1) + 1, Len(inBuffer))
      BY <2>4, <3>1
    <3> QED BY <1>1, <1>2, <2>1, <3>2, BufferMoves
  <2>6. Taken' = BodyAt(requests, c)
    BY <1>4, <1>5, <1>6, <2>5
  <2>7. InRequest(requests[Current])'
    BY <1>1, <1>4, <2>4, <2>6 DEF InRequest
  <2> QED BY <1>1, <1>4, <2>4, <2>7 DEF Expected
<1> QED BY <1>6, <1>9, <1>10

(* The body: as long as the header says, or the length is refused.         *)
LEMMA ExactRecvBody == ASSUME Exact, RecvBody PROVE Exact'
<1> DEFINE c == Current
           r == requests[c]
<1>1. /\ pc = "parse" /\ state = "body" /\ ~error /\ method = "POST"
      /\ UNCHANGED <<requests, answers, torn, method, fileName, sent, inBuffer, headers>>
      /\ torn \subseteq torn' /\ Current' = Current
  BY DEF RecvBody, Again, Refuse, Exact, Base, Shape, Stages, Current, peerVars, lineVars
<1>2. Base' /\ Base
  BY BaseRecvBody DEF Exact
<1>3. SUFFICES ASSUME Untorn(Current) PROVE Expected'
  BY <1>1, <1>2, NoNewAnswer
<1>4. /\ c \in 1..Len(requests)
      /\ method = r.method /\ fileName = FileName(r)
      /\ Taken = BodyAt(requests, c) /\ headers = MapOf(r.headers, Len(r.headers))
  BY <1>1, <1>3, UntornIsNow DEF InRequest
<1>5. WellFormed(r) /\ Understood(r)
  BY <1>2, <1>3, <1>4, AtRequest, NotTorn
<1>6. Taken' = Taken
  BY <1>1, <1>2, BufferStays
<1>7. CASE ~HasLength(headers)
  <2>1. error' /\ Refusable(r)
    BY <1>1, <1>4, <1>5, <1>7, LengthOfSent DEF RecvBody, Refuse, Refusable
  <2> QED BY <1>1, <1>4, <2>1 DEF Expected
<1>8. CASE HasLength(headers)
  <2>1. state' \in {"body", "analysis"} /\ error' = error
    BY <1>1, <1>8 DEF RecvBody, Again
  <2>2. ContentLength(headers) = Len(r.body)
    BY <1>4, <1>5, <1>8, LengthOfSent
  <2>3. InRequest(requests[Current])'
    BY <1>1, <1>4, <1>6, <2>1, <2>2 DEF InRequest
  <2> QED BY <1>1, <1>4, <2>1, <2>3 DEF Expected
<1> QED BY <1>7, <1>8

(* analysisRequest answers what was asked and leaves the next request's    *)
(* first token at the front of the buffer.                                 *)
LEMMA ExactAnalysis == ASSUME Exact, Analysis PROVE Exact'
<1> DEFINE c == Current
           r == requests[c]
           answer == Answer(method, fileName, headers, SubSeq(inBuffer, 1, BodyLength))
<1>1. /\ pc = "parse" /\ state = "analysis" /\ ~error /\ Answerable(method, fileName)
      /\ UNCHANGED <<requests, torn, sent>>
      /\ answers' = Append(answers, answer)
      /\ inBuffer' = SubSeq(inBuffer, BodyLength + 1, Len(inBuffer))
      /\ state' = "uri" /\ error' = error
  BY DEF Analysis, Reset, Exact, Base, Shape, peerVars, BodyLength
<1>2. Base' /\ Base
  BY BaseAnalysis DEF Exact
<1>3. /\ Len(answers) \in Nat /\ Len(requests) \in Nat /\ c \in Nat /\ c = Len(answers) + 1
      /\ inBuffer \in Texts /\ Len(inBuffer) \in Nat /\ IsPart(inBuffer, Stream, Taken)
      /\ Taken \in Nat
  BY <1>2, Lengths DEF Base, Shape, InOrder, Current
<1> HIDE DEF answer
<1>4. /\ Len(answers') = c /\ answers'[c] = answer
      /\ \A i \in 1..Len(answers) : answers'[i] = answers[i]
      /\ Current' = c + 1
  <2>1. /\ Len(answers') = Len(answers) + 1 /\ answers'[Len(answers) + 1] = answer
        /\ \A i \in 1..Len(answers) : answers'[i] = answers[i]
    BY <1>1, <1>2, OneMore
  <2> QED BY <1>3, <2>1 DEF Current
<1>5. \A i : Untorn(i)' => Untorn(i)
  BY <1>1, UntornStays
<1>6. ASSUME Untorn(c)
      PROVE  /\ c \in 1..Len(requests) /\ answer = AsSent(r)
             /\ Taken' = Before(requests, c + 1)
  <2>1. /\ c \in 1..Len(requests)
        /\ method = r.method /\ fileName = FileName(r)
        /\ Taken = BodyAt(requests, c) /\ headers = MapOf(r.headers, Len(r.headers))
        /\ method = "POST" => ContentLength(headers) = Len(r.body)
    BY <1>1, <1>6, UntornIsNow DEF InRequest
  <2>2. /\ WellFormed(r) /\ Len(r.body) \in Nat
        /\ Before(requests, c + 1) = Taken + Len(r.body)
        /\ \A k \in 1..Len(r.body) : Stream[Taken + k] = r.body[k]
    BY <1>2, <2>1, AtRequest
  <2>3. BodyLength = Len(r.body) /\ r.body \in Texts
    BY <2>1, <2>2, TextLayout DEF BodyLength, WellFormed
  <2>4. BodyLength \in 0..Len(inBuffer)
    BY <1>1, <1>2, BodyLengthBounds
  <2>5. Taken' = Before(requests, c + 1)
    BY <1>1, <1>2, <2>2, <2>3, <2>4, BufferMoves
  <2>6. fileName = Name(r)
    <3>1. r.path = <<>> /\ r.query => fileName = <<>>
      BY <2>1 DEF FileName
    <3>2. ~(r.path = <<>> /\ r.query)
      BY <1>1, <3>1, NoNameNoAnswer
    <3> QED BY <2>1, <3>2 DEF FileName, Name
  <2>7. SubSeq(inBuffer, 1, BodyLength) = r.body
    <3> DEFINE u == SubSeq(inBuffer, 1, BodyLength)
    <3>1. u \in Texts /\ Len(u) = BodyLength /\ IsPart(u, Stream, Taken)
      <4>1. Stream \in Texts
        BY <1>2, Lengths DEF Base
      <4> QED BY <1>3, <2>4, <4>1, StartOfPart
    <3> DEFINE v == r.body
    <3> HIDE DEF u, v, r
    <3>2. Len(u) = Len(v) /\ \A k \in 1..Len(u) : u[k] = v[k]
      BY <2>2, <2>3, <3>1 DEF IsPart, v
    <3>3. u = v
      BY <2>3, <3>1, <3>2, SeqEqual DEF Texts, v
    <3> QED BY <3>3 DEF u, v
  <2>8. AsSent(r) = Answer(r.method, Name(r), MapOf(r.headers, Len(r.headers)), r.body)
    BY <2>2, SentMap
  <2>9. answer = AsSent(r)
    BY <2>1, <2>6, <2>7, <2>8 DEF answer
  <2> QED BY <2>1, <2>5, <2>9
<1>7. AnsweredAsSent'
  <2>1. SUFFICES ASSUME NEW i \in 1..Len(answers'), Untorn(i)'
                 PROVE  i \in 1..Len(requests) /\ answers'[i] = AsSent(requests[i])
    BY <1>1 DEF AnsweredAsSent
  <2>2. Untorn(i)
    BY <1>5, <2>1
  <2>3. CASE i = c
    BY <1>4, <1>6, <2>2, <2>3
  <2>4. CASE i # c
    <3>1. i \in 1..Len(answers)
      BY <1>3, <1>4, <2>4
    <3> QED BY <1>4, <2>2, <3>1 DEF Exact, AnsweredAsSent
  <2> QED BY <2>3, <2>4
<1>8. ASSUME Untorn(Current)' PROVE Expected'
  <2>1. Untorn(c + 1)
    BY <1>1, <1>4, <1>8 DEF Untorn
  <2>2. Untorn(c)
    BY <1>3, <2>1, UntornBefore
  <2>3. c + 1 \in 1..(Len(requests) + 1) /\ Taken' = Before(requests, c + 1)
    BY <1>3, <1>6, <2>2
  <2> QED BY <1>1, <1>4, <2>3 DEF Expected
<1> QED BY <1>2, <1>7, <1>8 DEF Exact

(* It fails only on requests that are refusable.                           *)
LEMMA ExactAnalysisFails == ASSUME Exact, AnalysisFails PROVE Exact'
<1> DEFINE c == Current
           r == requests[c]
<1>1. /\ pc = "parse" /\ state = "analysis" /\ ~error /\ ~Answerable(method, fileName)
      /\ UNCHANGED <<requests, answers, torn>> /\ error'
      /\ torn \subseteq torn' /\ Current' = Current
  BY DEF AnalysisFails, Refuse, Exact, Base, Shape, Current, peerVars
<1>2. Base' /\ Base
  BY BaseAnalysisFails DEF Exact
<1>3. SUFFICES ASSUME Untorn(Current) PROVE Expected'
  BY <1>1, <1>2, NoNewAnswer
<1>4. c \in 1..Len(requests) /\ method = r.method /\ fileName = FileName(r)
  BY <1>1, <1>3, UntornIsNow DEF InRequest
<1>5. Refusable(r)
  BY <1>1, <1>4 DEF Refusable, FileName, Name
<1> QED BY <1>1, <1>4, <1>5 DEF Expected

(* The invariant is inductive.                                             *)
LEMMA ExactNext == ASSUME Exact, [Next]_vars PROVE Exact'
<1>1. CASE Read
  BY <1>1, ExactRead
<1>2. CASE ParseURI
  BY <1>2, ExactParseURI
<1>3. CASE ParseHeaders
  BY <1>3, ExactParseHeaders
<1>4. CASE RecvBody
  BY <1>4, ExactRecvBody
<1>5. CASE Analysis
  BY <1>5, ExactAnalysis
<1>6. CASE AnalysisFails
  BY <1>6, ExactAnalysisFails
<1>7. CASE UNCHANGED vars
  <2>1. Base'
    BY <1>7, BaseNext DEF Exact
  <2>2. /\ UNCHANGED <<requests, answers, state, hState, method, fileName, headers, error,
                       sent, inBuffer>>
        /\ torn \subseteq torn'
    BY <1>7 DEF vars, peerVars, lineVars
  <2>3. Expected => Expected'
    BY <2>2 DEF Expected, InRequest, Current, Taken, Arrived, Stream
  <2> QED BY <2>1, <2>2, <2>3, NoNewAnswer DEF Exact
<1> QED BY <1>1, <1>2, <1>3, <1>4, <1>5, <1>6, <1>7 DEF Next

----------------------------------------------------------------------------
(***************************************************************************)
(* Headers cut anywhere: one byte of the loop.                             *)
(***************************************************************************)

(* One byte of the loop, as far as it matters where the headers lie: what  *)
(* becomes of h and of the positions, an error left aside.                 *)
LEMMA InStart ==
  ASSUME NEW s, NEW j, NEW n, NEW m, InLoop(m, n), m.h = "start"
  PROVE  LET x == HeaderStep(m, s, j)
         IN  \/ x.h = "error"
             \/ /\ s[j] \in {CR, LF}
                /\ x.h = "start"
                /\ x.headers = m.headers
                /\ x.keyStart = m.keyStart
                /\ x.keyEnd = m.keyEnd
                /\ x.valueStart = m.valueStart
                /\ x.valueEnd = m.valueEnd
                /\ x.line = m.line
             \/ /\ s[j] \notin {CR, LF}
                /\ x.h = "key"
                /\ x.headers = m.headers
                /\ x.keyStart = j
                /\ x.keyEnd = m.keyEnd
                /\ x.valueStart = m.valueStart
                /\ x.valueEnd = m.valueEnd
                /\ x.line = j
<1> DEFINE x == HeaderStep(m, s, j)
           map == m.headers
           a == m.keyStart
           b == m.keyEnd
           c == m.valueStart
           d == m.valueEnd
           l == m.line
           e == m.body
<1>1. m = Loop("start", map, a, b, c, d, l, e)
  BY DEF InLoop
<1> HIDE DEF map, a, b, c, d, l, e
<1>2. x = IF s[j] \in {CR, LF} THEN Loop("start", map, a, b, c, d, l, e)
          ELSE Loop("key", map, j, b, c, d, j, e)
  BY <1>1, StepInStart
<1>3. \A h2, f2, a2, b2, c2, d2, l2, e2 :
        LET y == Loop(h2, f2, a2, b2, c2, d2, l2, e2)
        IN  /\ y.h = h2 /\ y.headers = f2 /\ y.keyStart = a2 /\ y.keyEnd = b2
            /\ y.valueStart = c2 /\ y.valueEnd = d2 /\ y.line = l2 /\ y.body = e2
  BY LoopFields
<1> HIDE DEF x
<1> QED BY <1>2, <1>3 DEF map, a, b, c, d, l, e, x

LEMMA InKey ==
  ASSUME NEW s, NEW j, NEW n, NEW m, InLoop(m, n), m.h = "key"
  PROVE  LET x == HeaderStep(m, s, j)
         IN  \/ x.h = "error"
             \/ /\ s[j] = Colon
                /\ x.h = "colon"
                /\ x.headers = m.headers
                /\ x.keyStart = m.keyStart
                /\ x.keyEnd = j
                /\ x.valueStart = m.valueStart
                /\ x.valueEnd = m.valueEnd
                /\ x.line = m.line
             \/ /\ s[j] \notin {Colon, CR, LF}
                /\ x.h = "key"
                /\ x.headers = m.headers
                /\ x.keyStart = m.keyStart
                /\ x.keyEnd = m.keyEnd
                /\ x.valueStart = m.valueStart
                /\ x.valueEnd = m.valueEnd
                /\ x.line = m.line
<1> DEFINE x == HeaderStep(m, s, j)
           map == m.headers
           a == m.keyStart
           b == m.keyEnd
           c == m.valueStart
           d == m.valueEnd
           l == m.line
           e == m.body
<1>1. m = Loop("key", map, a, b, c, d, l, e)
  BY DEF InLoop
<1> HIDE DEF map, a, b, c, d, l, e
<1>2. x = IF s[j] = Colon /\ j > a THEN Loop("colon", map, a, j, c, d, l, e)
          ELSE IF s[j] \in {Colon, CR, LF} THEN Loop("error", map, a, b, c, d, l, e)
          ELSE Loop("key", map, a, b, c, d, l, e)
  BY <1>1, StepInKey
<1>3. \A h2, f2, a2, b2, c2, d2, l2, e2 :
        LET y == Loop(h2, f2, a2, b2, c2, d2, l2, e2)
        IN  /\ y.h = h2 /\ y.headers = f2 /\ y.keyStart = a2 /\ y.keyEnd = b2
            /\ y.valueStart = c2 /\ y.valueEnd = d2 /\ y.line = l2 /\ y.body = e2
  BY LoopFields
<1> HIDE DEF x
<1> QED BY <1>2, <1>3 DEF map, a, b, c, d, l, e, x

LEMMA InColon ==
  ASSUME NEW s, NEW j, NEW n, NEW m, InLoop(m, n), m.h = "colon"
  PROVE  LET x == HeaderStep(m, s, j)
         IN  \/ x.h = "error"
             \/ /\ s[j] = Blank
                /\ x.h = "spaces"
                /\ x.headers = m.headers
                /\ x.keyStart = m.keyStart
                /\ x.keyEnd = m.keyEnd
                /\ x.valueStart = m.valueStart
                /\ x.valueEnd = m.valueEnd
                /\ x.line = m.line
<1> DEFINE x == HeaderStep(m, s, j)
           map == m.headers
           a == m.keyStart
           b == m.keyEnd
           c == m.valueStart
           d == m.valueEnd
           l == m.line
           e == m.body
<1>1. m = Loop("colon", map, a, b, c, d, l, e)
  BY DEF InLoop
<1> HIDE DEF map, a, b, c, d, l, e
<1>2. x = IF s[j] = Blank THEN Loop("spaces", map, a, b, c, d, l, e)
          ELSE Loop("error", map, a, b, c, d, l, e)
  BY <1>1, StepInColon
<1>3. \A h2, f2, a2, b2, c2, d2, l2, e2 :
        LET y == Loop(h2, f2, a2, b2, c2, d2, l2, e2)
        IN  /\ y.h = h2 /\ y.headers = f2 /\ y.keyStart = a2 /\ y.keyEnd = b2
            /\ y.valueStart = c2 /\ y.valueEnd = d2 /\ y.line = l2 /\ y.body = e2
  BY LoopFields
<1> HIDE DEF x
<1> QED BY <1>2, <1>3 DEF map, a, b, c, d, l, e, x

LEMMA InSpaces ==
  ASSUME NEW s, NEW j, NEW n, NEW m, InLoop(m, n), m.h = "spaces"
  PROVE  LET x == HeaderStep(m, s, j)
         IN  \/ x.h = "error"
             \/ /\ x.h = "value"
                /\ x.headers = m.headers
                /\ x.keyStart = m.keyStart
                /\ x.keyEnd = m.keyEnd
                /\ x.valueStart = j
                /\ x.valueEnd = m.valueEnd
                /\ x.line = m.line
<1> DEFINE x == HeaderStep(m, s, j)
           map == m.headers
           a == m.keyStart
           b == m.keyEnd
           c == m.valueStart
           d == m.valueEnd
           l == m.line
           e == m.body
<1>1. m = Loop("spaces", map, a, b, c, d, l, e)
  BY DEF InLoop
<1> HIDE DEF map, a, b, c, d, l, e
<1>2. x = Loop("value", map, a, b, j, d, l, e)
  BY <1>1, StepInSpaces
<1>3. \A h2, f2, a2, b2, c2, d2, l2, e2 :
        LET y == Loop(h2, f2, a2, b2, c2, d2, l2, e2)
        IN  /\ y.h = h2 /\ y.headers = f2 /\ y.keyStart = a2 /\ y.keyEnd = b2
            /\ y.valueStart = c2 /\ y.valueEnd = d2 /\ y.line = l2 /\ y.body = e2
  BY LoopFields
<1> HIDE DEF x
<1> QED BY <1>2, <1>3 DEF map, a, b, c, d, l, e, x

LEMMA InValue ==
  ASSUME NEW s, NEW j, NEW n, NEW m, InLoop(m, n), m.h = "value"
  PROVE  LET x == HeaderStep(m, s, j)
         IN  \/ x.h = "error"
             \/ /\ s[j] # CR
                /\ x.h = "value"
                /\ x.headers = m.headers
                /\ x.keyStart = m.keyStart
                /\ x.keyEnd = m.keyEnd
                /\ x.valueStart = m.valueStart
                /\ x.valueEnd = m.valueEnd
                /\ x.line = m.line
             \/ /\ s[j] = CR
                /\ x.h = "cr"
                /\ x.headers = m.headers
                /\ x.keyStart = m.keyStart
                /\ x.keyEnd = m.keyEnd
                /\ x.valueStart = m.valueStart
                /\ x.valueEnd = j
                /\ x.line = m.line
<1> DEFINE x == HeaderStep(m, s, j)
           map == m.headers
           a == m.keyStart
           b == m.keyEnd
           c == m.valueStart
           d == m.valueEnd
           l == m.line
           e == m.body
<1>1. m = Loop("value", map, a, b, c, d, l, e)
  BY DEF InLoop
<1> HIDE DEF map, a, b, c, d, l, e
<1>2. x = IF s[j] # CR THEN Loop("value", map, a, b, c, d, l, e)
          ELSE IF j > c THEN Loop("cr", map, a, b, c, j, l, e)
          ELSE Loop("error", map, a, b, c, d, l, e)
  BY <1>1, StepInValue
<1>3. \A h2, f2, a2, b2, c2, d2, l2, e2 :
        LET y == Loop(h2, f2, a2, b2, c2, d2, l2, e2)
        IN  /\ y.h = h2 /\ y.headers = f2 /\ y.keyStart = a2 /\ y.keyEnd = b2
            /\ y.valueStart = c2 /\ y.valueEnd = d2 /\ y.line = l2 /\ y.body = e2
  BY LoopFields
<1> HIDE DEF x
<1> QED BY <1>2, <1>3 DEF map, a, b, c, d, l, e, x

LEMMA InCR ==
  ASSUME NEW s, NEW j, NEW n, NEW m, InLoop(m, n), m.h = "cr"
  PROVE  LET x == HeaderStep(m, s, j)
         IN  \/ x.h = "error"
             \/ /\ s[j] = LF
                /\ x.h = "lf"
                /\ x.headers = Store(m.headers, Slice(s, m.keyStart, m.keyEnd),
                                      Slice(s, m.valueStart, m.valueEnd))
                /\ x.keyStart = m.keyStart
                /\ x.keyEnd = m.keyEnd
                /\ x.valueStart = m.valueStart
                /\ x.valueEnd = m.valueEnd
                /\ x.line = j
<1> DEFINE x == HeaderStep(m, s, j)
           map == m.headers
           a == m.keyStart
           b == m.keyEnd
           c == m.valueStart
           d == m.valueEnd
           l == m.line
           e == m.body
<1>1. m = Loop("cr", map, a, b, c, d, l, e)
  BY DEF InLoop
<1> HIDE DEF map, a, b, c, d, l, e
<1>2. x = IF s[j] = LF
            THEN Loop("lf", Store(map, Slice(s, a, b), Slice(s, c, d)), a, b, c, d, j, e)
            ELSE Loop("error", map, a, b, c, d, l, e)
  BY <1>1, StepInCR
<1>3. \A h2, f2, a2, b2, c2, d2, l2, e2 :
        LET y == Loop(h2, f2, a2, b2, c2, d2, l2, e2)
        IN  /\ y.h = h2 /\ y.headers = f2 /\ y.keyStart = a2 /\ y.keyEnd = b2
            /\ y.valueStart = c2 /\ y.valueEnd = d2 /\ y.line = l2 /\ y.body = e2
  BY LoopFields
<1> HIDE DEF x
<1> QED BY <1>2, <1>3 DEF map, a, b, c, d, l, e, x

LEMMA InLF ==
  ASSUME NEW s, NEW j, NEW n, NEW m, InLoop(m, n), m.h = "lf"
  PROVE  LET x == HeaderStep(m, s, j)
         IN  \/ x.h = "error"
             \/ /\ s[j] = CR
                /\ x.h = "endcr"
                /\ x.headers = m.headers
                /\ x.keyStart = m.keyStart
                /\ x.keyEnd = m.keyEnd
                /\ x.valueStart = m.valueStart
                /\ x.valueEnd = m.valueEnd
                /\ x.line = m.line
             \/ /\ s[j] # CR
                /\ x.h = "key"
                /\ x.headers = m.headers
                /\ x.keyStart = j
                /\ x.keyEnd = m.keyEnd
                /\ x.valueStart = m.valueStart
                /\ x.valueEnd = m.valueEnd
                /\ x.line = m.line
<1> DEFINE x == HeaderStep(m, s, j)
           map == m.headers
           a == m.keyStart
           b == m.keyEnd
           c == m.valueStart
           d == m.valueEnd
           l == m.line
           e == m.body
<1>1. m = Loop("lf", map, a, b, c, d, l, e)
  BY DEF InLoop
<1> HIDE DEF map, a, b, c, d, l, e
<1>2. x = IF s[j] = CR THEN Loop("endcr", map, a, b, c, d, l, e)
          ELSE Loop("key", map, j, b, c, d, l, e)
  BY <1>1, StepInLF
<1>3. \A h2, f2, a2, b2, c2, d2, l2, e2 :
        LET y == Loop(h2, f2, a2, b2, c2, d2, l2, e2)
        IN  /\ y.h = h2 /\ y.headers = f2 /\ y.keyStart = a2 /\ y.keyEnd = b2
            /\ y.valueStart = c2 /\ y.valueEnd = d2 /\ y.line = l2 /\ y.body = e2
  BY LoopFields
<1> HIDE DEF x
<1> QED BY <1>2, <1>3 DEF map, a, b, c, d, l, e, x

LEMMA InEndCR ==
  ASSUME NEW s, NEW j, NEW n, NEW m, InLoop(m, n), m.h = "endcr"
  PROVE  LET x == HeaderStep(m, s, j)
         IN  \/ x.h = "error"
             \/ /\ s[j] = LF
                /\ x.h = "endlf"
                /\ x.headers = m.headers
                /\ x.body = j + 1
<1> DEFINE x == HeaderStep(m, s, j)
           map == m.headers
           a == m.keyStart
           b == m.keyEnd
           c == m.valueStart
           d == m.valueEnd
           l == m.line
           e == m.body
<1>1. m = Loop("endcr", map, a, b, c, d, l, e)
  BY DEF InLoop
<1> HIDE DEF map, a, b, c, d, l, e
<1>2. x = IF s[j] = LF THEN Loop("endlf", map, a, b, c, d, l, j + 1)
          ELSE Loop("error", map, a, b, c, d, l, e)
  BY <1>1, StepInEndCR
<1>3. \A h2, f2, a2, b2, c2, d2, l2, e2 :
        LET y == Loop(h2, f2, a2, b2, c2, d2, l2, e2)
        IN  /\ y.h = h2 /\ y.headers = f2 /\ y.keyStart = a2 /\ y.keyEnd = b2
            /\ y.valueStart = c2 /\ y.valueEnd = d2 /\ y.line = l2 /\ y.body = e2
  BY LoopFields
<1> HIDE DEF x
<1> QED BY <1>2, <1>3 DEF map, a, b, c, d, l, e, x

LEMMA InEnd ==
  ASSUME NEW s, NEW j, NEW n, NEW m, InLoop(m, n), m.h \in {"endlf", "error"}
  PROVE  HeaderStep(m, s, j) = m
<1>1. m = Loop(m.h, m.headers, m.keyStart, m.keyEnd, m.valueStart, m.valueEnd,
               m.line, m.body)
  BY DEF InLoop
<1> QED BY <1>1, StepAtEnd

----------------------------------------------------------------------------
(***************************************************************************)
(* Where a scan that began anywhere can be.                                *)
(***************************************************************************)

(* Header i of hs follows the LF at position At(at, i) of F; the last LF   *)
(* is followed by CR LF.                                                   *)
At(at, i) == at + 6 * (i - 1)

Lines(F, at, hs) ==
  /\ at \in Nat \ {0} /\ hs \in Seq(Words \X Words) /\ hs # <<>>
  /\ \A i \in 1..(Len(hs) + 1) : F[At(at, i)] = LF
  /\ \A i \in 1..Len(hs) : IsLine(F, At(at, i), hs[i])
  /\ F[At(at, Len(hs) + 1) + 1] = CR /\ F[At(at, Len(hs) + 1) + 2] = LF

(* What is kept for another scan begins with the LF before line i, or with *)
(* the first line.                                                         *)
KeptFrom(at, i) == IF i = 1 THEN at ELSE At(at, i) - 1

(* Between two scans: the text begins after position p, in state h.        *)
Between(at, n, h, p) ==
  \/ h = "start" /\ p = at - 1
  \/ h = "key" /\ \E i \in 1..(n + 1) : p = KeptFrom(at, i)
  \/ h \in {"colon", "spaces", "value", "cr"} /\ \E i \in 1..n : p = KeptFrom(at, i)
  \/ h = "lf" /\ \E i \in 2..(n + 1) : p = KeptFrom(at, i)
  \/ h = "endcr" /\ p = KeptFrom(at, n + 1)

(* The only content-length stored is one the request has. *)
LengthsOf(hs, map) ==
  <<"content-length">> \in DOMAIN map =>
    \E i \in 1..Len(hs) :
      hs[i][1] = "content-length" /\ map[<<"content-length">>] = <<hs[i][2]>>

----------------------------------------------------------------------------
(* In a scan that began after position p, at position a of line i.  A key  *)
(* that does not begin where it should is longer than one word, or none.   *)
KeyFrom(p, at, m, i) == m.keyStart \in Nat /\ p + m.keyStart <= At(at, i) + 1

KeyRead(p, at, m, i) ==
  KeyFrom(p, at, m, i) /\ m.keyEnd \in Nat /\ p + m.keyEnd = At(at, i) + 2

ValueFrom(p, at, m, i) == m.valueStart \in Nat /\ p + m.valueStart = At(at, i) + 4

ValueRead(p, at, m, i) ==
  ValueFrom(p, at, m, i) /\ m.valueEnd \in Nat /\ p + m.valueEnd = At(at, i) + 5

NoKey(m) == m.keyStart = 0 /\ m.keyEnd = 0

(* In state h, what of the line has been read.  In the state "value" the   *)
(* scan may be at any token of the line: it has then begun in that state.  *)
Place(p, at, n, m, a, i) ==
  \/ m.h = "start" /\ i = 1 /\ a = at /\ p = at - 1 /\ m.line = 1
  \/ /\ p + m.line - 1 = KeptFrom(at, i)
     /\ \/ m.h = "key" /\ a \in At(at, i)..(At(at, i) + 1) /\ KeyFrom(p, at, m, i)
           /\ (i = n + 1 => a = At(at, i))
        \/ m.h = "colon" /\ i <= n /\ a = At(at, i) + 2 /\ KeyRead(p, at, m, i)
        \/ m.h = "spaces" /\ i <= n /\ a = At(at, i) + 3 /\ KeyRead(p, at, m, i)
        \/ m.h = "value" /\ i <= n /\ a \in At(at, i)..(At(at, i) + 4)
           /\ (NoKey(m) \/ (/\ a = At(at, i) + 4 /\ KeyRead(p, at, m, i)
                            /\ ValueFrom(p, at, m, i)))
        \/ m.h = "cr" /\ i <= n /\ a = At(at, i) + 5
           /\ (NoKey(m) \/ (KeyRead(p, at, m, i) /\ ValueRead(p, at, m, i)))
        \/ m.h = "lf" /\ i # 1 /\ a = At(at, i)
        \/ m.h = "endcr" /\ i = n + 1 /\ a = At(at, i) + 1

(* The body begins behind the last LF, or the scan has begun with that LF. *)
Ended(p, at, n, m) ==
  m.h = "endlf" /\ p + m.body - 1 \in {At(at, n + 1) + 2, At(at, n + 1)}

(* The course of a scan: refused, ended, or at a place.                    *)
Good(p, at, hs, m, a) ==
  \/ m.h = "error"
  \/ /\ LengthsOf(hs, m.headers)
     /\ \/ Ended(p, at, Len(hs), m)
        \/ \E i \in 1..(Len(hs) + 1) : Place(p, at, Len(hs), m, a, i)

----------------------------------------------------------------------------
(* Storing a header as it was sent, or under a name of none or several     *)
(* words, stores no content-length but the request's.                      *)
LEMMA StoreLengths ==
  ASSUME NEW hs, NEW map, LengthsOf(hs, map), NEW key, NEW value,
         \/ \E i \in 1..Len(hs) : key = <<hs[i][1]>> /\ value = <<hs[i][2]>>
         \/ \A w : key # <<w>>
  PROVE  LengthsOf(hs, Store(map, key, value))
<1> DEFINE W == "content-length"
           K == <<W>>
           u == Store(map, key, value)
<1>1. u = [k \in DOMAIN map \cup {key} |-> IF k = key THEN value ELSE map[k]]
  BY DEF Store
<1>2. K \in DOMAIN map => \E i \in 1..Len(hs) : hs[i][1] = W /\ map[K] = <<hs[i][2]>>
  BY DEF LengthsOf
<1>3. LengthsOf(hs, u) <=>
        (K \in DOMAIN u => \E i \in 1..Len(hs) : hs[i][1] = W /\ u[K] = <<hs[i][2]>>)
  BY DEF LengthsOf
<1>4. ASSUME key # K PROVE LengthsOf(hs, u)
  <2> HIDE DEF W, K, u
  <2> QED BY <1>1, <1>2, <1>3, <1>4
<1>5. ASSUME key = K PROVE LengthsOf(hs, u)
  <2> HIDE DEF W, u
  <2>1. PICK i \in 1..Len(hs) : K = <<hs[i][1]>> /\ value = <<hs[i][2]>>
    BY <1>5
  <2>2. W = hs[i][1]
    BY <2>1
  <2>3. u[K] = value
    BY <1>1, <1>5
  <2> QED BY <1>3, <2>1, <2>2, <2>3
<1> QED BY <1>4, <1>5

(* A name is one token long, or it is not a name.                          *)
LEMMA SliceExact ==
  ASSUME NEW s \in Texts, NEW k \in 1..Len(s)
  PROVE  Slice(s, k, k + 1) = <<s[k]>>
<1>1. k # 0 /\ (k + 1) - 1 = k
  OBVIOUS
<1>2. SubSeq(s, k, k) = <<s[k]>>
  BY CutOne
<1> QED BY <1>1, <1>2 DEF Slice

LEMMA SliceOdd ==
  ASSUME NEW s \in Texts, NEW a \in Nat, NEW b \in Nat, b <= Len(s) + 1,
         \/ a = 0 /\ b = 0
         \/ a + 2 <= b
  PROVE  \A w : Slice(s, a, b) # <<w>>
<1> DEFINE J == "junk"
           v == Slice(s, a, b)
<1>1. v = IF a = 0 /\ b > 0 THEN <<J>> \o SubSeq(s, 1, b - 1) ELSE SubSeq(s, a, b - 1)
  BY DEF Slice
<1>2. \A w : Len(<<w>>) = 1
  OBVIOUS
<1>3. Len(s) \in Nat
  BY DEF Texts
<1> HIDE DEF J, v
<1>4. Len(v) # 1
  <2>1. CASE a = 0 /\ b = 0
    <3>1. v = SubSeq(s, 0, 0 - 1)
      BY <1>1, <2>1
    <3>2. SubSeq(s, 0, 0 - 1) = <<>>
      BY DEF Texts
    <3> QED BY <3>1, <3>2
  <2>2. CASE a = 0 /\ b # 0
    <3> DEFINE u == SubSeq(s, 1, b - 1)
               T == Tokens \cup {J}
    <3>1. b - 1 \in Nat /\ 1 \in Nat /\ 1 <= 1 /\ b - 1 <= Len(s) /\ 1 <= (b - 1) + 1 /\ 2 <= b
      BY <1>3, <2>2
    <3>2. u \in Texts /\ Len(u) = (b - 1) - 1 + 1
      BY <3>1, Cut
    <3>3. Texts \subseteq Seq(T)
      BY SeqMonotonic DEF Texts
    <3>4. v = <<J>> \o u
      BY <1>1, <2>2, <3>1
    <3>5. <<J>> \in Seq(T) /\ Len(<<J>>) = 1
      OBVIOUS
    <3> HIDE DEF u, T
    <3> DEFINE o == <<J>>
    <3> HIDE DEF o
    <3>6. Len(o \o u) = Len(o) + Len(u)
      BY <3>2, <3>3, <3>5, ConcatProperties DEF o
    <3>7. Len(v) = 1 + ((b - 1) - 1 + 1)
      BY <3>2, <3>4, <3>5, <3>6 DEF o
    <3> QED BY <3>1, <3>7
  <2>3. CASE a # 0
    <3>1. b - 1 \in Nat /\ a \in Nat /\ 1 <= a /\ b - 1 <= Len(s) /\ a <= (b - 1) + 1
          /\ (b - 1) - a + 1 # 1
      BY <1>3, <2>3
    <3>2. Len(SubSeq(s, a, b - 1)) = (b - 1) - a + 1
      BY <3>1, Cut
    <3> QED BY <1>1, <2>3, <3>1, <3>2
  <2> QED BY <2>1, <2>2, <2>3
<1> QED BY <1>2, <1>4 DEF v

(* The tokens around line i.                                               *)
LEMMA LineTokensAt ==
  ASSUME NEW F, NEW at, NEW hs, Lines(F, at, hs), NEW i \in 1..(Len(hs) + 1)
  PROVE  LET A == At(at, i)
             n == Len(hs)
         IN  /\ n \in Nat \ {0} /\ A \in Nat \ {0} /\ At(at, 1) = at /\ F[A] = LF
             /\ i <= n => /\ i + 1 \in 1..(n + 1) /\ At(at, i + 1) = A + 6
                          /\ F[A + 1] = hs[i][1] /\ hs[i][1] \notin {CR, LF, Colon, Blank}
                          /\ F[A + 2] = Colon /\ F[A + 3] = Blank
                          /\ F[A + 4] = hs[i][2] /\ hs[i][2] # CR
                          /\ F[A + 5] = CR /\ F[A + 6] = LF
             /\ i = n + 1 => F[A + 1] = CR /\ F[A + 2] = LF
<1> DEFINE n == Len(hs)
           A == At(at, i)
<1>1. n \in Nat \ {0} /\ at \in Nat \ {0} /\ F[A] = LF
      /\ \A k \in 1..n : hs[k] \in Words \X Words /\ IsLine(F, At(at, k), hs[k])
      /\ F[At(at, n + 1) + 1] = CR /\ F[At(at, n + 1) + 2] = LF
  BY DEF Lines
<1>2. A \in Nat \ {0} /\ At(at, 1) = at
  BY <1>1 DEF At
<1>3. ASSUME i <= n
      PROVE  /\ i + 1 \in 1..(n + 1) /\ At(at, i + 1) = A + 6
             /\ F[A + 1] = hs[i][1] /\ hs[i][1] \notin {CR, LF, Colon, Blank}
             /\ F[A + 2] = Colon /\ F[A + 3] = Blank
             /\ F[A + 4] = hs[i][2] /\ hs[i][2] # CR
             /\ F[A + 5] = CR /\ F[A + 6] = LF
  <2>1. i \in 1..n
    BY <1>1, <1>3
  <2>2. hs[i] \in Words \X Words /\ IsLine(F, A, hs[i])
    BY <1>1, <2>1
  <2>3. hs[i][1] \notin {CR, LF, Colon, Blank} /\ hs[i][2] # CR
    BY <2>2, TokensDiffer DEF Separators
  <2>4. i + 1 \in 1..(n + 1) /\ At(at, i + 1) = A + 6
    BY <1>1, <2>1 DEF At
  <2> QED BY <2>2, <2>3, <2>4 DEF IsLine
<1> QED BY <1>1, <1>2, <1>3

(* A byte that is not the first of its scan is the one the line has there. *)
LEMMA NextByte ==
  ASSUME NEW F, NEW s \in Texts, NEW at, NEW hs, Lines(F, at, hs), NEW p \in Nat,
         IsPart(s, F, p), NEW j \in 1..Len(s), NEW m, InLoop(m, Len(s)),
         Good(p, at, hs, m, p + j - 1)
  PROVE  Good(p, at, hs, HeaderStep(m, s, j), p + j)
<1> DEFINE n == Len(hs)
           x == HeaderStep(m, s, j)
           a == p + j - 1
           t == s[j]
           K(i) == KeptFrom(at, i)
<1>1. t = F[a + 1] /\ j \in Nat /\ j <= Len(s) /\ Len(s) \in Nat /\ a \in Nat /\ p + j = a + 1
  <2>1. Len(s) \in Nat
    BY DEF Texts
  <2>2. a \in Nat /\ p + j = a + 1 /\ j \in Nat /\ j <= Len(s)
    BY <2>1
  <2>3. t = F[p + j]
    BY DEF IsPart
  <2> QED BY <2>1, <2>2, <2>3
<1>2. m.line \in 1..(Len(s) + 1) /\ m.h \in HStates
  BY DEF InLoop
<1>3. ASSUME x.h = "error" PROVE Good(p, at, hs, x, p + j)
  BY <1>3 DEF Good
<1>4. ASSUME m.h \in {"endlf", "error"} PROVE Good(p, at, hs, x, p + j)
  <2>1. x = m
    BY <1>4, InEnd
  <2>2. \A i : ~Place(p, at, n, m, a, i)
    BY <1>4 DEF Place
  <2> HIDE DEF x
  <2> QED BY <2>1, <2>2 DEF Good
<1>5. ASSUME x.h # "error", m.h \notin {"endlf", "error"}
      PROVE  Good(p, at, hs, x, p + j)
  <2>1. PICK i \in 1..(n + 1) : Place(p, at, n, m, a, i)
    BY <1>5 DEF Good, Ended
  <2>2. LengthsOf(hs, m.headers)
    BY <1>5 DEF Good
  <2> DEFINE A == At(at, i)
  <2>3. /\ n \in Nat \ {0} /\ A \in Nat \ {0} /\ At(at, 1) = at /\ F[A] = LF
        /\ i <= n => /\ i + 1 \in 1..(n + 1) /\ At(at, i + 1) = A + 6
                     /\ F[A + 1] = hs[i][1] /\ hs[i][1] \notin {CR, LF, Colon, Blank}
                     /\ F[A + 2] = Colon /\ F[A + 3] = Blank
                     /\ F[A + 4] = hs[i][2] /\ hs[i][2] # CR
                     /\ F[A + 5] = CR /\ F[A + 6] = LF
        /\ i = n + 1 => F[A + 1] = CR /\ F[A + 2] = LF
    BY LineTokensAt
  <2>0. n \in Nat \ {0} /\ A \in Nat \ {0} /\ a \in Nat
    BY <1>1, <2>3
  <2>4. CR # LF /\ CR # Colon /\ CR # Blank /\ LF # Colon /\ Colon # Blank
    BY DEF CR, LF, Colon, Blank
  <2>5. SUFFICES LengthsOf(hs, x.headers)
                   /\ (Ended(p, at, n, x) \/ \E q \in 1..(n + 1) : Place(p, at, n, x, a + 1, q))
    BY <1>1 DEF Good
  <2>6. i \in Nat /\ 1 <= i /\ i <= n + 1
    BY <2>3
  <2> HIDE DEF n, x, A, t, a
  <2>7. CASE m.h = "start"
    <3>1. i = 1 /\ A = at /\ p = at - 1 /\ a = at /\ i <= n /\ K(1) = at
      BY <2>1, <2>3, <2>6, <2>7 DEF Place, A, KeptFrom
    <3>2. t = hs[i][1] /\ j = 2
      BY <1>1, <2>3, <3>1, SMTT(60)
    <3>3. x.h = "key" /\ x.headers = m.headers /\ x.keyStart = j /\ x.line = j
      BY <1>5, <2>3, <2>7, <3>1, <3>2, InStart DEF x, t
    <3>4. Place(p, at, n, x, a + 1, i)
      BY <1>1, <2>3, <3>1, <3>2, <3>3, SMTT(60) DEF Place, KeyFrom, A
    <3> QED BY <2>2, <3>3, <3>4, <2>1
  <2>8. CASE m.h = "key"
    <3>1. /\ a \in A..(A + 1) /\ KeyFrom(p, at, m, i) /\ (i = n + 1 => a = A)
          /\ p + m.line - 1 = K(i)
      BY <2>1, <2>8 DEF Place, A
    <3>2. i <= n
      <4>1. ASSUME i = n + 1 PROVE FALSE
        <5>1. t = CR
          BY <1>1, <2>3, <3>1, <4>1
        <5> QED BY <1>5, <2>4, <2>8, <5>1, InKey DEF x, t
      <4> QED BY <2>3, <2>6, <4>1
    <3>3. CASE a = A
      <4>1. t = hs[i][1]
        BY <1>1, <2>3, <3>2, <3>3
      <4>0. t \notin {CR, LF, Colon}
        BY <2>3, <3>2, <4>1
      <4>2. /\ x.h = "key" /\ x.headers = m.headers /\ x.keyStart = m.keyStart
            /\ x.line = m.line
        BY <1>5, <2>8, <4>0, InKey DEF x, t
      <4>3. Place(p, at, n, x, a + 1, i)
        BY <1>1, <2>0, <3>1, <3>2, <3>3, <4>2 DEF Place, KeyFrom, A
      <4> QED BY <2>1, <2>2, <4>2, <4>3
    <3>4. CASE a = A + 1
      <4>1. t = Colon
        BY <1>1, <2>3, <3>2, <3>4, SMTT(60)
      <4>2. /\ x.h = "colon" /\ x.headers = m.headers /\ x.keyStart = m.keyStart
            /\ x.keyEnd = j /\ x.line = m.line
        BY <1>5, <2>4, <2>8, <4>1, InKey DEF x, t
      <4>3. Place(p, at, n, x, a + 1, i)
        BY <1>1, <2>0, <3>1, <3>2, <3>4, <4>2 DEF Place, KeyFrom, KeyRead, A
      <4> QED BY <2>1, <2>2, <4>2, <4>3
    <3> QED BY <1>1, <2>3, <3>1, <3>3, <3>4, SMTT(60)
  <2>9. CASE m.h = "colon"
    <3>1. i <= n /\ a = A + 2 /\ KeyRead(p, at, m, i) /\ p + m.line - 1 = K(i)
      BY <2>1, <2>9 DEF Place, A
    <3>2. /\ x.h = "spaces" /\ x.headers = m.headers /\ x.keyStart = m.keyStart
          /\ x.keyEnd = m.keyEnd /\ x.line = m.line
      BY <1>5, <2>9, InColon DEF x
    <3>3. Place(p, at, n, x, a + 1, i)
      BY <1>1, <2>3, <3>1, <3>2, SMTT(60) DEF Place, KeyRead, KeyFrom, A
    <3> QED BY <2>1, <2>2, <3>2, <3>3
  <2>10. CASE m.h = "spaces"
    <3>1. i <= n /\ a = A + 3 /\ KeyRead(p, at, m, i) /\ p + m.line - 1 = K(i)
      BY <2>1, <2>10 DEF Place, A
    <3>2. /\ x.h = "value" /\ x.headers = m.headers /\ x.keyStart = m.keyStart
          /\ x.keyEnd = m.keyEnd /\ x.valueStart = j /\ x.line = m.line
      BY <1>5, <2>10, InSpaces DEF x
    <3>3. KeyRead(p, at, x, i)
      BY <3>1, <3>2 DEF KeyRead, KeyFrom
    <3>4. a + 1 = A + 4 /\ a + 1 \in A..(A + 4)
      BY <2>0, <3>1
    <3>5. ValueFrom(p, at, x, i)
      BY <1>1, <3>2, <3>4 DEF ValueFrom, A
    <3>6. Place(p, at, n, x, a + 1, i)
      BY <3>1, <3>2, <3>3, <3>4, <3>5 DEF Place, A
    <3> QED BY <2>1, <2>2, <3>2, <3>6
  <2>11. CASE m.h = "value"
    <3>1. /\ i <= n /\ a \in A..(A + 4) /\ p + m.line - 1 = K(i)
          /\ (NoKey(m) \/ (/\ a = A + 4 /\ KeyRead(p, at, m, i) /\ ValueFrom(p, at, m, i)))
      BY <2>1, <2>11 DEF Place, A
    <3>2. CASE a = A + 4
      <4>1. t = CR
        BY <1>1, <2>3, <3>1, <3>2
      <4>2. /\ x.h = "cr" /\ x.headers = m.headers /\ x.keyStart = m.keyStart
            /\ x.keyEnd = m.keyEnd /\ x.valueStart = m.valueStart /\ x.valueEnd = j
            /\ x.line = m.line
        BY <1>5, <2>11, <4>1, InValue DEF x, t
      <4>3. Place(p, at, n, x, a + 1, i)
        BY <1>1, <2>3, <3>1, <3>2, <4>2, SMTT(60)
           DEF Place, NoKey, KeyRead, KeyFrom, ValueFrom, ValueRead, A
      <4> QED BY <2>1, <2>2, <4>2, <4>3
    <3>3. CASE a # A + 4
      <4>1. a + 1 \in (A + 1)..(A + 4) /\ NoKey(m)
        BY <2>0, <3>1, <3>3
      <4>2. t # CR
        <5>1. a + 1 = A + 1 \/ a + 1 = A + 2 \/ a + 1 = A + 3 \/ a + 1 = A + 4
          BY <2>0, <4>1
        <5> QED BY <1>1, <2>3, <2>4, <3>1, <5>1
      <4>3. /\ x.h = "value" /\ x.headers = m.headers /\ x.keyStart = m.keyStart
            /\ x.keyEnd = m.keyEnd /\ x.line = m.line
        BY <1>5, <2>11, <4>2, InValue DEF x, t
      <4>4. Place(p, at, n, x, a + 1, i)
        BY <1>1, <2>3, <3>1, <4>1, <4>3 DEF Place, NoKey, A
      <4> QED BY <2>1, <2>2, <4>3, <4>4
    <3> QED BY <3>2, <3>3
  <2>12. CASE m.h = "cr"
    <3>1. /\ i <= n /\ a = A + 5 /\ p + m.line - 1 = K(i)
          /\ (NoKey(m) \/ (KeyRead(p, at, m, i) /\ ValueRead(p, at, m, i)))
      BY <2>1, <2>12 DEF Place, A
    <3> DEFINE key == Slice(s, m.keyStart, m.keyEnd)
               value == Slice(s, m.valueStart, m.valueEnd)
    <3>2. x.h = "lf" /\ x.headers = Store(m.headers, key, value) /\ x.line = j
      BY <1>5, <2>12, InCR DEF x
    <3>3. \/ \E q \in 1..Len(hs) : key = <<hs[q][1]>> /\ value = <<hs[q][2]>>
          \/ \A w : key # <<w>>
      <4>1. CASE NoKey(m)
        <5>1. m.keyStart \in Nat /\ m.keyEnd \in Nat /\ m.keyEnd <= Len(s) + 1
              /\ m.keyStart = 0 /\ m.keyEnd = 0
          BY <1>1, <4>1 DEF NoKey
        <5>2. \A w : key # <<w>>
          BY <5>1, SliceOdd
        <5> QED BY <5>2
      <4>2. CASE KeyRead(p, at, m, i) /\ ValueRead(p, at, m, i)
        <5> DEFINE b == m.keyStart
                   c == m.keyEnd
                   d == m.valueStart
                   e == m.valueEnd
        <5>1. /\ b \in Nat /\ c \in Nat /\ d \in Nat /\ e \in Nat /\ p + b <= A + 1
              /\ p + c = A + 2 /\ p + d = A + 4 /\ p + e = A + 5
          BY <4>2 DEF KeyRead, KeyFrom, ValueRead, ValueFrom, A
        <5>2. p <= A
          <6>1. K(i) <= A
            BY <2>3, <2>6, SMTT(60) DEF KeptFrom, A
          <6> HIDE DEF K
          <6>2. p <= K(i)
            BY <1>2, <1>1, <3>1, SMTT(60)
          <6>3. K(i) \in Nat
            BY <1>2, <1>1, <3>1, SMTT(60)
          <6> QED BY <2>3, <6>1, <6>2, <6>3
        <5> HIDE DEF b, c, d, e
        <5>3. c <= Len(s) /\ d + 1 = e /\ d \in 1..Len(s)
          BY <1>1, <2>3, <3>1, <5>1, <5>2, SMTT(60)
        <5>4. ASSUME b + 1 = c PROVE key = <<hs[i][1]>> /\ value = <<hs[i][2]>>
          <6>1. b \in 1..Len(s) /\ p + b = A + 1
            BY <1>1, <2>0, <5>1, <5>2, <5>3, <5>4
          <6>2. key = <<s[b]>> /\ value = <<s[d]>>
            BY <5>3, <5>4, <6>1, SliceExact DEF b, c, d, e
          <6>3. s[b] = F[p + b] /\ s[d] = F[p + d]
            BY <5>3, <6>1 DEF IsPart
          <6> QED BY <2>3, <3>1, <5>1, <6>1, <6>2, <6>3
        <5>5. ASSUME b + 1 # c PROVE \A w : key # <<w>>
          <6>1. b + 2 <= c /\ c <= Len(s) + 1
            BY <1>1, <2>0, <5>1, <5>3, <5>5
          <6>2. \A w : Slice(s, b, c) # <<w>>
            BY <5>1, <6>1, SliceOdd
          <6> QED BY <6>2 DEF b, c
        <5>6. i \in 1..Len(hs)
          BY <2>6, <3>1, <2>3 DEF n
        <5> QED BY <5>4, <5>5, <5>6
      <4> QED BY <3>1, <4>1, <4>2
    <3> HIDE DEF key, value
    <3>4. LengthsOf(hs, x.headers)
      BY <2>2, <3>2, <3>3, StoreLengths
    <3>5. i + 1 \in 1..(n + 1) /\ i + 1 # 1 /\ K(i + 1) = A + 5 /\ At(at, i + 1) = A + 6
      BY <2>3, <2>6, <3>1, SMTT(60) DEF KeptFrom
    <3>6. Place(p, at, n, x, a + 1, i + 1)
      BY <1>1, <2>3, <3>1, <3>2, <3>5 DEF Place
    <3> QED BY <3>4, <3>5, <3>6
  <2>13. CASE m.h = "lf"
    <3>1. i # 1 /\ a = A /\ p + m.line - 1 = K(i)
      BY <2>1, <2>13 DEF Place, A
    <3>2. CASE i = n + 1
      <4>1. t = CR
        BY <1>1, <2>3, <3>1, <3>2
      <4>2. x.h = "endcr" /\ x.headers = m.headers /\ x.line = m.line
        BY <1>5, <2>13, <4>1, InLF DEF x, t
      <4>3. Place(p, at, n, x, a + 1, i)
        BY <2>3, <3>1, <3>2, <4>2 DEF Place, A
      <4> QED BY <2>1, <2>2, <4>2, <4>3
    <3>3. CASE i # n + 1
      <4>1. i <= n
        BY <2>3, <2>6, <3>3
      <4>2. t = hs[i][1]
        BY <1>1, <2>3, <3>1, <4>1
      <4>3. x.h = "key" /\ x.headers = m.headers /\ x.keyStart = j /\ x.line = m.line
        BY <1>5, <2>3, <2>13, <4>1, <4>2, InLF, SMTT(60) DEF x, t
      <4>4. Place(p, at, n, x, a + 1, i)
        BY <1>1, <2>0, <3>1, <4>1, <4>3 DEF Place, KeyFrom, A
      <4> QED BY <2>1, <2>2, <4>3, <4>4
    <3> QED BY <3>2, <3>3
  <2>14. CASE m.h = "endcr"
    <3>1. i = n + 1 /\ a = A + 1
      BY <2>1, <2>14 DEF Place, A
    <3>2. x.h = "endlf" /\ x.headers = m.headers /\ x.body = j + 1
      BY <1>5, <2>14, InEndCR DEF x
    <3>3. Ended(p, at, n, x)
      BY <1>1, <2>3, <3>1, <3>2 DEF Ended, A
    <3> QED BY <2>2, <3>2, <3>3
  <2> QED BY <1>2, <1>5, <2>7, <2>8, <2>9, <2>10, <2>11, <2>12, <2>13, <2>14 DEF HStates
<1> QED BY <1>3, <1>4, <1>5

(* The locals when a scan begins.                                          *)
LEMMA LocalsInLoop ==
  ASSUME NEW n \in Nat, NEW h \in HStates, NEW map
  PROVE  LET m == Locals(h, map)
         IN  /\ InLoop(m, n) /\ m.h = h /\ m.headers = map /\ m.line = 1
             /\ m.keyStart = 0 /\ m.keyEnd = 0 /\ m.valueStart = 0 /\ m.valueEnd = 0
<1> DEFINE m == Locals(h, map)
<1>1. m = Loop(h, map, 0, 0, 0, 0, 1, 1)
  BY DEF Locals, Loop
<1>2. 1 \in 1..(n + 1)
  OBVIOUS
<1>3. InLoop(m, n)
  BY <1>1, <1>2, LoopIn
<1> HIDE DEF m
<1>4. /\ m.h = h /\ m.headers = map /\ m.line = 1
      /\ m.keyStart = 0 /\ m.keyEnd = 0 /\ m.valueStart = 0 /\ m.valueEnd = 0
  BY <1>1, LoopFields
<1> QED BY <1>3, <1>4 DEF m

(* The first byte is compared with the state that the scan before left,    *)
(* although it is the start of the line, or the LF before it.              *)
LEMMA FirstByte ==
  ASSUME NEW F, NEW s \in Texts, NEW at, NEW hs, Lines(F, at, hs), NEW p \in Nat,
         IsPart(s, F, p), 1 <= Len(s), NEW h \in HStates, Between(at, Len(hs), h, p),
         NEW map, LengthsOf(hs, map)
  PROVE  Good(p, at, hs, HeaderStep(Locals(h, map), s, 1), p + 1)
<1> DEFINE n == Len(hs)
           m == Locals(h, map)
           x == HeaderStep(m, s, 1)
           t == s[1]
           A(i) == At(at, i)
<1>1. Len(s) \in Nat /\ 1 \in 1..Len(s) /\ t = F[p + 1]
  BY DEF Texts, IsPart
<1>2. /\ InLoop(m, Len(s)) /\ m.h = h /\ m.headers = map /\ m.line = 1
      /\ m.keyStart = 0 /\ m.keyEnd = 0 /\ m.valueStart = 0 /\ m.valueEnd = 0
  BY <1>1, LocalsInLoop
<1>3. n \in Nat \ {0} /\ 1 \in 1..(n + 1) /\ n + 1 \in 1..(n + 1)
  BY DEF Lines
<1>4. ASSUME NEW i \in 1..(n + 1)
      PROVE  /\ A(i) \in Nat \ {0} /\ A(1) = at /\ F[A(i)] = LF
             /\ i <= n => F[A(i) + 1] = hs[i][1] /\ hs[i][1] \notin {CR, LF, Colon, Blank}
             /\ i = n + 1 => F[A(i) + 1] = CR
  BY LineTokensAt
<1>5. CR # LF /\ CR # Colon /\ CR # Blank /\ LF # Colon /\ LF # Blank
  BY DEF CR, LF, Colon, Blank
<1>6. SUFFICES ASSUME x.h # "error"
               PROVE  /\ LengthsOf(hs, x.headers)
                      /\ (Ended(p, at, n, x) \/ \E q \in 1..(n + 1) : Place(p, at, n, x, p + 1, q))
  BY DEF Good
<1> HIDE DEF n, x, A, t, m
<1>7. ASSUME NEW i \in 1..(n + 1), p = KeptFrom(at, i)
      PROVE  /\ i = 1 => p = A(i) /\ i <= n /\ t = hs[i][1] /\ t \notin {CR, LF, Colon, Blank}
             /\ i # 1 => p + 1 = A(i) /\ t = LF
             /\ p + 1 \in A(i)..(A(i) + 1)
  <2>1. i = 1 => p = at /\ i <= n
    BY <1>3, <1>7 DEF KeptFrom
  <2>2. i # 1 => p = A(i) - 1
    BY <1>7 DEF KeptFrom, A
  <2>3. A(i) \in Nat \ {0} /\ A(1) = at
    BY <1>4
  <2>4. i = 1 => p + 1 = A(i) + 1
    BY <2>1, <2>3
  <2>5. i # 1 => p + 1 = A(i)
    BY <2>2, <2>3
  <2> QED BY <1>1, <1>4, <2>1, <2>3, <2>4, <2>5
<1>8. CASE h = "start"
  <2>1. p = at - 1 /\ p + 1 = at
    <3>1. p = at - 1
      BY <1>8 DEF Between
    <3>2. at \in Nat
      BY DEF Lines
    <3> QED BY <3>1, <3>2
  <2>2. t = LF
    BY <1>1, <1>3, <1>4, <2>1
  <2>3. x.h = "start" /\ x.headers = map /\ x.line = 1
    BY <1>2, <1>6, <1>8, <2>2, InStart DEF x, t
  <2>4. Place(p, at, n, x, p + 1, 1)
    BY <2>1, <2>3 DEF Place
  <2> QED BY <1>3, <2>3, <2>4
<1>9. CASE h = "key"
  <2>1. PICK i \in 1..(n + 1) : p = KeptFrom(at, i)
    BY <1>9 DEF Between, n
  <2>2. /\ t \notin {Colon, CR, LF} /\ x.h = "key" /\ x.headers = map
        /\ x.keyStart = 0 /\ x.line = 1
    BY <1>2, <1>5, <1>6, <1>7, <1>9, <2>1, InKey DEF x, t
  <2>3. i = 1 /\ i <= n /\ p = A(i) /\ A(i) \in Nat
    BY <1>4, <1>7, <2>1, <2>2
  <2>4. KeyFrom(p, at, x, i)
    BY <2>2, <2>3 DEF KeyFrom, A
  <2>5. Place(p, at, n, x, p + 1, i)
    BY <1>3, <2>1, <2>2, <2>3, <2>4 DEF Place, A
  <2> QED BY <2>2, <2>5
<1>10. CASE h = "colon"
  <2>1. PICK i \in 1..(n + 1) : p = KeptFrom(at, i)
    BY <1>3, <1>10 DEF Between, n
  <2>2. t = Blank
    BY <1>2, <1>6, <1>10, InColon DEF x, t
  <2> QED BY <1>5, <1>7, <2>1, <2>2
<1>11. CASE h \in {"spaces", "value"}
  <2>1. PICK i \in 1..n : p = KeptFrom(at, i)
    BY <1>11 DEF Between, n
  <2>2. i \in 1..(n + 1) /\ i <= n
    BY <1>3
  <2>3. t # CR
    BY <1>5, <1>7, <2>1, <2>2
  <2>4. /\ x.h = "value" /\ x.headers = map /\ x.line = 1
        /\ x.keyStart = 0 /\ x.keyEnd = 0
    <3>1. CASE h = "spaces"
      BY <1>2, <1>6, <3>1, InSpaces DEF x
    <3>2. CASE h = "value"
      BY <1>2, <1>6, <2>3, <3>2, InValue DEF x, t
    <3> QED BY <1>11, <3>1, <3>2
  <2>5. A(i) \in Nat /\ p + 1 \in A(i)..(A(i) + 4)
    <3>1. A(i) \in Nat /\ p + 1 \in A(i)..(A(i) + 1)
      BY <1>4, <1>7, <2>1, <2>2
    <3> QED BY <3>1
  <2>6. Place(p, at, n, x, p + 1, i)
    BY <2>1, <2>2, <2>4, <2>5 DEF Place, NoKey, A
  <2> QED BY <2>2, <2>4, <2>6
<1>12. CASE h = "cr"
  <2>1. PICK i \in 1..n : p = KeptFrom(at, i)
    BY <1>12 DEF Between, n
  <2>2. i \in 1..(n + 1) /\ i <= n
    BY <1>3
  <2> DEFINE key == Slice(s, 0, 0)
             value == Slice(s, m.valueStart, m.valueEnd)
  <2>3. t = LF /\ x.h = "lf" /\ x.headers = Store(map, key, value) /\ x.line = 1
    BY <1>2, <1>6, <1>12, InCR DEF x, t
  <2>4. i # 1 /\ p + 1 = A(i)
    BY <1>5, <1>7, <2>1, <2>2, <2>3
  <2>5. \A w : key # <<w>>
    <3>1. 0 \in Nat /\ 0 <= Len(s) + 1
      BY <1>1
    <3> QED BY <3>1, SliceOdd
  <2> HIDE DEF key, value
  <2>6. LengthsOf(hs, x.headers)
    BY <2>3, <2>5, StoreLengths
  <2>7. Place(p, at, n, x, p + 1, i)
    BY <2>1, <2>3, <2>4 DEF Place, A
  <2> QED BY <2>2, <2>6, <2>7
<1>13. CASE h = "lf"
  <2>1. PICK i \in 2..(n + 1) : p = KeptFrom(at, i)
    BY <1>13 DEF Between, n
  <2>2. i \in 1..(n + 1) /\ i # 1
    BY <1>3
  <2>3. p + 1 = A(i) /\ t = LF /\ A(i) \in Nat
    BY <1>4, <1>7, <2>1, <2>2
  <2>4. x.h = "key" /\ x.headers = map /\ x.keyStart = 1 /\ x.line = 1
    BY <1>2, <1>5, <1>6, <1>13, <2>3, InLF DEF x, t
  <2>5. KeyFrom(p, at, x, i)
    BY <2>3, <2>4 DEF KeyFrom, A
  <2>6. Place(p, at, n, x, p + 1, i)
    BY <2>1, <2>3, <2>4, <2>5 DEF Place, A
  <2> QED BY <2>2, <2>4, <2>6
<1>14. CASE h = "endcr"
  <2>1. p = KeptFrom(at, n + 1) /\ n + 1 # 1
    BY <1>3, <1>14 DEF Between, n
  <2>2. p + 1 = A(n + 1)
    BY <1>3, <1>7, <2>1
  <2>3. x.h = "endlf" /\ x.headers = map /\ x.body = 2
    BY <1>2, <1>6, <1>14, InEndCR DEF x
  <2>4. Ended(p, at, n, x)
    BY <2>2, <2>3 DEF Ended, A
  <2> QED BY <2>3, <2>4
<1>15. h \notin {"endlf", "error"}
  BY DEF Between
<1> QED BY <1>8, <1>9, <1>10, <1>11, <1>12, <1>13, <1>14, <1>15 DEF HStates

(* A scan that stops at a place leaves the text where another can begin.   *)
LEMMA PlaceBetween ==
  ASSUME NEW at \in Nat \ {0}, NEW n \in Nat \ {0}, NEW p \in Nat, NEW a \in Nat,
         NEW m, m.line \in Nat, m.h # "error", NEW i \in 1..(n + 1), Place(p, at, n, m, a, i)
  PROVE  /\ m.h # "endlf" /\ Between(at, n, m.h, p + m.line - 1)
         /\ a < At(at, n + 1) + 2
<1> DEFINE l == m.line
           q == p + l - 1
           A == At(at, i)
           B == At(at, n + 1)
           K(k) == KeptFrom(at, k)
<1>1. i \in Nat /\ 1 <= i /\ i <= n + 1 /\ i - 1 \in Nat /\ i - 1 <= n
  OBVIOUS
<1>2. A = at + 6 * (i - 1) /\ B = at + 6 * n
  BY DEF At
<1>3. /\ A \in Nat /\ B \in Nat /\ at <= B
      /\ i <= n => A + 6 <= B
      /\ i = n + 1 => A = B
  BY <1>1, <1>2
<1> HIDE DEF A, B, K, l
<1>4. l \in Nat
  BY DEF l
<1>5. m.h # "endlf" /\ Between(at, n, m.h, q)
  <2>1. CASE m.h = "start"
    <3>1. q = at - 1
      BY <1>4, <2>1 DEF Place, l
    <3> QED BY <2>1, <3>1 DEF Between
  <2>2. CASE m.h # "start"
    <3>1. q = K(i)
      BY <2>2 DEF Place, l, K
    <3> HIDE DEF q
    <3>2. CASE m.h = "key"
      BY <3>1, <3>2 DEF Between, K
    <3>3. CASE m.h \in {"colon", "spaces", "value", "cr"}
      <4>1. i \in 1..n
        BY <1>1, <3>3 DEF Place
      <4> QED BY <3>1, <3>3, <4>1 DEF Between, K
    <3>4. CASE m.h = "lf"
      <4>1. i \in 2..(n + 1)
        BY <1>1, <3>4 DEF Place
      <4> QED BY <3>1, <3>4, <4>1 DEF Between, K
    <3>5. CASE m.h = "endcr"
      <4>1. i = n + 1
        BY <3>5 DEF Place
      <4> QED BY <3>1, <3>5, <4>1 DEF Between, K
    <3> QED BY <2>2, <3>2, <3>3, <3>4, <3>5 DEF Place
  <2> QED BY <2>1, <2>2
<1>6. \/ a = at
      \/ i <= n /\ a \in A..(A + 5)
      \/ i = n + 1 /\ a \in A..(A + 1)
  <2>1. \/ a = at
        \/ a \in A..(A + 1) /\ (i = n + 1 => a = A)
        \/ i <= n /\ a = A + 2
        \/ i <= n /\ a = A + 3
        \/ i <= n /\ a \in A..(A + 4)
        \/ i <= n /\ a = A + 5
        \/ a = A
        \/ i = n + 1 /\ a = A + 1
    BY DEF Place, A
  <2> QED BY <1>1, <1>3, <2>1
<1>7. a < B + 2
  BY <1>3, <1>6
<1> QED BY <1>5, <1>7 DEF B, l

(* And that is before the end of the headers.                              *)
LEMMA BetweenBounds ==
  ASSUME NEW at \in Nat \ {0}, NEW n \in Nat \ {0}, NEW h, NEW p, Between(at, n, h, p)
  PROVE  /\ p \in Nat /\ p < At(at, n + 1) + 2
         /\ h \in HStates /\ h \notin {"error", "endlf"}
<1>1. p = at - 1 \/ \E i \in 1..(n + 1) : p = KeptFrom(at, i)
  <2>1. 1..n \subseteq 1..(n + 1) /\ 2..(n + 1) \subseteq 1..(n + 1) /\ n + 1 \in 1..(n + 1)
    OBVIOUS
  <2> QED BY <2>1 DEF Between
<1>2. p \in Nat /\ p <= At(at, n + 1)
  <2>1. CASE p = at - 1
    BY <2>1 DEF At
  <2>2. ASSUME NEW i \in 1..(n + 1), p = KeptFrom(at, i)
        PROVE  p \in Nat /\ p <= At(at, n + 1)
    <3>1. i \in Nat /\ 1 <= i /\ i <= n + 1
      OBVIOUS
    <3> QED BY <2>2, <3>1 DEF KeptFrom, At
  <2> QED BY <1>1, <2>1, <2>2
<1>3. At(at, n + 1) \in Nat
  BY DEF At
<1> QED BY <1>2, <1>3 DEF Between, HStates

(* The end of a scan of `len` bytes without an error.                      *)
ScanEnds(p, at, hs, len, m) ==
  LET last == At(at, Len(hs) + 1)
  IN  /\ LengthsOf(hs, m.headers)
      /\ m.h = "endlf" => p + m.body - 1 = last + 2 \/ p + m.body - 1 = last
      /\ m.h # "endlf" => Between(at, Len(hs), m.h, p + m.line - 1) /\ p + len < last + 2

(* However often and wherever the headers are cut: a scan refuses them, or *)
(* ends behind them, or keeps a piece of them, and it keeps nothing once   *)
(* it has seen their last byte.                                            *)
LEMMA ScanLocated ==
  ASSUME NEW F, NEW s \in Texts, NEW at, NEW hs, Lines(F, at, hs), NEW p,
         IsPart(s, F, p), NEW h, Between(at, Len(hs), h, p),
         NEW map, LengthsOf(hs, map)
  PROVE  Scan(s, h, map).h # "error" => ScanEnds(p, at, hs, Len(s), Scan(s, h, map))
<1> DEFINE n == Len(hs)
           B == At(at, n + 1) + 2
<1>1. at \in Nat \ {0} /\ n \in Nat \ {0} /\ Len(s) \in Nat /\ B \in Nat /\ B = At(at, n + 1) + 2
  BY DEF Lines, Texts, At
<1>2. p \in Nat /\ p < B /\ h \in HStates /\ h \notin {"error", "endlf"}
  BY <1>1, BetweenBounds
<1>3. PICK m : m[0] = Locals(h, map) /\ Runs(m, s) /\ Scan(s, h, map) = m[Len(s)]
  BY ScanFunction
<1> DEFINE last == m[Len(s)]
<1>4. last.line \in 1..(Len(s) + 1)
  BY <1>2, <1>3, ScanInLoop
<1> SUFFICES ASSUME last.h # "error"
             PROVE  /\ LengthsOf(hs, last.headers)
                    /\ last.h = "endlf" => p + last.body - 1 = B \/ p + last.body - 1 = At(at, n + 1)
                    /\ last.h # "endlf" => /\ Between(at, n, last.h, p + last.line - 1)
                                           /\ p + Len(s) < B
  BY <1>3 DEF ScanEnds
<1>5. CASE Len(s) = 0
  <2>1. last.h = h /\ last.headers = map /\ last.line = 1
    BY <1>2, <1>3, <1>5, LocalsInLoop
  <2>2. p + last.line - 1 = p /\ p + Len(s) = p
    BY <1>2, <1>5, <2>1
  <2> HIDE DEF last, B
  <2> QED BY <1>2, <2>1, <2>2
<1>6. CASE Len(s) # 0
  <2> DEFINE G(k) == InLoop(m[k], Len(s)) /\ Good(p, at, hs, m[k], p + k)
             P == {k \in Nat : k # 0 /\ k <= Len(s) => G(k)}
  <2>1. G(1)
    <3>1. 1 \in 1..Len(s) /\ 1 <= Len(s) /\ 1 - 1 = 0
      BY <1>1, <1>6
    <3>2. m[1] = HeaderStep(m[0], s, 1)
      BY <1>3, <3>1 DEF Runs
    <3>3. InLoop(m[0], Len(s))
      BY <1>1, <1>2, <1>3, LocalsInLoop
    <3>4. InLoop(m[1], Len(s))
      BY <1>1, <3>1, <3>2, <3>3, StepInLoop
    <3>5. Good(p, at, hs, m[1], p + 1)
      BY <1>2, <1>3, <3>1, <3>2, FirstByte
    <3> QED BY <3>4, <3>5
  <2>2. 0 \in P
    OBVIOUS
  <2>3. ASSUME NEW k \in P PROVE k + 1 \in P
    <3>1. k \in Nat
      OBVIOUS
    <3>2. SUFFICES ASSUME k + 1 <= Len(s) PROVE G(k + 1)
      BY <3>1
    <3>3. CASE k = 0
      BY <2>1, <3>3
    <3>4. CASE k # 0
      <4>1. k <= Len(s) /\ k + 1 \in 1..Len(s) /\ (k + 1) - 1 = k /\ p + (k + 1) - 1 = p + k
        BY <1>1, <1>2, <3>1, <3>2
      <4>2. InLoop(m[k], Len(s)) /\ Good(p, at, hs, m[k], p + k)
        BY <3>4, <4>1
      <4>3. m[k + 1] = HeaderStep(m[k], s, k + 1)
        BY <1>3, <4>1 DEF Runs
      <4>4. InLoop(m[k + 1], Len(s))
        BY <1>1, <4>1, <4>2, <4>3, StepInLoop
      <4>5. Good(p, at, hs, m[k], p + (k + 1) - 1)
        BY <4>1, <4>2
      <4> HIDE DEF G, P
      <4> DEFINE j == k + 1
      <4> HIDE DEF j
      <4>6. j \in 1..Len(s) /\ Good(p, at, hs, m[k], p + j - 1)
        BY <4>1, <4>5 DEF j
      <4>7. Good(p, at, hs, HeaderStep(m[k], s, j), p + j)
        BY <1>2, <4>2, <4>6, NextByte
      <4> QED BY <4>3, <4>4, <4>7 DEF G, j
    <3> QED BY <3>3, <3>4
  <2> HIDE DEF P
  <2>4. P = Nat
    BY <2>2, <2>3, InductionOverSet DEF P
  <2>5. Good(p, at, hs, last, p + Len(s))
    BY <1>1, <1>6, <2>4 DEF P
  <2> HIDE DEF last
  <2>6. LengthsOf(hs, last.headers)
    BY <2>5 DEF Good
  <2>7. CASE Ended(p, at, n, last)
    <3>1. last.h = "endlf" /\ p + last.body - 1 \in {At(at, n + 1) + 2, At(at, n + 1)}
      BY <2>7 DEF Ended
    <3>2. B - 2 = At(at, n + 1)
      BY <1>1 DEF At
    <3> QED BY <2>6, <3>1, <3>2
  <2>8. ASSUME NEW i \in 1..(n + 1), Place(p, at, n, last, p + Len(s), i)
        PROVE  last.h # "endlf" /\ Between(at, n, last.h, p + last.line - 1) /\ p + Len(s) < B
    <3>1. p + Len(s) \in Nat /\ last.line \in Nat
      BY <1>1, <1>2, <1>4
    <3> HIDE DEF n
    <3> QED BY <1>1, <1>2, <2>8, <3>1, PlaceBetween
  <2> QED BY <2>5, <2>6, <2>7, <2>8 DEF Good
<1> QED BY <1>5, <1>6

----------------------------------------------------------------------------
(***************************************************************************)
(* What is left of a request when the next begins.                         *)
(***************************************************************************)

(* What can be left over of a request that has been dealt with: the last   *)
(* two tokens of its text.                                                 *)
LEMMA EndOfText ==
  ASSUME NEW rs, AllWellFormed(rs), NEW j \in 1..Len(rs)
  PROVE  LET F == TextOf(rs)
             e == Before(rs, j + 1)
         IN  /\ e \in Nat /\ 2 <= e /\ e <= Len(F)
             /\ F[e] # CR /\ F[e] \notin Methods /\ F[e - 1] \notin Methods
<1> DEFINE F == TextOf(rs)
           r == rs[j]
           H == HeadersText(r)
           m == Len(H)
           h == HeadersAt(rs, j)
           p == BodyAt(rs, j)
           n == Len(r.body)
           e == Before(rs, j + 1)
           b == r.body
<1>1. WellFormed(r)
  BY DEF AllWellFormed
<1>2. /\ h \in Nat /\ p \in Nat /\ e \in Nat /\ n \in Nat
      /\ p = h + m /\ e = p + n /\ e <= Len(F)
  BY Positions
<1>3. IsPart(H, F, h) /\ IsPart(b, F, p)
  BY Positions
<1>4. /\ \A k \in 1..m : F[h + k] = H[k]
      /\ \A k \in 1..n : F[p + k] = b[k]
  <2>1. Len(H) = m /\ Len(b) = n
    OBVIOUS
  <2> HIDE DEF F, r, H, h, p, b, m, n
  <2> QED BY <1>3, <2>1 DEF IsPart
<1>5. H \in Texts /\ 2 <= m /\ H[m - 1] = CR /\ H[m] = LF
  BY <1>1, HeadersLayout
<1>6. m \in Nat
  BY <1>5 DEF Texts
<1>7. \A k \in 1..n : b[k] \in Words
  BY <1>1 DEF WellFormed
<1>8. \A w \in Words \cup {LF} : w # CR /\ w \notin Methods
  BY TokensDiffer DEF Separators
<1>9. CR \notin Methods
  BY TokensDiffer DEF Separators
<1> HIDE DEF F, r, H, m, h, p, n, e, b
<1>10. F[p] = LF /\ F[p - 1] = CR
  <2>1. m \in 1..m /\ m - 1 \in 1..m /\ h + m = p /\ h + (m - 1) = p - 1
    BY <1>2, <1>5, <1>6
  <2> QED BY <1>4, <1>5, <2>1
<1>11. F[e] \in Words \cup {LF} /\ F[e - 1] \in Words \cup {LF, CR}
  <2>1. CASE n = 0
    <3>1. e = p
      BY <1>2, <2>1
    <3> QED BY <1>10, <3>1
  <2>2. CASE n = 1
    <3>1. e = p + 1 /\ e - 1 = p /\ 1 \in 1..n
      BY <1>2, <2>2
    <3> QED BY <1>4, <1>7, <1>10, <3>1
  <2>3. CASE n # 0 /\ n # 1
    <3>1. e = p + n /\ e - 1 = p + (n - 1) /\ n \in 1..n /\ n - 1 \in 1..n
      BY <1>2, <2>3
    <3> QED BY <1>4, <1>7, <3>1
  <2> QED BY <2>1, <2>2, <2>3
<1>12. 2 <= e
  BY <1>2, <1>5, <1>6
<1> QED BY <1>2, <1>8, <1>9, <1>11, <1>12 DEF F, e

(* The lines of the headers of a request that is understood.               *)
LEMMA LinesOfRequest ==
  ASSUME Base, Current \in 1..Len(requests), Understood(requests[Current])
  PROVE  LET r == requests[Current]
             h == HeadersAt(requests, Current)
         IN  /\ Lines(Stream, h, r.headers)
             /\ BodyAt(requests, Current) = At(h, Len(r.headers) + 1) + 2
<1> DEFINE c == Current
           r == requests[c]
           hs == r.headers
           n == Len(hs)
           h == HeadersAt(requests, c)
           F == Stream
           t == HeadersText(r)
<1>1. /\ WellFormed(r) /\ h \in Nat /\ F[h] = LF /\ 4 <= h
      /\ BodyAt(requests, c) = h + Len(t)
  BY AtRequest, SMTT(60)
<1>2. \A k \in 1..Len(t) : F[h + k] = t[k]
  BY AtRequest
<1>3. DOMAIN hs = 1..n /\ n \in Nat /\ HaveValues(hs) /\ hs # <<>>
      /\ hs \in Seq(Words \X (Words \cup {NoValue}))
  BY <1>1 DEF WellFormed, Understood, HaveValues
<1>4. hs \in Seq(Words \X Words)
  <2>1. \A i \in 1..n : hs[i] \in Words \X Words
    BY <1>3 DEF HaveValues
  <2> HIDE DEF hs
  <2> QED BY <1>3, <2>1
<1>5. /\ t \in Texts /\ Len(t) = 6 * n + 2 /\ t[Len(t) - 1] = CR /\ t[Len(t)] = LF
      /\ \A i \in 1..n : IsLine(t, 6 * (i - 1), hs[i])
  BY <1>1, <1>3, HeadersLayout
<1> HIDE DEF hs, n, h, F, t, r, c
<1>6. ASSUME NEW i \in 1..n PROVE IsLine(F, At(h, i), hs[i])
  <2> DEFINE d == 6 * (i - 1)
  <2>1. IsLine(t, d, hs[i])
    BY <1>5
  <2>2. At(h, i) = h + d /\ d \in Nat /\ d + 6 <= Len(t)
    BY <1>1, <1>3, <1>5 DEF At
  <2> HIDE DEF d
  <2>3. \A x \in 1..6 : F[At(h, i) + x] = t[d + x]
    <3>1. SUFFICES ASSUME NEW x \in 1..6 PROVE F[At(h, i) + x] = t[d + x]
      OBVIOUS
    <3>2. d + x \in 1..Len(t) /\ At(h, i) + x = h + (d + x)
      BY <1>1, <1>3, <1>5, <2>2
    <3> QED BY <1>2, <3>2
  <2>4. \A x \in {1, 2, 3, 4, 5, 6} : x \in 1..6
    OBVIOUS
  <2> QED BY <2>1, <2>3, <2>4 DEF IsLine
<1>7. ASSUME NEW i \in 1..(n + 1) PROVE F[At(h, i)] = LF
  <2>1. CASE i = 1
    <3>1. At(h, 1) = h
      BY <1>1 DEF At
    <3> QED BY <1>1, <2>1, <3>1
  <2>2. CASE i # 1
    <3>1. i - 1 \in 1..n /\ At(h, i) = At(h, i - 1) + 6
      BY <1>1, <1>3, <2>2 DEF At
    <3>2. IsLine(F, At(h, i - 1), hs[i - 1])
      BY <1>6, <3>1
    <3> QED BY <3>1, <3>2 DEF IsLine
  <2> QED BY <2>1, <2>2
<1>8. F[At(h, n + 1) + 1] = CR /\ F[At(h, n + 1) + 2] = LF /\ h + Len(t) = At(h, n + 1) + 2
  <2>1. At(h, n + 1) = h + 6 * n
    BY <1>1, <1>3 DEF At
  <2>2. /\ Len(t) - 1 \in 1..Len(t) /\ Len(t) \in 1..Len(t)
        /\ h + (Len(t) - 1) = (h + 6 * n) + 1 /\ h + Len(t) = (h + 6 * n) + 2
    BY <1>1, <1>3, <1>5
  <2> QED BY <1>2, <1>5, <2>1, <2>2
<1>9. h \in Nat \ {0}
  BY <1>1
<1>10. Lines(F, h, hs)
  BY <1>3, <1>4, <1>6, <1>7, <1>8, <1>9 DEF n, Lines
<1> QED BY <1>1, <1>8, <1>10 DEF hs, n, h, F, t, r, c

(* A stored content-length is the length of the body.                      *)
LEMMA LengthKept ==
  ASSUME NEW r, WellFormed(r), Understood(r), NEW map, LengthsOf(r.headers, map),
         HasLength(map)
  PROVE  ContentLength(map) = Len(r.body)
<1> DEFINE hs == r.headers
           K == "content-length"
           v == map[<<K>>]
           zero == "0"
           one == "1"
           two == "2"
<1>1. <<K>> \in DOMAIN map /\ v \in {<<zero>>, <<one>>, <<two>>}
  BY DEF HasLength
<1>2. PICK i \in 1..Len(hs) : hs[i][1] = K /\ v = <<hs[i][2]>>
  BY <1>1 DEF LengthsOf
<1>3. i \in DOMAIN hs
  BY DEF WellFormed
<1>4. hs[i][2] # NoValue
  BY <1>3 DEF Understood
<1>5. PICK k \in 0..2 : hs[i][2] = <<"0", "1", "2">>[k + 1] /\ Len(r.body) = k
  BY <1>2, <1>3, <1>4 DEF WellFormed
<1>6. \/ hs[i][2] = zero /\ Len(r.body) = 0
      \/ hs[i][2] = one /\ Len(r.body) = 1
      \/ hs[i][2] = two /\ Len(r.body) = 2
  <2>1. k = 0 \/ k = 1 \/ k = 2
    OBVIOUS
  <2> QED BY <1>5, <2>1
<1>7. ContentLength(map) = CASE v = <<zero>> -> 0 [] v = <<one>> -> 1 [] v = <<two>> -> 2
  BY DEF ContentLength, Number
<1>8. zero # one /\ one # two /\ zero # two
  OBVIOUS
<1> HIDE DEF hs, K, v, zero, one, two
<1>9. <<zero>> # <<one>> /\ <<one>> # <<two>> /\ <<zero>> # <<two>>
  BY <1>8
<1> QED BY <1>2, <1>6, <1>7, <1>9

----------------------------------------------------------------------------
(***************************************************************************)
(* Requests that are understood do not wait in vain.                       *)
(***************************************************************************)

AllUnderstood == \A j \in 1..Len(requests) : Understood(requests[j])

(* Where the parser is in the request it is at, wherever the text is cut:  *)
(* it is mistaken by at most the two tokens that close the headers.        *)
Reading(r) ==
  /\ method = r.method /\ fileName = FileName(r) /\ LengthsOf(r.headers, headers)
  /\ state = "headers" =>
       Between(HeadersAt(requests, Current), Len(r.headers), hState, Taken)
  /\ state \in {"body", "analysis"} =>
       Taken \in {BodyAt(requests, Current), BodyAt(requests, Current) - 2}

(* The request at hand begins at the front of the buffer or two tokens     *)
(* later, and between events there is text to come unless all are answered.*)
Located ==
  /\ Current \in 1..(Len(requests) + 1)
  /\ state = "uri" => \/ Taken = Before(requests, Current)
                      \/ Current # 1 /\ Taken = Before(requests, Current) - 2
  /\ state # "uri" => Current \in 1..Len(requests) /\ Reading(requests[Current])
  /\ pc = "idle" /\ Current # Len(requests) + 1 => sent # <<>>

(* Whatever the headers stored, the answers are to the requests in turn.   *)
InTurn ==
  \A i \in 1..Len(answers) : i \in 1..Len(requests) /\ AnswerTo(requests[i], answers[i])

(* The inductive invariant of NeverWaitsInVain.                            *)
Progress == Base /\ (AllUnderstood => InTurn) /\ (AllUnderstood /\ ~error => Located)

(* What has not arrived is still to come.                                  *)
LEMMA MoreToCome ==
  ASSUME Base, Arrived < Len(Stream) PROVE sent # <<>>
<1>1. Len(Stream) \in Nat /\ Len(sent) \in Nat
  BY Lengths DEF Base
<1>2. Len(sent) # 0
  BY <1>1 DEF Arrived
<1>3. Len(<<>>) = 0
  OBVIOUS
<1> QED BY <1>2, <1>3

LEMMA LocatedInit == ASSUME Init PROVE Progress
<1>1. Base
  BY BaseInit
<1>2. /\ Len(requests) \in Nat \ {0} /\ Current = 1 /\ state = "uri"
      /\ Taken = 0 /\ Arrived = 0 /\ Before(requests, 1) = 0
  BY AtFirst
<1>3. Arrived < Len(Stream)
  <2>1. 1 \in 1..Len(requests)
    BY <1>2
  <2>2. /\ BlankAt(requests[1]) \in Nat /\ BodyAt(requests, 1) <= Len(Stream)
        /\ HeadersAt(requests, 1) = Before(requests, 1) + BlankAt(requests[1]) + 5
        /\ BodyAt(requests, 1) = HeadersAt(requests, 1) + Len(HeadersText(requests[1]))
        /\ Len(HeadersText(requests[1])) \in Nat /\ Len(Stream) \in Nat
    BY <1>1, <1>2, <2>1, AtRequest, Lengths DEF Base
  <2> QED BY <1>2, <2>2
<1>4. sent # <<>>
  BY <1>1, <1>3, MoreToCome
<1>5. Current \in 1..(Len(requests) + 1)
  BY <1>2
<1>6. Located
  BY <1>2, <1>4, <1>5 DEF Located
<1>7. InTurn
  BY DEF Init, InTurn
<1> QED BY <1>1, <1>6, <1>7 DEF Progress

(* A read parses nothing.                                                  *)
LEMMA LocatedRead ==
  ASSUME Base, Located, Read PROVE Located'
<1>1. /\ UNCHANGED <<requests, state, hState, method, fileName, headers, answers>>
      /\ pc' = "parse"
  BY DEF Read, lineVars
<1>2. Taken' = Taken
  BY BaseRead
<1> QED BY <1>1, <1>2 DEF Located, Reading, Current

(* Two tokens that precede a request change nothing for its request line,  *)
(* unless they are the CR LF of its predecessor, which parseURI refuses.   *)
LEMMA LocatedParseURI ==
  ASSUME Base, AllUnderstood, Located, ParseURI, ~error' PROVE Located'
<1> DEFINE c == Current
           r == requests[c]
           z == BlankAt(r)
           cr == Find(inBuffer, CR, 1)
           line == SubSeq(inBuffer, 1, cr - 1)
           junk == Before(requests, c) - Taken
<1>1. /\ pc = "parse" /\ state = "uri" /\ UNCHANGED <<requests, sent, answers, hState, headers>>
      /\ hState = "start" /\ headers = <<>> /\ Current' = Current
  BY DEF ParseURI, Again, Refuse, Base, Stages, Current, peerVars
<1>2. Base'
  BY BaseParseURI
<1>3. /\ inBuffer \in Texts /\ Len(inBuffer) \in Nat /\ IsPart(inBuffer, Stream, Taken)
      /\ Len(Stream) \in Nat /\ Taken \in Nat /\ Len(requests) \in Nat
      /\ Arrived = Taken + Len(inBuffer) /\ AllWellFormed(requests)
      /\ Stream = TextOf(requests)
  BY Lengths DEF Base, Shape, InOrder, Taken, Stream
<1>4. /\ c \in 1..(Len(requests) + 1)
      /\ \/ Taken = Before(requests, c)
         \/ c # 1 /\ Taken = Before(requests, c) - 2
  BY <1>1 DEF Located
<1>5. /\ c = Len(requests) + 1 => Before(requests, c) = Len(Stream)
      /\ Before(requests, c) \in Nat
      /\ c # 1 => /\ 2 <= Before(requests, c)
                  /\ Stream[Before(requests, c)] # CR
                  /\ Stream[Before(requests, c)] \notin Methods
                  /\ Stream[Before(requests, c) - 1] \notin Methods
  <2>1. c = Len(requests) + 1 => Before(requests, c) = Len(Stream)
    BY EndOfRequests
  <2>2. c # 1 => /\ Before(requests, c) \in Nat
                 /\ 2 <= Before(requests, c)
                 /\ Stream[Before(requests, c)] # CR
                 /\ Stream[Before(requests, c)] \notin Methods
                 /\ Stream[Before(requests, c) - 1] \notin Methods
    <3>1. SUFFICES ASSUME c # 1
                   PROVE  /\ Before(requests, c) \in Nat
                          /\ 2 <= Before(requests, c)
                          /\ Stream[Before(requests, c)] # CR
                          /\ Stream[Before(requests, c)] \notin Methods
                          /\ Stream[Before(requests, c) - 1] \notin Methods
      OBVIOUS
    <3> DEFINE j == c - 1
    <3>2. j \in 1..Len(requests) /\ j + 1 = c
      BY <1>3, <1>4, <3>1
    <3> HIDE DEF j, c
    <3> QED BY <1>3, <3>2, EndOfText
  <2>3. c = 1 => Before(requests, c) \in Nat
    BY <1>1, <1>4 , <1>3
  <2> QED BY <2>1, <2>2, <2>3
<1>6. /\ junk \in Nat /\ (junk = 0 \/ junk = 2) /\ Taken + junk = Before(requests, c)
      /\ junk # 0 => c # 1
  BY <1>3, <1>4, <1>5, SMTT(60)
<1> HIDE DEF junk
(* What precedes the request line.                                         *)
<1>7. ASSUME NEW k \in 1..Len(inBuffer), k <= junk
      PROVE  /\ inBuffer[k] \notin Methods
             /\ k # 1 => inBuffer[k] # CR
  <2>1. junk = 2 /\ c # 1 /\ (k = 1 \/ k = 2)
    BY <1>6, <1>7
  <2>2. inBuffer[k] = Stream[Taken + k]
    BY <1>3 DEF IsPart
  <2>3. /\ k = 1 => Taken + k = Before(requests, c) - 1
        /\ k = 2 => Taken + k = Before(requests, c)
    BY <1>3, <1>5, <1>6, <2>1
  <2> QED BY <1>5, <2>1, <2>2, <2>3
<1>8. ASSUME cr = 1 PROVE FALSE
  <2>1. line = <<>>
    BY <1>3, <1>8 DEF Texts
  <2>2. \A w : Find(<<>>, w, 1) = 0
    <3>1. \A w : \A k \in 1..Len(<<>>) : <<>>[k] # w
      OBVIOUS
    <3> QED BY <3>1, FindNone
  <2>3. MethodsIn(line) = {}
    BY <2>1, <2>2 DEF MethodsIn
  <2> QED BY <1>8, <2>3 DEF ParseURI, Refuse
<1>9. ASSUME Len(inBuffer) <= junk PROVE cr = 0
  <2>1. \A k \in 1..Len(inBuffer) : k <= junk
    BY <1>3, <1>6, <1>9
  <2>2. 1 \in 1..Len(inBuffer) => inBuffer[1] # CR
    <3>1. SUFFICES ASSUME 1 \in 1..Len(inBuffer), inBuffer[1] = CR PROVE FALSE
      OBVIOUS
    <3>2. \A i \in 1..(1 - 1) : inBuffer[i] # CR
      OBVIOUS
    <3>3. Find(inBuffer, CR, 1) = 1
      BY <1>3, <3>1, <3>2, FindFirst
    <3> QED BY <1>8, <3>3
  <2>3. \A k \in 1..Len(inBuffer) : inBuffer[k] # CR
    BY <1>7, <2>1, <2>2
  <2> QED BY <2>3, FindNone
<1>10. ASSUME c \in 1..Len(requests), cr # 1
       PROVE  /\ WellFormed(r) /\ z \in Nat /\ 4 <= z
              /\ HeadersAt(requests, c) = Taken + junk + z + 5
              /\ HeadersAt(requests, c) <= Len(Stream) /\ HeadersAt(requests, c) \in Nat
              /\ Len(inBuffer) < junk + z + 4 => cr = 0
              /\ junk + z + 4 <= Len(inBuffer) =>
                   /\ cr = junk + z + 4 /\ MethodIn(line) = r.method
                   /\ Find(line, Slash, Find(line, MethodIn(line), 1)) # 0
                   /\ NameIn(line, Find(line, Slash, Find(line, MethodIn(line), 1)),
                             Find(line, Blank, Find(line, Slash, Find(line, MethodIn(line), 1))))
                        = FileName(r)
  <2>1. /\ WellFormed(r) /\ z \in Nat /\ 4 <= z
        /\ \A k \in 1..(z + 5) : Stream[Before(requests, c) + k] = LineText(r)[k]
        /\ HeadersAt(requests, c) = Before(requests, c) + z + 5
        /\ HeadersAt(requests, c) \in Nat /\ Len(HeadersText(r)) \in Nat
        /\ BodyAt(requests, c) = HeadersAt(requests, c) + Len(HeadersText(r))
        /\ BodyAt(requests, c) <= Len(Stream)
    BY <1>10, AtRequest
  <2>2. ASSUME NEW k \in 1..Len(inBuffer), 1 <= junk PROVE inBuffer[1] # CR
    <3>1. 1 \in 1..Len(inBuffer)
      BY <1>3
    <3>2. inBuffer[1] = CR => cr = 1
      <4>1. \A i \in 1..(1 - 1) : inBuffer[i] # CR
        OBVIOUS
      <4> HIDE DEF cr
      <4> QED BY <1>3, <3>1, <4>1, FindFirst DEF cr
    <3> QED BY <1>10, <3>2
  <2>3. \A k \in 1..Len(inBuffer) :
          IF k <= junk THEN inBuffer[k] # CR /\ inBuffer[k] \notin Methods
          ELSE k <= junk + z + 5 => inBuffer[k] = LineText(r)[k - junk]
    <3>1. ASSUME NEW k \in 1..Len(inBuffer), k <= junk
          PROVE  inBuffer[k] # CR /\ inBuffer[k] \notin Methods
      <4>1. 1 <= junk
        BY <1>6, <3>1
      <4> QED BY <1>7, <2>2, <3>1, <4>1
    <3>2. ASSUME NEW k \in 1..Len(inBuffer), ~(k <= junk), k <= junk + z + 5
          PROVE  inBuffer[k] = LineText(r)[k - junk]
      <4>1. k - junk \in 1..(z + 5) /\ Taken + k = Before(requests, c) + (k - junk)
        <5>1. /\ k \in Nat /\ junk \in Nat /\ z \in Nat /\ Taken \in Nat
              /\ Before(requests, c) = Taken + junk
          BY <1>3, <1>6, <2>1
        <5> HIDE DEF z, c
        <5> QED BY <3>2, <5>1
      <4>2. inBuffer[k] = Stream[Taken + k]
        BY <1>3 DEF IsPart
      <4> QED BY <2>1, <4>1, <4>2
    <3> QED BY <3>1, <3>2
  <2>4. /\ Len(inBuffer) < junk + z + 4 => cr = 0
        /\ junk + z + 4 <= Len(inBuffer) =>
             /\ cr = junk + z + 4 /\ MethodIn(line) = r.method
             /\ line \in Texts /\ Len(line) = cr - 1
             /\ \A k \in 1..(cr - 1) : line[k] = inBuffer[k]
    BY <1>3, <1>6, <2>1, <2>3, LineFound
  <2>5. /\ HeadersAt(requests, c) = Taken + junk + z + 5
        /\ HeadersAt(requests, c) <= Len(Stream)
    BY <1>3, <1>6, <2>1, SMTT(60)
  <2>6. ASSUME junk + z + 4 <= Len(inBuffer)
        PROVE  /\ Find(line, Slash, Find(line, MethodIn(line), 1)) # 0
               /\ NameIn(line, Find(line, Slash, Find(line, MethodIn(line), 1)),
                         Find(line, Blank, Find(line, Slash, Find(line, MethodIn(line), 1))))
                    = FileName(r)
    <3> HIDE DEF cr, line, z
    <3>1. /\ line \in Texts /\ Len(line) = junk + z + 3 /\ MethodIn(line) = r.method
          /\ \A k \in 1..Len(line) : line[k] = inBuffer[k]
      <4>1. (junk + z + 4) - 1 = junk + z + 3
        BY <1>6, <2>1
      <4> QED BY <2>4, <2>6, <4>1
    <3>2. ASSUME NEW k \in 1..Len(line)
          PROVE  IF k <= junk THEN line[k] \notin Methods
                 ELSE line[k] = LineText(r)[k - junk]
      <4>1. k \in 1..Len(inBuffer) /\ k <= junk + z + 5
        BY <1>3, <1>6, <2>1, <2>6, <3>1
      <4> QED BY <2>3, <3>1, <4>1
    <3> DEFINE from == Find(line, MethodIn(line), 1)
               slash == Find(line, Slash, from)
               blank == Find(line, Blank, slash)
    <3>3. from = Find(line, r.method, 1)
      BY <3>1
    <3>4. Len(line) = junk + BlankAt(r) + 3
      BY <3>1 DEF z
    <3> HIDE DEF from, r
    <3>5. slash = junk + 3 /\ NameIn(line, slash, blank) = FileName(r)
      <4>1. junk \in Nat /\ WellFormed(r) /\ line \in Texts
        BY <1>6, <2>1, <3>1
      <4> QED BY <3>2, <3>3, <3>4, <4>1, LineParsed
    <3>6. slash # 0
      BY <1>6, <3>5
    <3> QED BY <3>5, <3>6 DEF from
  <2> QED BY <2>1, <2>4, <2>5, <2>6
<1>11. CASE cr = 0
  <2>1. /\ UNCHANGED <<inBuffer, state>> /\ pc' = "idle"
    BY <1>11 DEF ParseURI, Again
  <2>2. Taken' = Taken
    BY <1>1, <2>1, BufferStays
  <2>3. ASSUME c # Len(requests) + 1 PROVE sent # <<>>
    <3>1. c \in 1..Len(requests)
      BY <1>3, <1>4, <2>3
    <3>2. Len(inBuffer) < junk + z + 4
      <4>1. z \in Nat /\ ~(junk + z + 4 <= Len(inBuffer))
        <5>1. cr # 1
          BY <1>11
        <5>2. z \in Nat /\ (junk + z + 4 <= Len(inBuffer) => cr = junk + z + 4)
          BY <1>10, <3>1, <5>1
        <5> HIDE DEF cr, z
        <5> QED BY <1>6, <1>11, <5>2
      <4> HIDE DEF z
      <4> QED BY <1>3, <1>6, <4>1
    <3>3. /\ z \in Nat /\ HeadersAt(requests, c) = Taken + junk + z + 5
          /\ HeadersAt(requests, c) <= Len(Stream)
      BY <1>10, <1>11, <3>1
    <3> HIDE DEF z
    <3>4. Arrived < Len(Stream)
      BY <1>3, <1>6, <3>2, <3>3
    <3> QED BY <3>4, MoreToCome
  <2> QED BY <1>1, <1>4, <2>1, <2>2, <2>3 DEF Located
<1>12. CASE cr # 0
  <2>1. cr # 1 /\ ~(Len(inBuffer) <= junk)
    BY <1>8, <1>9, <1>12
  <2>2. c \in 1..Len(requests)
    <3>1. ASSUME c = Len(requests) + 1 PROVE FALSE
      <4>1. Taken + junk = Len(Stream)
        BY <1>5, <1>6, <3>1
      <4>2. Taken + Len(inBuffer) <= Len(Stream)
        BY <1>3 DEF IsPart
      <4> QED BY <1>3, <1>6, <2>1, <4>1, <4>2
    <3> QED BY <1>3, <1>4, <3>1
  <2> DEFINE slash == Find(line, Slash, Find(line, MethodIn(line), 1))
             name == NameIn(line, slash, Find(line, Blank, slash))
  <2>3. /\ z \in Nat /\ cr = junk + z + 4 /\ MethodIn(line) = r.method
        /\ slash # 0 /\ name = FileName(r)
        /\ HeadersAt(requests, c) = Taken + junk + z + 5 /\ HeadersAt(requests, c) \in Nat
        /\ junk + z + 4 <= Len(inBuffer) /\ WellFormed(r)
    <3>1. /\ z \in Nat /\ WellFormed(r)
          /\ HeadersAt(requests, c) = Taken + junk + z + 5 /\ HeadersAt(requests, c) \in Nat
          /\ Len(inBuffer) < junk + z + 4 => cr = 0
          /\ junk + z + 4 <= Len(inBuffer) =>
               /\ cr = junk + z + 4 /\ MethodIn(line) = r.method
               /\ slash # 0 /\ name = FileName(r)
      BY <1>10, <2>1, <2>2
    <3> HIDE DEF cr, z, line, slash, name
    <3>2. junk + z + 4 <= Len(inBuffer)
      BY <1>3, <1>6, <1>12, <3>1
    <3> QED BY <3>1, <3>2
  <2>4. /\ inBuffer' = SubSeq(inBuffer, cr + 1, Len(inBuffer))
        /\ method' = r.method /\ state' = "headers" /\ pc' = pc
        /\ fileName' = FileName(r)
    BY <1>12, <2>3 DEF ParseURI, Refuse
  <2>5. Taken' = Taken + cr
    <3>1. cr \in 0..Len(inBuffer)
      <4> HIDE DEF cr, z
      <4> QED BY <1>3, <1>6, <2>3
    <3> HIDE DEF cr
    <3> QED BY <1>1, <2>4, <3>1, BufferMoves
  <2>6. Taken' = HeadersAt(requests, c) - 1
    <3> HIDE DEF cr, z
    <3> QED BY <1>3, <1>6, <2>3, <2>5
  <2>7. LengthsOf(r.headers, <<>>)
    BY DEF LengthsOf
  <2>8. Reading(requests[Current])'
    BY <1>1, <2>4, <2>6, <2>7 DEF Reading, Between
  <2> QED BY <1>1, <1>4, <2>2, <2>4, <2>8 DEF Located
<1> QED BY <1>11, <1>12

(* parseHeaders ends behind the headers or two tokens before, or it has not*)
(* seen their last byte yet.                                               *)
LEMMA LocatedParseHeaders ==
  ASSUME Base, AllUnderstood, Located, ParseHeaders, ~error' PROVE Located'
<1> DEFINE c == Current
           r == requests[c]
           h == HeadersAt(requests, c)
           B == BodyAt(requests, c)
           n == Len(r.headers)
           m == Scan(inBuffer, hState, headers)
<1>1. /\ pc = "parse" /\ state = "headers"
      /\ UNCHANGED <<requests, sent, answers, method, fileName>>
      /\ Current' = Current
  BY DEF ParseHeaders, Again, Refuse, Current, peerVars, lineVars
<1>2. /\ inBuffer \in Texts /\ Len(inBuffer) \in Nat /\ IsPart(inBuffer, Stream, Taken)
      /\ Len(Stream) \in Nat /\ Taken \in Nat /\ hState \in HStates
      /\ Arrived = Taken + Len(inBuffer)
  BY Lengths DEF Base, Shape, InOrder, Taken
<1>3. /\ c \in 1..Len(requests) /\ method = r.method /\ fileName = FileName(r)
      /\ LengthsOf(r.headers, headers) /\ Between(h, n, hState, Taken)
  BY <1>1 DEF Located, Reading
<1>4. /\ Understood(r) /\ WellFormed(r) /\ B \in Nat /\ B <= Len(Stream)
      /\ c \in 1..(Len(requests) + 1)
  <2>1. c \in 1..(Len(requests) + 1)
    BY DEF Located
  <2> QED BY <1>3, <2>1, AtRequest DEF AllUnderstood
<1>5. Lines(Stream, h, r.headers) /\ B = At(h, n + 1) + 2
  BY <1>3, <1>4, LinesOfRequest
<1>6. m.line \in 1..(Len(inBuffer) + 1) /\ m.body \in 1..(Len(inBuffer) + 1)
  BY <1>2, ScanInLoop
<1>7. m.h # "error"
  BY <1>1 DEF ParseHeaders, Refuse
<1>8. /\ LengthsOf(r.headers, m.headers)
      /\ m.h = "endlf" => Taken + m.body - 1 \in {B, B - 2}
      /\ m.h # "endlf" => /\ Between(h, n, m.h, Taken + m.line - 1)
                          /\ Taken + Len(inBuffer) < B
  <2> DEFINE hs == r.headers
             p == Taken
             last == At(h, n + 1)
  <2>1. /\ Lines(Stream, h, hs) /\ IsPart(inBuffer, Stream, p) /\ inBuffer \in Texts
        /\ Between(h, Len(hs), hState, p) /\ LengthsOf(hs, headers)
    BY <1>2, <1>3, <1>5
  <2> HIDE DEF hs, p, h
  <2>2. ScanEnds(p, h, hs, Len(inBuffer), m)
    BY <1>7, <2>1, ScanLocated
  <2> HIDE DEF m
  <2>3. last = B - 2 /\ B = last + 2
    <3>1. last \in Nat
      BY <1>5, <2>1 DEF Lines, At, hs
    <3> HIDE DEF last, B
    <3>2. B = last + 2
      BY <1>5 DEF last
    <3> QED BY <3>1, <3>2
  <2> HIDE DEF B
  <2> QED BY <2>2, <2>3 DEF ScanEnds, hs, p
<1> HIDE DEF m
<1>9. CASE m.h = "endlf"
  <2> DEFINE d == m.body - 1
  <2>1. d \in 0..Len(inBuffer) /\ d + 1 = m.body /\ Taken + m.body - 1 = Taken + d
    BY <1>2, <1>6
  <2>2. /\ headers' = m.headers /\ inBuffer' = SubSeq(inBuffer, d + 1, Len(inBuffer))
        /\ state' \in {"body", "analysis"} /\ pc' = pc
    BY <1>9, <2>1 DEF ParseHeaders, m
  <2> HIDE DEF d
  <2>3. Taken' = Taken + d
    BY <1>1, <2>1, <2>2, BufferMoves
  <2>4. Taken' \in {B, B - 2}
    BY <1>8, <1>9, <2>1, <2>3
  <2>5. Reading(requests[Current])'
    BY <1>1, <1>3, <1>8, <2>2, <2>4 DEF Reading
  <2> QED BY <1>1, <1>3, <1>4, <2>2, <2>5 DEF Located
<1>10. CASE m.h # "endlf"
  <2> DEFINE d == m.line - 1
  <2>1. d \in 0..Len(inBuffer) /\ d + 1 = m.line /\ Taken + m.line - 1 = Taken + d
    BY <1>2, <1>6
  <2>2. /\ headers' = m.headers /\ inBuffer' = SubSeq(inBuffer, d + 1, Len(inBuffer))
        /\ hState' = m.h /\ state' = state
    BY <1>7, <1>10, <2>1 DEF ParseHeaders, m
  <2> HIDE DEF d
  <2>3. Taken' = Taken + d
    BY <1>1, <2>1, <2>2, BufferMoves
  <2>4. Between(h, n, m.h, Taken')
    BY <1>8, <1>10, <2>1, <2>3
  <2>5. Reading(requests[Current])'
    BY <1>1, <1>3, <1>8, <2>2, <2>4 DEF Reading
  <2>6. Arrived < Len(Stream)
    BY <1>2, <1>4, <1>8, <1>10
  <2>7. sent # <<>>
    BY <2>6, MoreToCome
  <2> QED BY <1>1, <1>3, <1>4, <2>2, <2>5, <2>7 DEF Located
<1> QED BY <1>9, <1>10

(* The body of a POST is complete, or there is text to come.               *)
LEMMA LocatedRecvBody ==
  ASSUME Base, AllUnderstood, Located, RecvBody, ~error' PROVE Located'
<1> DEFINE c == Current
           r == requests[c]
           B == BodyAt(requests, c)
<1>1. /\ pc = "parse" /\ state = "body"
      /\ UNCHANGED <<requests, sent, answers, method, fileName, hState, headers, inBuffer>>
      /\ Current' = Current /\ HasLength(headers)
  BY DEF RecvBody, Again, Refuse, Current, peerVars, lineVars
<1>2. Len(inBuffer) \in Nat /\ Len(Stream) \in Nat /\ Taken \in Nat
      /\ Arrived = Taken + Len(inBuffer)
  BY Lengths DEF Base, InOrder, Taken
<1>3. /\ c \in 1..Len(requests) /\ c \in 1..(Len(requests) + 1)
      /\ method = r.method /\ fileName = FileName(r) /\ LengthsOf(r.headers, headers)
      /\ Taken \in {B, B - 2}
  BY <1>1 DEF Located, Reading
<1>4. /\ Understood(r) /\ WellFormed(r) /\ B \in Nat /\ Len(r.body) \in Nat
      /\ B + Len(r.body) <= Len(Stream)
  BY <1>3, AtRequest DEF AllUnderstood
<1>5. ContentLength(headers) = Len(r.body)
  BY <1>1, <1>3, <1>4, LengthKept
<1>6. Taken' = Taken
  BY <1>1, BufferStays
<1>7. CASE BodyIsHere
  <2>1. state' = "analysis" /\ pc' = pc
    BY <1>1, <1>7 DEF RecvBody
  <2>2. Reading(requests[Current])'
    BY <1>1, <1>3, <1>6, <2>1 DEF Reading
  <2> QED BY <1>1, <1>3, <2>1, <2>2 DEF Located
<1>8. CASE ~BodyIsHere
  <2>1. state' = "body"
    BY <1>1, <1>8 DEF RecvBody
  <2>2. Reading(requests[Current])'
    BY <1>1, <1>3, <1>6, <2>1 DEF Reading
  <2>3. Len(inBuffer) < Len(r.body)
    BY <1>2, <1>4, <1>5, <1>8 DEF BodyIsHere
  <2>4. Arrived < Len(Stream)
    <3> HIDE DEF B, r
    <3> QED BY <1>2, <1>3, <1>4, <2>3
  <2>5. sent # <<>>
    BY <2>4, MoreToCome
  <2> QED BY <1>1, <1>3, <2>1, <2>2, <2>5 DEF Located
<1> QED BY <1>7, <1>8

(* An answer is to a request if it says its path, and as much has been     *)
(* received with it: the rest follows from the method and the path.        *)
LEMMA OwnAnswer ==
  ASSUME NEW r, NEW map, NEW body, Len(body) = Len(r.body)
  PROVE  AnswerTo(r, Answer(r.method, Name(r), map, body))
<1> DEFINE a == Answer(r.method, Name(r), map, body)
           b == AsSent(r)
<1>1. /\ a.path = Name(r) /\ a.received = body
      /\ a.status = IF Name(r) \in ApiPaths THEN ApiStatus(r.method, Name(r)) ELSE 200
      /\ a.content = (r.method # "HEAD" \/ Name(r) \in {<<"hello">>, <<"favicon.ico">>})
  BY DEF Answer
<1>2. /\ b.path = Name(r) /\ b.received = r.body
      /\ b.status = IF Name(r) \in ApiPaths THEN ApiStatus(r.method, Name(r)) ELSE 200
      /\ b.content = (r.method # "HEAD" \/ Name(r) \in {<<"hello">>, <<"favicon.ico">>})
  BY DEF AsSent, Answer
<1> HIDE DEF a, b
<1>3. /\ a.path = b.path /\ a.status = b.status /\ a.content = b.content
      /\ Len(a.received) = Len(b.received)
  BY <1>1, <1>2
<1> QED BY <1>3 DEF AnswerTo, a, b

(* An answered request leaves none of its text, or the two tokens.         *)
LEMMA LocatedAnalysis ==
  ASSUME Base, AllUnderstood, InTurn, Located, Analysis PROVE Located' /\ InTurn'
<1> DEFINE c == Current
           r == requests[c]
           B == BodyAt(requests, c)
           e == Before(requests, c + 1)
<1>1. /\ pc = "parse" /\ state = "analysis" /\ UNCHANGED <<requests, sent>>
      /\ \E x : answers' = Append(answers, x)
      /\ inBuffer' = SubSeq(inBuffer, BodyLength + 1, Len(inBuffer))
      /\ state' = "uri" /\ pc' = IF inBuffer' = <<>> THEN "idle" ELSE "read"
  BY DEF Analysis, Reset, peerVars, BodyLength
<1>2. /\ Len(inBuffer) \in Nat /\ Len(Stream) \in Nat /\ Taken \in Nat
      /\ Len(answers) \in Nat /\ c = Len(answers) + 1 /\ Len(requests) \in Nat
      /\ Stream = TextOf(requests) /\ AllWellFormed(requests)
  BY Lengths DEF Base, Shape, InOrder, Current, Stream
<1>3. Current' = c + 1
  <2>1. Len(answers') = Len(answers) + 1
    BY <1>1, OneMore
  <2> QED BY <1>2, <2>1 DEF Current
<1>4. /\ c \in 1..Len(requests) /\ method = r.method /\ fileName = FileName(r)
      /\ LengthsOf(r.headers, headers) /\ Taken \in {B, B - 2}
  BY <1>1 DEF Located, Reading
<1>5. /\ Understood(r) /\ WellFormed(r) /\ B \in Nat /\ Len(r.body) \in Nat
      /\ e = B + Len(r.body) /\ c + 1 \in 1..(Len(requests) + 1)
  BY <1>4, AtRequest DEF AllUnderstood
<1>6. BodyLength = Len(r.body)
  <2>1. CASE method = "POST"
    <3>1. HasLength(headers)
      BY <1>1, <2>1 DEF Base, Stages
    <3> QED BY <1>4, <1>5, <2>1, <3>1, LengthKept DEF BodyLength
  <2>2. CASE method # "POST"
    <3>1. r.body = <<>>
      BY <1>4, <1>5, <2>2 DEF WellFormed
    <3>2. Len(<<>>) = 0
      OBVIOUS
    <3> QED BY <2>2, <3>1, <3>2 DEF BodyLength
  <2> QED BY <2>1, <2>2
<1>7. /\ Taken' = Taken + BodyLength /\ Arrived' = Arrived
      /\ Len(inBuffer') = Len(inBuffer) - BodyLength
  BY <1>1, BodyLengthBounds, BufferMoves
<1>8. Taken' \in {e, e - 2}
  <2> HIDE DEF B, e, r
  <2>1. Taken \in {B, B - 2} /\ Taken' = Taken + Len(r.body)
    BY <1>4, <1>6, <1>7
  <2>2. e = B + Len(r.body) /\ B \in Nat /\ Len(r.body) \in Nat
    BY <1>5
  <2> QED BY <2>1, <2>2
<1>9. ASSUME inBuffer' = <<>>, c + 1 # Len(requests) + 1 PROVE sent # <<>>
  <2>1. Arrived = Taken'
    <3>1. Len(<<>>) = 0
      OBVIOUS
    <3>2. Len(inBuffer') = 0
      BY <1>9, <3>1
    <3>3. BodyLength \in Nat /\ Arrived = Taken + Len(inBuffer)
      BY <1>2, <1>5, <1>6 DEF Taken, Base, InOrder
    <3> QED BY <1>2, <1>7, <3>2, <3>3
  <2>2. c + 1 \in 1..Len(requests)
    BY <1>2, <1>5, <1>9
  <2> DEFINE j == c + 1
             q == requests[j]
             b == Before(requests, j)
  <2>3. j \in 1..Len(requests)
    BY <2>2
  <2> HIDE DEF j, c
  <2>4. /\ b \in Nat /\ HeadersAt(requests, j) = b + Len(LineText(q))
        /\ HeadersAt(requests, j) \in Nat
        /\ BodyAt(requests, j) = HeadersAt(requests, j) + Len(HeadersText(q))
        /\ BodyAt(requests, j) \in Nat
        /\ Before(requests, j + 1) = BodyAt(requests, j) + Len(q.body) /\ Len(q.body) \in Nat
        /\ Before(requests, j + 1) <= Len(Stream)
    BY <1>2, <2>3, Positions
  <2>5. WellFormed(q)
    BY <1>2, <2>3 DEF AllWellFormed
  <2>6. Len(LineText(q)) = BlankAt(q) + 5 /\ BlankAt(q) \in Nat
    BY <2>5, LineLayout
  <2>7. Len(HeadersText(q)) \in Nat
    BY <2>5, HeadersLayout DEF Texts
  <2> HIDE DEF b, q
  <2>8. b < Len(Stream)
    <3>1. b < HeadersAt(requests, j)
      BY <2>4, <2>6, SMTT(60)
    <3>2. HeadersAt(requests, j) <= BodyAt(requests, j)
      BY <2>4, <2>7
    <3>3. BodyAt(requests, j) <= Len(Stream)
      <4> DEFINE u == Before(requests, j + 1)
                 v == BodyAt(requests, j)
                 w == Len(q.body)
                 x == Len(Stream)
      <4>1. u = v + w /\ v \in Nat /\ w \in Nat /\ u <= x /\ x \in Nat
        BY <1>2, <2>4
      <4> HIDE DEF u, v, w, x
      <4>2. v <= x
        BY <4>1
      <4> QED BY <4>2 DEF v, x
    <3> QED BY <1>2, <2>4, <3>1, <3>2, <3>3
  <2>9. b = e
    BY DEF b, j
  <2> HIDE DEF e
  <2>10. Arrived < Len(Stream)
    BY <1>2, <1>8, <2>1, <2>4, <2>8, <2>9
  <2> QED BY <2>10, MoreToCome
<1>10. c + 1 # 1
  BY <1>2
<1>11. Located'
  BY <1>1, <1>3, <1>5, <1>8, <1>9, <1>10 DEF Located
<1>12. InTurn'
  <2> DEFINE body == SubSeq(inBuffer, 1, BodyLength)
             answer == Answer(method, fileName, headers, body)
  <2>1. answers' = Append(answers, answer) /\ Answerable(method, fileName)
    BY DEF Analysis, BodyLength
  <2>2. fileName = Name(r)
    <3>1. r.path = <<>> /\ r.query => fileName = <<>>
      BY <1>4 DEF FileName
    <3>2. ~(r.path = <<>> /\ r.query)
      BY <2>1, <3>1, NoNameNoAnswer
    <3> QED BY <1>4, <3>2 DEF FileName, Name
  <2>3. Len(body) = Len(r.body)
    <3>1. BodyLength \in 0..Len(inBuffer) /\ inBuffer \in Texts
      BY <1>1, BodyLengthBounds DEF Base, Shape
    <3>2. Len(body) = BodyLength
      BY <1>2, <3>1 DEF Texts
    <3> QED BY <1>6, <3>2
  <2>4. AnswerTo(r, answer)
    BY <1>4, <2>2, <2>3, OwnAnswer
  <2> HIDE DEF answer, r
  <2>5. /\ Len(answers') = c /\ answers'[c] = answer
        /\ \A i \in 1..Len(answers) : answers'[i] = answers[i]
    BY <1>2, <2>1, OneMore
  <2>6. SUFFICES ASSUME NEW i \in 1..Len(answers')
                 PROVE  i \in 1..Len(requests) /\ AnswerTo(requests[i], answers'[i])
    BY <1>1 DEF InTurn
  <2>7. CASE i = c
    BY <1>4, <2>4, <2>5, <2>7 DEF r
  <2>8. CASE i # c
    <3>1. i \in 1..Len(answers)
      BY <1>2, <2>5, <2>6, <2>8
    <3> QED BY <2>5, <3>1 DEF InTurn
  <2> QED BY <2>7, <2>8
<1> QED BY <1>11, <1>12

(* An event finds the parser in the request it is at, and with text to     *)
(* come: however the text is cut, and whatever the headers stored.         *)
LEMMA ProgressNext == ASSUME Progress, [Next]_vars PROVE Progress'
<1>1. Base /\ Base'
  BY BaseNext DEF Progress
<1>2. UNCHANGED requests
  BY DEF Next, Read, ParseURI, ParseHeaders, RecvBody, Analysis, AnalysisFails, Again, Refuse,
         vars, peerVars
<1>3. SUFFICES ASSUME AllUnderstood PROVE InTurn' /\ (~error' => Located')
  BY <1>1, <1>2 DEF Progress, AllUnderstood
<1>4. ~error' => ~error
  BY <1>1 DEF Base, Shape, Next, Read, ParseURI, ParseHeaders, RecvBody, Analysis,
              AnalysisFails, vars
<1>5. InTurn /\ (~error' => Located)
  BY <1>3, <1>4 DEF Progress
<1>6. ASSUME UNCHANGED answers PROVE InTurn'
  BY <1>2, <1>5, <1>6 DEF InTurn
<1>7. CASE Read
  <2>1. UNCHANGED answers
    BY <1>7 DEF Read
  <2> QED BY <1>1, <1>5, <1>6, <1>7, <2>1, LocatedRead
<1>8. CASE ParseURI
  <2>1. UNCHANGED answers
    BY <1>8 DEF ParseURI, Again, Refuse
  <2> QED BY <1>1, <1>3, <1>5, <1>6, <1>8, <2>1, LocatedParseURI
<1>9. CASE ParseHeaders
  <2>1. UNCHANGED answers
    BY <1>9 DEF ParseHeaders, Again, Refuse
  <2> QED BY <1>1, <1>3, <1>5, <1>6, <1>9, <2>1, LocatedParseHeaders
<1>10. CASE RecvBody
  <2>1. UNCHANGED answers
    BY <1>10 DEF RecvBody, Again, Refuse
  <2> QED BY <1>1, <1>3, <1>5, <1>6, <1>10, <2>1, LocatedRecvBody
<1>11. CASE Analysis
  <2>1. ~error' /\ Located
    BY <1>1, <1>5, <1>11 DEF Analysis, Base, Shape
  <2> QED BY <1>1, <1>3, <1>5, <1>11, <2>1, LocatedAnalysis
<1>12. CASE AnalysisFails
  <2>1. UNCHANGED answers /\ error'
    BY <1>12 DEF AnalysisFails, Refuse
  <2> QED BY <1>6, <2>1
<1>13. CASE UNCHANGED vars
  <2>1. UNCHANGED <<requests, sent, pc, inBuffer, state, hState, method, fileName, headers,
                    answers>>
    BY <1>13 DEF vars, peerVars, lineVars
  <2>2. Taken' = Taken /\ Current' = Current
    BY <2>1 DEF Taken, Arrived, Stream, Current
  <2>3. Located => Located'
    BY <2>1, <2>2 DEF Located, Reading
  <2> QED BY <1>5, <1>6, <2>1, <2>3
<1> QED BY <1>7, <1>8, <1>9, <1>10, <1>11, <1>12, <1>13 DEF Next

(* ParsedAsSent: a request whose headers no read has cut, and no earlier   *)
(* one's either, is answered with its own method, name, headers and body,  *)
(* in its turn, and refused only if it is refusable; and if the peer sends *)
(* what the parser understands, each answer is to its own request however  *)
(* the text was cut.  handleRead goes through its four stages again and    *)
(* again over one buffer, and each of them must leave the buffer where the *)
(* next one begins, at the very token or at most two tokens before it.     *)
THEOREM RequestsParsed == Spec => []ParsedAsSent
<1>1. Init => Exact /\ Progress
  BY ExactInit, LocatedInit
<1>2. Exact /\ Progress /\ [Next]_vars => (Exact /\ Progress)'
  BY ExactNext, ProgressNext
<1>3. ASSUME Exact, Progress PROVE ParsedAsSent
  <2>1. DOMAIN answers = 1..Len(answers) /\ DOMAIN requests = 1..Len(requests)
    BY <1>3, Lengths DEF Exact, Base
  <2>2. \A i \in DOMAIN answers :
          Untorn(i) => i \in DOMAIN requests /\ answers[i] = AsSent(requests[i])
    BY <1>3, <2>1 DEF Exact, AnsweredAsSent
  <2>3. error /\ Untorn(Len(answers) + 1)
          => Len(answers) + 1 \in DOMAIN requests /\ Refusable(requests[Len(answers) + 1])
    BY <1>3, <2>1 DEF Exact, Expected, Current
  <2>4. (\A j \in DOMAIN requests : Understood(requests[j]))
          => \A i \in DOMAIN answers :
               i \in DOMAIN requests /\ AnswerTo(requests[i], answers[i])
    BY <1>3, <2>1 DEF Progress, AllUnderstood, InTurn
  <2> QED BY <2>2, <2>3, <2>4 DEF ParsedAsSent
<1> QED BY <1>1, <1>2, <1>3, PTL DEF Spec

(* NeverWaitsInVain: requests that are understood are answered, or the     *)
(* connection is refused, once all of their text has been read, however it *)
(* was cut.  parseHeaders keeps its state and forgets its positions when   *)
(* it runs out of text, and yet it never waits for bytes it has seen.      *)
THEOREM RequestsAnswered == Spec => []NeverWaitsInVain
<1>1. Init => Progress
  BY LocatedInit
<1>2. Progress /\ [Next]_vars => Progress'
  BY ProgressNext
<1>3. ASSUME Progress PROVE NeverWaitsInVain
  <2>1. SUFFICES ASSUME pc = "idle", sent = <<>>, ~error,
                        \A j \in DOMAIN requests : Understood(requests[j])
                 PROVE  Len(answers) >= Len(requests)
    BY DEF NeverWaitsInVain
  <2>2. /\ DOMAIN requests = 1..Len(requests) /\ Len(requests) \in Nat
        /\ Len(answers) \in Nat /\ Current = Len(answers) + 1
    BY <1>3, Lengths DEF Progress, Base, Current
  <2>3. Located
    BY <1>3, <2>1, <2>2 DEF Progress, AllUnderstood
  <2>4. Current = Len(requests) + 1
    BY <2>1, <2>3 DEF Located
  <2> QED BY <2>2, <2>4
<1> QED BY <1>1, <1>2, <1>3, PTL DEF Spec
=============================================================================
