------------------------- MODULE AsyncLoggingProofs -------------------------
(***************************************************************************)
(* Proofs about AsyncLogging, for any number of buffers and lines, any     *)
(* capacity and any limit of at least two: types, the assertions of        *)
(* threadFunc, that no buffer is shared, and that the logger implements    *)
(* LogPipe.  Liveness is left to TLC.                                      *)
(***************************************************************************)
EXTENDS AsyncLoggingPipe, SequencesExt, FiniteSetTheorems, SequenceTheorems, TLAPS

(* Induction over the natural numbers with a set for the predicate, and    *)
(* with it what FlattenSeq, a recursive function of SequencesExt, computes *)
(* for every sequence of sequences.                                        *)

(* A non-empty set of naturals has a least element: of the intervals 1..m  *)
(* one is minimal under inclusion.                                         *)
LEMMA LeastElement ==
  ASSUME NEW S \in SUBSET Nat, S # {}
  PROVE  \E m \in S : \A n \in S : m <= n
<1> DEFINE R == StrictSubsetOrdering(Nat)
           D == FiniteSubsetsOf(Nat)
           T == {1..m : m \in S}
<1>1. IsWellFoundedOn(R, D)
  BY FS_StrictSubsetOrderingWellFounded
<1>2. T \subseteq D /\ T # {}
  <2>1. \A m \in Nat : 1..m \in D
    BY FS_Interval DEF FiniteSubsetsOf
  <2> HIDE DEF D
  <2> QED BY <2>1
<1>3. PICK x \in T : \A y \in T : ~(<<y, x>> \in R)
  <2> HIDE DEF R, D, T
  <2> QED BY <1>1, <1>2, WFMin
<1>4. PICK m \in S : x = 1..m
  OBVIOUS
<1>5. ASSUME NEW n \in S, n < m PROVE FALSE
  <2>1. 1..n \in T /\ 1..n \subseteq 1..m
    BY <1>5
  <2>2. m \in 1..m /\ m \notin 1..n
    BY <1>5
  <2>3. <<1..n, x>> \in R
    BY <1>4, <2>1, <2>2 DEF StrictSubsetOrdering
  <2> QED BY <1>3, <2>1, <2>3
<1> QED BY <1>5

(* Induction: a set with 0 and with n + 1 for each n in it is all of Nat.  *)
LEMMA InductionOverSet ==
  ASSUME NEW P \in SUBSET Nat, 0 \in P, \A n \in P : n + 1 \in P
  PROVE  P = Nat
<1> SUFFICES ASSUME Nat \ P # {} PROVE FALSE
  OBVIOUS
<1>1. PICK m \in Nat \ P : \A n \in Nat \ P : m <= n
  BY LeastElement
<1>2. m # 0 /\ m - 1 \in Nat /\ m - 1 < m /\ (m - 1) + 1 = m
  BY <1>1
<1>3. m - 1 \in P
  BY <1>1, <1>2
<1> QED BY <1>1, <1>2, <1>3

(* Appending and cutting.                                                 *)
LEMMA ConcatAppend ==
  ASSUME NEW T, NEW s \in Seq(T), NEW t \in Seq(T), NEW e \in T
  PROVE  s \o Append(t, e) = Append(s \o t, e)
<1>1. t \o <<e>> = Append(t, e) /\ <<e>> \in Seq(T) /\ s \o t \in Seq(T)
  BY AppendIsConcat, ConcatProperties
<1>2. (s \o t) \o <<e>> = s \o (t \o <<e>>)
  BY <1>1, ConcatAssociative
<1>3. Append(s \o t, e) = (s \o t) \o <<e>>
  BY <1>1, AppendIsConcat
<1> QED BY <1>1, <1>2, <1>3

(* A concatenation cut where its parts meet.                               *)
LEMMA CutConcat ==
  ASSUME NEW T, NEW s \in Seq(T), NEW t \in Seq(T)
  PROVE  /\ SubSeq(s \o t, 1, Len(s)) = s
         /\ SubSeq(s \o t, Len(s) + 1, Len(s \o t)) = t
<1> DEFINE u == s \o t
           m == Len(s)
           n == Len(t)
<1>1. /\ m \in Nat /\ n \in Nat /\ u \in Seq(T) /\ Len(u) = m + n
      /\ \A i \in 1..(m + n) : u[i] = IF i <= m THEN s[i] ELSE t[i - m]
  BY ConcatProperties, LenProperties
<1> HIDE DEF u
<1>2. \A i \in 1..Len(u) : u[i] \in T
  BY <1>1, ElementOfSeq
<1>3. SubSeq(u, 1, m) = s
  <2>1. /\ SubSeq(u, 1, m) \in Seq(T) /\ Len(SubSeq(u, 1, m)) = m
        /\ \A i \in 1..m : SubSeq(u, 1, m)[i] = u[i]
    <3>1. \A i \in 1..m : u[i] \in T
      BY <1>1, <1>2
    <3> HIDE DEF m
    <3> QED BY <1>1, <3>1, SubSeqProperties
  <2>2. \A i \in 1..m : u[i] = s[i]
    BY <1>1
  <2> DEFINE v == SubSeq(u, 1, m)
  <2> HIDE DEF v
  <2> QED BY <2>1, <2>2, SeqEqual DEF v
<1>4. SubSeq(u, m + 1, m + n) = t
  <2> DEFINE v == SubSeq(u, m + 1, m + n)
  <2> HIDE DEF m, n
  <2>1. /\ v \in Seq(T) /\ Len(v) = n
        /\ \A i \in 1..n : v[i] = u[m + i]
    <3>1. \A i \in (m + 1)..(m + n) : u[i] \in T
      BY <1>1, <1>2
    <3>2. /\ v \in Seq(T)
          /\ Len(v) = IF m + 1 <= m + n THEN (m + n) - (m + 1) + 1 ELSE 0
          /\ \A i \in 1..((m + n) - (m + 1) + 1) : v[i] = u[(m + 1) + i - 1]
      BY <1>1, <3>1, SubSeqProperties
    <3>3. (m + n) - (m + 1) + 1 = n /\ \A i \in 1..n : (m + 1) + i - 1 = m + i
      BY <1>1
    <3> HIDE DEF v
    <3> QED BY <1>1, <3>2, <3>3
  <2>2. \A i \in 1..n : u[m + i] = t[i]
    <3> SUFFICES ASSUME NEW i \in 1..n PROVE u[m + i] = t[i]
      OBVIOUS
    <3>1. m + i \in 1..(m + n) /\ ~(m + i <= m) /\ (m + i) - m = i
      BY <1>1
    <3> QED BY <1>1, <3>1
  <2>3. Len(t) = n
    BY DEF n
  <2> HIDE DEF v
  <2> QED BY <2>1, <2>2, <2>3, SeqEqual DEF v
<1> QED BY <1>1, <1>3, <1>4 DEF u

(* f is the function FlattenSeq chooses, for the first n of ss.            *)
Flattens(f, ss, n) ==
  f = [i \in 1..n |-> IF i = 1 THEN ss[i] ELSE f[i - 1] \o ss[i]]

(* There is one for each length.                                           *)
LEMMA FlattensExists ==
  ASSUME NEW ss, NEW n \in Nat
  PROVE  \E f : Flattens(f, ss, n)
<1> DEFINE P == {k \in Nat : \E f : Flattens(f, ss, k)}
<1>1. 0 \in P
  <2>1. Flattens([i \in 1..0 |-> <<>>], ss, 0)
    BY DEF Flattens
  <2> QED BY <2>1
<1>2. ASSUME NEW k \in P PROVE k + 1 \in P
  <2>1. PICK f : Flattens(f, ss, k)
    OBVIOUS
  <2> DEFINE g == [i \in 1..(k + 1) |->
                     IF i = k + 1 THEN (IF i = 1 THEN ss[i] ELSE f[i - 1] \o ss[i])
                                  ELSE f[i]]
  <2>2. \A i \in 1..k : f[i] = IF i = 1 THEN ss[i] ELSE f[i - 1] \o ss[i]
    BY <2>1 DEF Flattens
  <2>3. \A i \in 1..(k + 1) : g[i] = IF i = 1 THEN ss[i] ELSE g[i - 1] \o ss[i]
    <3>1. SUFFICES ASSUME NEW i \in 1..(k + 1)
                   PROVE  g[i] = IF i = 1 THEN ss[i] ELSE g[i - 1] \o ss[i]
      OBVIOUS
    <3>2. i # 1 => i - 1 \in 1..k /\ g[i - 1] = f[i - 1]
      OBVIOUS
    <3> QED BY <2>2, <3>2
  <2>4. Flattens(g, ss, k + 1)
    BY <2>3 DEF Flattens
  <2> QED BY <2>4
<1> HIDE DEF P
<1>3. P = Nat
  BY <1>1, <1>2, InductionOverSet DEF P
<1> QED BY <1>3 DEF P

(* And only one: it begins like that of any longer sequence.               *)
LEMMA FlattensUnique ==
  ASSUME NEW m \in Nat, NEW ss, NEW tt, NEW f, NEW g,
         \A i \in 1..m : ss[i] = tt[i],
         Flattens(f, ss, m), Flattens(g, tt, m + 1)
  PROVE  \A i \in 1..m : f[i] = g[i]
<1> DEFINE P == {k \in Nat : k \in 1..m => f[k] = g[k]}
<1>1. /\ \A i \in 1..m : f[i] = IF i = 1 THEN ss[i] ELSE f[i - 1] \o ss[i]
      /\ \A i \in 1..(m + 1) : g[i] = IF i = 1 THEN tt[i] ELSE g[i - 1] \o tt[i]
  BY DEF Flattens
<1>2. ASSUME NEW k \in P PROVE k + 1 \in P
  <2>1. SUFFICES ASSUME k + 1 \in 1..m PROVE f[k + 1] = g[k + 1]
    OBVIOUS
  <2>2. CASE k = 0
    BY <1>1, <2>1, <2>2
  <2>3. CASE k # 0
    <3>1. k \in 1..m /\ k + 1 \in 1..(m + 1) /\ k + 1 # 1 /\ (k + 1) - 1 = k
      BY <2>1, <2>3
    <3>2. f[k] = g[k]
      BY <3>1
    <3> QED BY <1>1, <2>1, <3>1, <3>2
  <2> QED BY <2>2, <2>3
<1>3. 0 \in P
  OBVIOUS
<1> HIDE DEF P
<1>4. P = Nat
  BY <1>2, <1>3, InductionOverSet DEF P
<1> QED BY <1>4 DEF P

(* FlattenSeq as such a function.                                          *)
LEMMA FlattenValue ==
  ASSUME NEW T, NEW ss \in Seq(Seq(T))
  PROVE  \E f : /\ Flattens(f, ss, Len(ss))
                /\ FlattenSeq(ss) = IF ss = <<>> THEN <<>> ELSE f[Len(ss)]
<1> DEFINE n == Len(ss)
           f == CHOOSE h : Flattens(h, ss, n)
<1>1. Flattens(f, ss, n)
  <2>1. n \in Nat
    OBVIOUS
  <2> HIDE DEF n
  <2>2. \E h : Flattens(h, ss, n)
    BY <2>1, FlattensExists
  <2> QED BY <2>2
<1>2. FlattenSeq(ss) = IF n = 0 THEN <<>> ELSE f[n]
  BY DEF FlattenSeq, Flattens
<1>3. n = 0 <=> ss = <<>>
  OBVIOUS
<1> QED BY <1>1, <1>2, <1>3

(* Flattening keeps to the elements. *)
LEMMA FlattenType ==
  ASSUME NEW T, NEW ss \in Seq(Seq(T))
  PROVE  FlattenSeq(ss) \in Seq(T)
<1> DEFINE n == Len(ss)
<1>1. n \in Nat /\ (n = 0 <=> ss = <<>>) /\ \A i \in 1..n : ss[i] \in Seq(T)
  OBVIOUS
<1> HIDE DEF n
<1>2. PICK f : /\ Flattens(f, ss, n)
               /\ FlattenSeq(ss) = IF ss = <<>> THEN <<>> ELSE f[n]
  BY FlattenValue DEF n
<1>3. \A i \in 1..n : f[i] = IF i = 1 THEN ss[i] ELSE f[i - 1] \o ss[i]
  BY <1>2 DEF Flattens
<1> DEFINE P == {k \in Nat : k \in 1..n => f[k] \in Seq(T)}
<1>4. 0 \in P
  OBVIOUS
<1>5. ASSUME NEW k \in P PROVE k + 1 \in P
  <2>1. SUFFICES ASSUME k + 1 \in 1..n PROVE f[k + 1] \in Seq(T)
    OBVIOUS
  <2>2. CASE k = 0
    BY <1>1, <1>3, <2>1, <2>2
  <2>3. CASE k # 0
    <3>1. k \in 1..n /\ k + 1 # 1 /\ (k + 1) - 1 = k
      BY <2>1, <2>3, <1>1
    <3>2. f[k] \in Seq(T) /\ ss[k + 1] \in Seq(T)
      BY <1>1, <2>1, <3>1
    <3>3. f[k + 1] = f[k] \o ss[k + 1]
      BY <1>3, <2>1, <3>1
    <3> QED BY <3>2, <3>3, ConcatProperties
  <2> QED BY <2>2, <2>3
<1> HIDE DEF P
<1>6. P = Nat
  BY <1>4, <1>5, InductionOverSet DEF P
<1>7. ss = <<>> \/ n \in 1..n
  BY <1>1
<1>8. <<>> \in Seq(T)
  OBVIOUS
<1> QED BY <1>1, <1>2, <1>6, <1>7, <1>8 DEF P

(* The unfolding of FlattenSeq from the back.                              *)
LEMMA FlattenAppend ==
  ASSUME NEW T, NEW ss \in Seq(Seq(T)), NEW s \in Seq(T)
  PROVE  FlattenSeq(Append(ss, s)) = FlattenSeq(ss) \o s
<1> DEFINE n == Len(ss)
           tt == Append(ss, s)
<1>1. /\ n \in Nat /\ n + 1 \in Nat /\ Len(tt) = n + 1 /\ tt[n + 1] = s
      /\ tt \in Seq(Seq(T)) /\ tt # <<>> /\ (n = 0 <=> ss = <<>>)
      /\ \A i \in 1..n : tt[i] = ss[i]
  <2>1. n \in Nat /\ (n = 0 <=> ss = <<>>)
    BY EmptySeq
  <2>2. /\ tt \in Seq(Seq(T)) /\ tt # <<>> /\ Len(tt) = n + 1
        /\ \A i \in 1..n : tt[i] = ss[i]
        /\ tt[n + 1] = s
    BY AppendProperties
  <2> QED BY <2>1, <2>2
<1> HIDE DEF n, tt
<1>2. PICK f : /\ Flattens(f, ss, n)
               /\ FlattenSeq(ss) = IF ss = <<>> THEN <<>> ELSE f[n]
  BY FlattenValue DEF n
<1>3. PICK g : Flattens(g, tt, n + 1) /\ FlattenSeq(tt) = g[n + 1]
  BY <1>1, FlattenValue
<1>4. g[n + 1] = IF n = 0 THEN s ELSE g[n] \o s
  <2>1. n + 1 \in 1..(n + 1) /\ (n + 1) - 1 = n /\ (n + 1 = 1 <=> n = 0)
    BY <1>1
  <2> QED BY <1>1, <1>3, <2>1 DEF Flattens
<1>5. \A i \in 1..n : f[i] = g[i]
  <2>1. \A i \in 1..n : ss[i] = tt[i]
    BY <1>1
  <2>2. n \in Nat
    BY <1>1
  <2>3. Flattens(f, ss, n) /\ Flattens(g, tt, n + 1)
    BY <1>2, <1>3
  <2> QED BY <2>1, <2>2, <2>3, FlattensUnique, SMTT(60)
<1>6. <<>> \o s = s
  OBVIOUS
<1>7. CASE n = 0
  BY <1>1, <1>2, <1>3, <1>4, <1>6, <1>7 DEF tt
<1>8. CASE n # 0
  <2>1. f[n] = g[n]
    BY <1>1, <1>5, <1>8
  <2>2. FlattenSeq(tt) = f[n] \o s /\ FlattenSeq(ss) = f[n]
    BY <1>1, <1>2, <1>3, <1>4, <1>8, <2>1
  <2> QED BY <2>2 DEF tt
<1> QED BY <1>7, <1>8

(* Nothing, flattened.                                                     *)
LEMMA FlattenEmpty == FlattenSeq(<<>>) = <<>>
BY DEF FlattenSeq

(* Flattening takes concatenation to concatenation.                        *)
LEMMA FlattenConcat ==
  ASSUME NEW T, NEW ss \in Seq(Seq(T)), NEW tt \in Seq(Seq(T))
  PROVE  FlattenSeq(ss \o tt) = FlattenSeq(ss) \o FlattenSeq(tt)
<1> DEFINE P == {k \in Nat : \A u \in Seq(Seq(T)) :
                   Len(u) = k => FlattenSeq(ss \o u) = FlattenSeq(ss) \o FlattenSeq(u)}
<1>1. 0 \in P
  <2>1. SUFFICES ASSUME NEW u \in Seq(Seq(T)), Len(u) = 0
                 PROVE  FlattenSeq(ss \o u) = FlattenSeq(ss) \o FlattenSeq(u)
    OBVIOUS
  <2>2. u = <<>> /\ FlattenSeq(ss) \in Seq(T)
    BY <2>1, FlattenType
  <2> QED BY <2>2, FlattenEmpty, ConcatEmptySeq
<1>2. ASSUME NEW k \in P PROVE k + 1 \in P
  <2>1. SUFFICES ASSUME NEW u \in Seq(Seq(T)), Len(u) = k + 1
                 PROVE  FlattenSeq(ss \o u) = FlattenSeq(ss) \o FlattenSeq(u)
    OBVIOUS
  <2>2. PICK v \in Seq(Seq(T)), s \in Seq(T) : u = Append(v, s)
    <3>1. u # <<>>
      BY <2>1
    <3> QED BY <3>1, SequenceEmptyOrAppend
  <2>3. Len(v) = k
    BY <2>1, <2>2
  <2>4. FlattenSeq(ss \o v) = FlattenSeq(ss) \o FlattenSeq(v)
    BY <2>3
  <2>5. ss \o u = Append(ss \o v, s)
    <3> DEFINE S == Seq(T)
    <3> HIDE DEF S
    <3>0. ss \in Seq(S) /\ v \in Seq(S) /\ s \in S
      BY DEF S
    <3>1. u = v \o <<s>> /\ <<s>> \in Seq(S) /\ ss \o v \in Seq(S)
      BY <2>2, <3>0, AppendIsConcat, ConcatProperties
    <3>2. (ss \o v) \o <<s>> = ss \o (v \o <<s>>)
      BY <3>0, <3>1, ConcatAssociative, SMTT(30)
    <3>3. Append(ss \o v, s) = (ss \o v) \o <<s>>
      BY <3>0, <3>1, AppendIsConcat
    <3> QED BY <3>1, <3>2, <3>3
  <2>6. FlattenSeq(ss \o u) = (FlattenSeq(ss) \o FlattenSeq(v)) \o s
    <3>1. ss \o v \in Seq(Seq(T))
      BY ConcatProperties
    <3>2. FlattenSeq(Append(ss \o v, s)) = FlattenSeq(ss \o v) \o s
      BY <3>1, FlattenAppend
    <3> QED BY <2>4, <2>5, <3>2
  <2>7. /\ FlattenSeq(u) = FlattenSeq(v) \o s
        /\ FlattenSeq(ss) \in Seq(T) /\ FlattenSeq(v) \in Seq(T)
    BY <2>2, FlattenAppend, FlattenType
  <2>8. (FlattenSeq(ss) \o FlattenSeq(v)) \o s = FlattenSeq(ss) \o (FlattenSeq(v) \o s)
    <3> DEFINE a == FlattenSeq(ss)
               b == FlattenSeq(v)
    <3>1. a \in Seq(T) /\ b \in Seq(T)
      BY <2>7
    <3> HIDE DEF a, b
    <3>2. (a \o b) \o s = a \o (b \o s)
      BY <3>1, ConcatAssociative, SMTT(60)
    <3> QED BY <3>2 DEF a, b
  <2> QED BY <2>6, <2>7, <2>8
<1> HIDE DEF P
<1>3. P = Nat
  BY <1>1, <1>2, InductionOverSet DEF P
<1>4. Len(tt) \in P
  BY <1>3
<1> QED BY <1>4 DEF P

----------------------------------------------------------------------------
(* What threadFunc's locals hold, by where it is.  The batch is long       *)
(* enough to refill the spares that Swap gave away.                        *)
BatchByPhase ==
  /\ pc \notin {"trim", "write"} => buffersToWrite = <<>>
  /\ pc \in {"none", "starting", "opening"} =>
       newBuffer1 = NoBuffer /\ newBuffer2 = NoBuffer
  /\ pc \in {"test", "lock", "waiting", "done"} =>
       newBuffer1 # NoBuffer /\ newBuffer2 # NoBuffer
  /\ pc \in {"trim", "write"} =>
       /\ newBuffer1 = NoBuffer
       /\ buffersToWrite # <<>>
       /\ newBuffer2 = NoBuffer => Len(buffersToWrite) >= 2

(* Every buffer kept in reserve has been reset. *)
ReserveEmpty ==
  \A b \in {newBuffer1, newBuffer2, nextBuffer} \ {NoBuffer} : content[b] = <<>>

(* append() has used up nextBuffer_ only by leaving a buffer in buffers_. *)
NextUsedUp == nextBuffer = NoBuffer => buffers # <<>>

IInv ==
  /\ TypeOK
  /\ BuffersNotShared
  /\ BatchByPhase
  /\ ReserveEmpty
  /\ NextUsedUp
  /\ pc = "starting" => running

----------------------------------------------------------------------------
(* Lemmas about sequences without repetitions. *)

LEMMA AppendRange ==
  ASSUME NEW S, NEW s \in Seq(S), NEW e
  PROVE  Range(Append(s, e)) = Range(s) \cup {e}
<1>1. \A i \in 1..Len(s) : Append(s, e)[i] = s[i]
  OBVIOUS
<1>2. Append(s, e)[Len(s) + 1] = e
  OBVIOUS
<1>3. /\ DOMAIN Append(s, e) = 1..(Len(s) + 1)
      /\ DOMAIN s = 1..Len(s) /\ Len(s) \in Nat
  OBVIOUS
<1>4. 1..(Len(s) + 1) = 1..Len(s) \cup {Len(s) + 1}
  BY <1>3
<1> QED BY <1>1, <1>2, <1>3, <1>4, Zenon DEF Range

LEMMA AppendDistinct ==
  ASSUME NEW S, NEW s \in Seq(S), NEW e \in S,
         IsInjective(s), e \notin Range(s)
  PROVE  IsInjective(Append(s, e))
<1>1. ASSUME NEW a \in DOMAIN Append(s, e), NEW b \in DOMAIN Append(s, e),
             Append(s, e)[a] = Append(s, e)[b]
      PROVE  a = b
  <2>1. /\ a \in 1..(Len(s) + 1) /\ b \in 1..(Len(s) + 1)
        /\ DOMAIN s = 1..Len(s) /\ Len(s) \in Nat
    OBVIOUS
  <2>2. \A i \in 1..Len(s) : Append(s, e)[i] = s[i] /\ s[i] # e
    BY DEF Range
  <2>3. Append(s, e)[Len(s) + 1] = e
    OBVIOUS
  <2>4. CASE a \in 1..Len(s) /\ b \in 1..Len(s)
    BY <1>1, <2>1, <2>2, <2>4 DEF IsInjective
  <2>5. CASE ~(a \in 1..Len(s) /\ b \in 1..Len(s))
    BY <1>1, <2>1, <2>2, <2>3, <2>5
  <2> QED BY <2>4, <2>5
<1> QED BY <1>1, Zenon DEF IsInjective

(* The first two of a longer sequence. *)
LEMMA FirstTwo ==
  ASSUME NEW S, NEW s \in Seq(S), Len(s) > 2
  PROVE  /\ SubSeq(s, 1, 2) \in Seq(S)
         /\ Len(SubSeq(s, 1, 2)) = 2
         /\ Range(SubSeq(s, 1, 2)) \subseteq Range(s)
         /\ IsInjective(s) => IsInjective(SubSeq(s, 1, 2))
<1>1. /\ SubSeq(s, 1, 2) \in Seq(S)
      /\ Len(SubSeq(s, 1, 2)) = 2
      /\ \A i \in 1..2 : SubSeq(s, 1, 2)[i] = s[i]
  OBVIOUS
<1>2. DOMAIN SubSeq(s, 1, 2) = 1..2 /\ 1..2 \subseteq DOMAIN s
  BY <1>1
<1> QED BY <1>1, <1>2 DEF Range, IsInjective

LEMMA InRange ==
  ASSUME NEW S, NEW s \in Seq(S), NEW i \in 1..Len(s)
  PROVE  s[i] \in Range(s) /\ s[i] \in S
BY DEF Range

LEMMA EmptyRange ==
  Range(<<>>) = {} /\ IsInjective(<<>>)
<1>1. DOMAIN <<>> = {}
  OBVIOUS
<1>2. Range(<<>>) = {}
  BY <1>1, Zenon DEF Range
<1>3. IsInjective(<<>>)
  BY <1>1, Zenon DEF IsInjective
<1> QED BY <1>2, <1>3

LEMMA Bounds ==
  /\ NoBuffer \notin Buffers
  /\ Capacity \in Nat \ {0} /\ DropAbove \in Nat \ {0, 1} /\ MaxLines \in Nat
BY LoggingAssumption

LEMMA EmptyFits == Len(<<>>) <= Capacity
<1>1. Len(<<>>) = 0
  OBVIOUS
<1> QED BY <1>1, Bounds

(* "new Buffer" is a buffer that was not in use. *)
LEMMA FreshBuffer ==
  ASSUME NEW used, ~(Buffers \subseteq used)
  PROVE  Fresh(used) \in Buffers /\ Fresh(used) \notin used
<1>1. PICK b \in Buffers : b \notin used
  OBVIOUS
<1> QED BY <1>1, Zenon DEF Fresh

(* There are at least two buffers. *)
LEMMA TwoBuffers ==
  ASSUME NEW b PROVE ~(Buffers \subseteq {b})
<1>1. PICK four \in [1..4 -> Buffers] : IsInjective(four)
  BY LoggingAssumption
<1>2. four[1] # four[2]
  BY <1>1 DEF IsInjective
<1> QED BY <1>1, <1>2

----------------------------------------------------------------------------
LEMMA InitIInv == Init => IInv
<1> SUFFICES ASSUME Init PROVE IInv
  OBVIOUS
<1> USE Bounds
<1>1. currentBuffer \in Buffers
  <2>1. ~(Buffers \subseteq {})
    BY TwoBuffers
  <2> QED BY <2>1, FreshBuffer DEF Init
<1>2. nextBuffer \in Buffers /\ nextBuffer # currentBuffer
  <2>1. ~(Buffers \subseteq {currentBuffer})
    BY TwoBuffers
  <2> QED BY <2>1, FreshBuffer DEF Init
<1>3. content \in [Buffers -> Seq(Lines)] /\ \A b \in Buffers : content[b] = <<>>
  BY DEF Init
<1>4. TypeOK
  <2>1. \A b \in Buffers : Len(content[b]) <= Capacity
    BY <1>3, EmptyFits
  <2>2. /\ buffers \in Seq(Buffers) /\ buffersToWrite \in Seq(Buffers)
        /\ file \in Seq(Lines)
    BY DEF Init
  <2>3. /\ newBuffer1 \in Pointers /\ newBuffer2 \in Pointers
        /\ nextBuffer \in Pointers
    BY <1>2 DEF Init, Pointers
  <2>4. pc = "none" /\ written \in Nat /\ flushed \in Nat /\ appended \in 0..MaxLines
    BY DEF Init
  <2>5. running \in BOOLEAN
    BY Zenon DEF Init
  <2> QED BY <1>1, <1>3, <2>1, <2>2, <2>3, <2>4, <2>5 DEF TypeOK
<1>5. BuffersNotShared
  BY <1>1, <1>2, EmptyRange DEF Init, BuffersNotShared
<1>6. BatchByPhase /\ ReserveEmpty /\ NextUsedUp /\ pc # "starting"
  BY <1>2, <1>3 DEF Init, BatchByPhase, ReserveEmpty, NextUsedUp
<1> QED BY <1>4, <1>5, <1>6 DEF IInv

----------------------------------------------------------------------------
(* append(). *)

LEMMA AppendInPlaceIInv == ASSUME IInv, AppendInPlace PROVE IInv'
<1> USE Bounds DEF IInv, AppendInPlace, AppendLine
<1>1. appended' \in Lines /\ content[currentBuffer] \in Seq(Lines)
  BY DEF TypeOK, Lines
<1>2. /\ Append(content[currentBuffer], appended') \in Seq(Lines)
      /\ Len(Append(content[currentBuffer], appended')) <= Capacity
  BY <1>1 DEF TypeOK
<1>3. /\ content' \in [Buffers -> Seq(Lines)]
      /\ \A b \in Buffers : Len(content'[b]) <= Capacity
      /\ \A b \in Buffers \ {currentBuffer} : content'[b] = content[b]
  BY <1>2 DEF TypeOK
<1>4. TypeOK'
  BY <1>1, <1>3 DEF TypeOK, sharedVars, batchVars, fileVars, Pointers, Lines
<1>5. BuffersNotShared' /\ BatchByPhase' /\ NextUsedUp' /\ (pc = "starting" => running)'
  BY DEF BuffersNotShared, BatchByPhase, NextUsedUp, sharedVars, batchVars
<1>6. ReserveEmpty'
  BY <1>3 DEF ReserveEmpty, BuffersNotShared, TypeOK, Pointers, sharedVars, batchVars
<1> QED BY <1>4, <1>5, <1>6

(* The two ways of leaving a full currentBuffer_ differ in where the next  *)
(* one, b, comes from.                                                     *)
LEMMA LeaveBufferIInv ==
  ASSUME IInv, AppendLine,
         NEW b \in Buffers,
         b \notin {currentBuffer, newBuffer1, newBuffer2}
                    \cup Range(buffers) \cup Range(buffersToWrite),
         buffers' = Append(buffers, currentBuffer),
         currentBuffer' = b,
         nextBuffer' = NoBuffer,
         content' = [content EXCEPT ![b] = <<appended'>>]
  PROVE  IInv'
<1> USE Bounds DEF IInv, AppendLine
<1>1. appended' \in Lines /\ Len(<<appended'>>) <= Capacity
  BY DEF TypeOK, Lines
<1>2. /\ content' \in [Buffers -> Seq(Lines)]
      /\ \A c \in Buffers : Len(content'[c]) <= Capacity
      /\ \A c \in Buffers \ {b} : content'[c] = content[c]
  BY <1>1 DEF TypeOK
<1>3. /\ buffers' \in Seq(Buffers) /\ buffers' # <<>>
      /\ Range(buffers') = Range(buffers) \cup {currentBuffer}
  <2>1. buffers \in Seq(Buffers) /\ currentBuffer \in Buffers
    BY DEF TypeOK
  <2> QED BY <2>1, AppendRange
<1>4. IsInjective(buffers')
  BY AppendDistinct DEF TypeOK, BuffersNotShared
<1>5. TypeOK'
  BY <1>1, <1>2, <1>3 DEF TypeOK, batchVars, fileVars, Pointers, Lines
<1>6. BuffersNotShared'
  <2>1. buffersToWrite' = buffersToWrite /\ newBuffer1' = newBuffer1
        /\ newBuffer2' = newBuffer2
    BY DEF batchVars
  <2>2. b # NoBuffer /\ currentBuffer # NoBuffer
    BY DEF TypeOK
  <2>3. IsInjective(buffers') /\ IsInjective(buffersToWrite')
    BY <1>4, <2>1 DEF BuffersNotShared
  <2>4. NoBuffer \notin Range(buffers) /\ NoBuffer \notin Range(buffersToWrite)
    BY DEF TypeOK, Range
  <2> QED BY <1>3, <2>1, <2>2, <2>3, <2>4 DEF BuffersNotShared
<1>7. BatchByPhase' /\ NextUsedUp' /\ (pc = "starting" => running)'
  BY <1>3 DEF BatchByPhase, NextUsedUp, batchVars
<1>8. ReserveEmpty'
  BY <1>2 DEF ReserveEmpty, TypeOK, Pointers, batchVars
<1> QED BY <1>5, <1>6, <1>7, <1>8

LEMMA AppendToNextIInv == ASSUME IInv, AppendToNext PROVE IInv'
<1> USE Bounds DEF IInv
<1>1. nextBuffer \in Buffers /\ content[nextBuffer] = <<>>
  BY DEF AppendToNext, TypeOK, Pointers, ReserveEmpty
<1>2. nextBuffer \notin {currentBuffer, newBuffer1, newBuffer2}
                    \cup Range(buffers) \cup Range(buffersToWrite)
  BY <1>1 DEF BuffersNotShared, TypeOK, Pointers
<1>3. content' = [content EXCEPT ![nextBuffer] = <<appended'>>]
  <2>1. content' = [content EXCEPT ![nextBuffer] = Append(content[nextBuffer], appended')]
    BY DEF AppendToNext, TypeOK
  <2>2. Append(<<>>, appended') = <<appended'>>
    OBVIOUS
  <2> QED BY <2>1, <2>2, <1>1
<1>4. /\ AppendLine
      /\ buffers' = Append(buffers, currentBuffer)
      /\ currentBuffer' = nextBuffer /\ nextBuffer' = NoBuffer
  BY DEF AppendToNext
<1> QED BY <1>1, <1>2, <1>3, <1>4, LeaveBufferIInv

LEMMA AppendToNewIInv == ASSUME IInv, AppendToNew PROVE IInv'
<1>1. Fresh(InUse) \in Buffers /\ Fresh(InUse) \notin InUse
  BY FreshBuffer DEF AppendToNew
<1>2. Fresh(InUse) \notin {currentBuffer, newBuffer1, newBuffer2}
                    \cup Range(buffers) \cup Range(buffersToWrite)
  BY <1>1 DEF InUse
<1>3. /\ AppendLine
      /\ buffers' = Append(buffers, currentBuffer)
      /\ currentBuffer' = Fresh(InUse)
      /\ nextBuffer' = NoBuffer
      /\ content' = [content EXCEPT ![Fresh(InUse)] = <<appended'>>]
  BY DEF AppendToNew
<1> QED BY <1>1, <1>2, <1>3, LeaveBufferIInv

----------------------------------------------------------------------------
(* threadFunc. *)

LEMMA OpenIInv == ASSUME IInv, Open PROVE IInv'
<1> USE Bounds DEF IInv, Open
<1>1. newBuffer1' \in Buffers /\ newBuffer1' \notin InUse
  BY FreshBuffer
<1>2. newBuffer2' \in Buffers /\ newBuffer2' \notin InUse \cup {newBuffer1'}
  BY FreshBuffer
<1>3. /\ content' \in [Buffers -> Seq(Lines)]
      /\ content'[newBuffer1'] = <<>> /\ content'[newBuffer2'] = <<>>
      /\ \A b \in Buffers \ {newBuffer1', newBuffer2'} : content'[b] = content[b]
  <2>1. content \in [Buffers -> Seq(Lines)] /\ <<>> \in Seq(Lines)
    BY DEF TypeOK
  <2>2. content' = [content EXCEPT ![newBuffer1'] = <<>>, ![newBuffer2'] = <<>>]
    OBVIOUS
  <2> HIDE DEF IInv, Open
  <2> QED BY <1>1, <1>2, <2>1, <2>2
<1>4. \A b \in Buffers : Len(content'[b]) <= Capacity
  BY <1>3, EmptyFits DEF TypeOK
<1>5. TypeOK'
  BY <1>1, <1>2, <1>3, <1>4 DEF TypeOK, sharedVars, fileVars, Pointers, Lines
<1>6. BuffersNotShared'
  <2>1. /\ UNCHANGED <<buffers, buffersToWrite, currentBuffer, nextBuffer>>
        /\ newBuffer1 = NoBuffer /\ newBuffer2 = NoBuffer
    BY DEF sharedVars, BatchByPhase
  <2>2. /\ IsInjective(buffers') /\ IsInjective(buffersToWrite')
        /\ Range(buffers') = Range(buffers)
        /\ Range(buffersToWrite') = Range(buffersToWrite)
    BY <2>1 DEF BuffersNotShared
  <2>3. newBuffer1' \notin {newBuffer2', currentBuffer, nextBuffer}
                            \cup Range(buffers) \cup Range(buffersToWrite)
    BY <1>1, <1>2 DEF InUse
  <2>4. newBuffer2' \notin {newBuffer1', currentBuffer, nextBuffer}
                            \cup Range(buffers) \cup Range(buffersToWrite)
    BY <1>2 DEF InUse
  <2>5. BuffersNotShared
    OBVIOUS
  <2> HIDE DEF IInv, Open
  <2> QED BY <2>1, <2>2, <2>3, <2>4, <2>5 DEF BuffersNotShared
<1>7. BatchByPhase' /\ NextUsedUp' /\ (pc = "starting" => running)'
  BY <1>1, <1>2 DEF BatchByPhase, NextUsedUp, sharedVars, fileVars
<1>8. ReserveEmpty'
  <2>1. nextBuffer' = nextBuffer /\ nextBuffer \in Buffers \cup {NoBuffer}
    BY DEF sharedVars, TypeOK, Pointers
  <2>2. nextBuffer # NoBuffer => nextBuffer \in Buffers \ {newBuffer1', newBuffer2'}
    BY <1>1, <1>2, <2>1 DEF InUse
  <2>3. nextBuffer # NoBuffer => content[nextBuffer] = <<>>
    BY DEF ReserveEmpty
  <2> QED BY <1>3, <2>1, <2>2, <2>3 DEF ReserveEmpty
<1> QED BY <1>5, <1>6, <1>7, <1>8

LEMMA SwapIInv == ASSUME IInv, Swap PROVE IInv'
<1> USE Bounds DEF IInv, Swap
<1>1. /\ pc \in {"lock", "waiting"} /\ buffersToWrite = <<>>
      /\ newBuffer1 \in Buffers /\ newBuffer2 \in Buffers
  BY DEF BatchByPhase, TypeOK, Pointers
<1>2. /\ buffersToWrite' \in Seq(Buffers) /\ buffersToWrite' # <<>>
      /\ buffers # <<>> => Len(buffersToWrite') >= 2
      /\ Range(buffersToWrite') = Range(buffers) \cup {currentBuffer}
  BY AppendRange DEF TypeOK
<1>3. IsInjective(buffersToWrite')
  BY AppendDistinct DEF TypeOK, BuffersNotShared
<1>4. Range(buffers') = {} /\ IsInjective(buffers') /\ buffers' \in Seq(Buffers)
  BY EmptyRange
<1>5. TypeOK'
  BY <1>1, <1>2, <1>4 DEF TypeOK, fileVars, Pointers, Lines
<1>6. BuffersNotShared'
  <2>1. CASE nextBuffer = NoBuffer
    BY <1>1, <1>2, <1>3, <1>4, <2>1 DEF BuffersNotShared, TypeOK
  <2>2. CASE nextBuffer # NoBuffer
    <3>1. /\ nextBuffer' = nextBuffer /\ newBuffer2' = newBuffer2
          /\ currentBuffer' = newBuffer1 /\ newBuffer1' = NoBuffer
      BY <2>2
    <3>2. NoBuffer \notin Range(buffers) /\ NoBuffer # currentBuffer
      BY DEF TypeOK, Range
    <3> QED BY <1>1, <1>2, <1>3, <1>4, <2>2, <3>1, <3>2 DEF BuffersNotShared
  <2> QED BY <2>1, <2>2
<1>7. BatchByPhase'
  BY <1>1, <1>2 DEF BatchByPhase, NextUsedUp
<1>8. NextUsedUp' /\ (pc = "starting" => running)'
  BY <1>1 DEF NextUsedUp
<1>9. ReserveEmpty'
  BY <1>1 DEF ReserveEmpty
<1> QED BY <1>5, <1>6, <1>7, <1>8, <1>9

LEMMA TrimIInv == ASSUME IInv, Trim PROVE IInv'
<1> USE Bounds DEF IInv, Trim
<1>1. buffersToWrite \in Seq(Buffers) /\ DropAbove >= 2
  BY DEF TypeOK
<1>2. /\ buffersToWrite' \in Seq(Buffers)
      /\ Range(buffersToWrite') \subseteq Range(buffersToWrite)
      /\ IsInjective(buffersToWrite) => IsInjective(buffersToWrite')
      /\ Len(buffersToWrite) >= 2 => Len(buffersToWrite') >= 2
      /\ buffersToWrite # <<>> => buffersToWrite' # <<>>
  <2>1. CASE Len(buffersToWrite) > DropAbove
    <3>1. Len(buffersToWrite) > 2
      BY <1>1, <2>1
    <3>2. buffersToWrite' = SubSeq(buffersToWrite, 1, 2)
      BY <2>1
    <3> QED BY <1>1, <3>1, <3>2, FirstTwo
  <2>2. CASE ~(Len(buffersToWrite) > DropAbove)
    BY <1>1, <2>2
  <2> QED BY <2>1, <2>2
<1>3. TypeOK'
  BY <1>2 DEF TypeOK, sharedVars, fileVars, Pointers, Lines
<1>4. BuffersNotShared'
  BY <1>2 DEF BuffersNotShared, sharedVars, fileVars
<1>5. BatchByPhase' /\ NextUsedUp' /\ ReserveEmpty' /\ (pc = "starting" => running)'
  BY <1>2 DEF BatchByPhase, NextUsedUp, ReserveEmpty, sharedVars, fileVars
<1> QED BY <1>3, <1>4, <1>5

LEMMA WriteBufferIInv == ASSUME IInv, WriteBuffer PROVE IInv'
<1> USE DEF IInv, WriteBuffer
<1>1. content[buffersToWrite[written + 1]] \in Seq(Lines)
  <2>1. written + 1 \in 1..Len(buffersToWrite)
    BY DEF TypeOK
  <2>2. buffersToWrite[written + 1] \in Buffers
    BY <2>1 DEF TypeOK
  <2> QED BY <2>2 DEF TypeOK
<1>2. TypeOK'
  BY <1>1 DEF TypeOK, sharedVars, Pointers, Lines
<1>3. /\ BuffersNotShared' /\ BatchByPhase' /\ NextUsedUp' /\ ReserveEmpty'
      /\ (pc = "starting" => running)'
  BY DEF BuffersNotShared, BatchByPhase, NextUsedUp, ReserveEmpty, sharedVars
<1> QED BY <1>2, <1>3

LEMMA RecycleIInv == ASSUME IInv, Recycle PROVE IInv'
<1> USE Bounds DEF IInv, Recycle, EndIteration
<1> DEFINE last == IF Len(buffersToWrite) > 2 THEN 2 ELSE Len(buffersToWrite)
<1>1. /\ newBuffer1 = NoBuffer
      /\ last \in 1..Len(buffersToWrite) /\ 1 \in 1..Len(buffersToWrite)
      /\ newBuffer2 = NoBuffer => last = 2
  BY DEF BatchByPhase, TypeOK
<1>2. /\ newBuffer1' = buffersToWrite[last]
      /\ newBuffer1' \in Buffers /\ newBuffer1' \in Range(buffersToWrite)
  BY <1>1, InRange DEF Refill, TypeOK
<1>3. /\ newBuffer2' \in Buffers
      /\ newBuffer2' \in Range(buffersToWrite) \cup ({newBuffer2} \ {NoBuffer})
      /\ newBuffer2' # newBuffer1'
  <2>1. CASE newBuffer2 = NoBuffer
    <3>1. newBuffer2' = buffersToWrite[1] /\ last = 2
      BY <1>1, <2>1 DEF Refill
    <3>2. /\ IsInjective(buffersToWrite)
          /\ 1 \in DOMAIN buffersToWrite /\ 2 \in DOMAIN buffersToWrite
      <4>1. IsInjective(buffersToWrite)
        BY Zenon DEF BuffersNotShared
      <4>2. 1 \in DOMAIN buffersToWrite /\ 2 \in DOMAIN buffersToWrite
        <5>1. Len(buffersToWrite) >= 2
          BY <2>1 DEF BatchByPhase
        <5>2. DOMAIN buffersToWrite = 1..Len(buffersToWrite) /\ Len(buffersToWrite) \in Nat
          BY DEF TypeOK
        <5> QED BY ONLY <5>1, <5>2
      <4> QED BY <4>1, <4>2
    <3>3. buffersToWrite[1] # buffersToWrite[2]
      BY ONLY <3>2 DEF IsInjective
    <3> QED BY <1>1, <1>2, <3>1, <3>3, InRange DEF TypeOK
  <2>2. CASE newBuffer2 # NoBuffer
    BY <1>2, <2>2 DEF Refill, TypeOK, Pointers, BuffersNotShared
  <2> QED BY <2>1, <2>2
<1>4. /\ content' \in [Buffers -> Seq(Lines)]
      /\ content'[newBuffer1'] = <<>> /\ content'[newBuffer2'] = <<>>
      /\ \A b \in Buffers \ {newBuffer1', newBuffer2'} : content'[b] = content[b]
  <2>1. content \in [Buffers -> Seq(Lines)] /\ <<>> \in Seq(Lines)
    BY DEF TypeOK
  <2>2. content' = [content EXCEPT ![newBuffer1'] = <<>>, ![newBuffer2'] = <<>>]
    OBVIOUS
  <2> HIDE DEF IInv, Recycle, EndIteration
  <2> QED BY <1>2, <1>3, <2>1, <2>2
<1>5. \A b \in Buffers : Len(content'[b]) <= Capacity
  BY <1>4, EmptyFits DEF TypeOK
<1>6. TypeOK'
  <2>1. buffersToWrite' \in Seq(Buffers) /\ written' \in Nat /\ flushed' \in Nat
    BY DEF TypeOK
  <2>2. newBuffer1' \in Pointers /\ newBuffer2' \in Pointers
    BY <1>2, <1>3 DEF Pointers
  <2>3. /\ UNCHANGED <<running, currentBuffer, nextBuffer, buffers, file, appended>>
        /\ pc' = "test"
    BY DEF sharedVars
  <2> HIDE DEF Recycle, EndIteration
  <2> QED BY <1>4, <1>5, <2>1, <2>2, <2>3 DEF TypeOK, Pointers, Lines
<1>7. BuffersNotShared'
  <2>1. /\ UNCHANGED <<buffers, currentBuffer, nextBuffer>>
        /\ buffersToWrite' = <<>>
    BY DEF sharedVars
  <2>2. /\ IsInjective(buffers') /\ IsInjective(buffersToWrite')
        /\ Range(buffers') = Range(buffers)
        /\ Range(buffersToWrite') = {}
    BY <2>1, EmptyRange DEF BuffersNotShared
  <2> HIDE DEF Recycle, EndIteration
  <2> QED BY <1>2, <1>3, <2>1, <2>2 DEF BuffersNotShared
<1>8. BatchByPhase' /\ NextUsedUp' /\ (pc = "starting" => running)'
  BY <1>2, <1>3 DEF BatchByPhase, NextUsedUp, sharedVars
<1>9. ReserveEmpty'
  BY <1>2, <1>3, <1>4 DEF ReserveEmpty, BuffersNotShared, TypeOK, Pointers, sharedVars
<1> QED BY <1>6, <1>7, <1>8, <1>9

(* The steps that touch no buffer. *)
LEMMA ControlIInv ==
  ASSUME IInv, Start \/ Stop \/ Enter \/ TestRunning \/ WaitForBuffers
  PROVE  IInv'
<1> USE DEF IInv
<1>1. /\ UNCHANGED <<sharedVars, batchVars, content, file, appended>>
      /\ running' \in BOOLEAN /\ flushed' \in Nat
      /\ pc' \in {"starting", "opening", "test", "lock", "waiting", "done", pc}
  <2> USE DEF TypeOK, fileVars
  <2>1. CASE Start BY <2>1 DEF Start
  <2>2. CASE Stop BY <2>2 DEF Stop
  <2>3. CASE Enter BY <2>3 DEF Enter
  <2>4. CASE TestRunning
    <3>1. flushed' \in Nat /\ pc' \in {"lock", "done"}
      BY <2>4 DEF TestRunning
    <3>2. UNCHANGED <<running, sharedVars, batchVars, content, file, appended>>
      BY <2>4 DEF TestRunning
    <3> QED BY <3>1, <3>2
  <2>5. CASE WaitForBuffers BY <2>5 DEF WaitForBuffers
  <2> QED BY <2>1, <2>2, <2>3, <2>4, <2>5
<1>2. TypeOK'
  BY <1>1 DEF TypeOK, sharedVars, batchVars, Pointers, Lines
<1>3. BuffersNotShared' /\ NextUsedUp' /\ ReserveEmpty'
  BY <1>1 DEF BuffersNotShared, NextUsedUp, ReserveEmpty, sharedVars, batchVars
<1>4. BatchByPhase'
  BY DEF BatchByPhase, sharedVars, batchVars, Start, Stop, Enter, TestRunning,
         WaitForBuffers
<1>5. (pc = "starting" => running)'
  BY DEF Start, Stop, Enter, TestRunning, WaitForBuffers
<1> QED BY <1>2, <1>3, <1>4, <1>5

LEMMA NextIInv == ASSUME IInv, [Next]_vars PROVE IInv'
<1>1. CASE Start \/ Stop \/ Enter \/ TestRunning \/ WaitForBuffers
  BY <1>1, ControlIInv
<1>2. CASE AppendInPlace BY <1>2, AppendInPlaceIInv
<1>3. CASE AppendToNext BY <1>3, AppendToNextIInv
<1>4. CASE AppendToNew BY <1>4, AppendToNewIInv
<1>5. CASE Open BY <1>5, OpenIInv
<1>6. CASE Swap BY <1>6, SwapIInv
<1>7. CASE Trim BY <1>7, TrimIInv
<1>8. CASE WriteBuffer BY <1>8, WriteBufferIInv
<1>9. CASE Recycle BY <1>9, RecycleIInv
<1>10. CASE UNCHANGED vars
  BY <1>10 DEF IInv, TypeOK, Pointers, Lines, BuffersNotShared, BatchByPhase,
               ReserveEmpty, NextUsedUp, vars, sharedVars, batchVars, fileVars
<1> QED BY <1>1, <1>2, <1>3, <1>4, <1>5, <1>6, <1>7, <1>8, <1>9, <1>10
        DEF Next, LoggerStep

LEMMA Inductive == Spec => []IInv
<1>1. Init => IInv BY InitIInv
<1>2. IInv /\ [Next]_vars => IInv' BY NextIInv
<1> QED BY <1>1, <1>2, PTL DEF Spec

----------------------------------------------------------------------------
(* The variables of the logger have their types, and no buffer holds more  *)
(* lines than fit into it.                                                 *)
THEOREM TypeCorrect == Spec => []TypeOK
<1>1. IInv => TypeOK BY DEF IInv
<1> QED BY <1>1, Inductive, PTL

(* No assertion of threadFunc ever fails, whatever the threads that log do *)
(* and however many buffers pile up while a batch is being written.        *)
THEOREM AssertionsNeverFail == Spec => []AssertionsHold
<1>1. IInv => AssertionsHold
  <2> SUFFICES ASSUME IInv PROVE AssertionsHold
    OBVIOUS
  <2> USE DEF IInv
  <2>1. pc \in {"lock", "waiting"} =>
          /\ newBuffer1 # NoBuffer /\ content[newBuffer1] = <<>>
          /\ newBuffer2 # NoBuffer /\ content[newBuffer2] = <<>>
          /\ buffersToWrite = <<>>
    BY DEF BatchByPhase, ReserveEmpty
  <2>2. pc = "trim" => buffersToWrite # <<>>
    BY DEF BatchByPhase
  <2>3. pc = "write" /\ newBuffer1 = NoBuffer =>
          Len(buffersToWrite) >= (IF newBuffer2 = NoBuffer THEN 2 ELSE 1)
    BY DEF BatchByPhase, TypeOK
  <2> QED BY <2>1, <2>2, <2>3 DEF AssertionsHold
<1> QED BY <1>1, Inductive, PTL

(* The buffers the logger thread uses without the lock are its own. *)
THEOREM NoBufferShared == Spec => []BuffersNotShared
<1>1. IInv => BuffersNotShared BY DEF IInv
<1> QED BY <1>1, Inductive, PTL

----------------------------------------------------------------------------
(* What the lines of a sequence of buffers are.                            *)

(* The lines of the buffers bs when they hold what cont says.              *)
LinesIn(cont, bs) == FlattenSeq([i \in DOMAIN bs |-> cont[bs[i]]])

Contents == [Buffers -> Seq(Lines)]

LEMMA LinesMap ==
  ASSUME NEW cont \in Contents, NEW bs \in Seq(Buffers)
  PROVE  /\ [i \in DOMAIN bs |-> cont[bs[i]]] \in Seq(Seq(Lines))
         /\ Len([i \in DOMAIN bs |-> cont[bs[i]]]) = Len(bs)
         /\ \A i \in 1..Len(bs) : [j \in DOMAIN bs |-> cont[bs[j]]][i] = cont[bs[i]]
         /\ LinesIn(cont, bs) \in Seq(Lines)
<1>1. /\ Len(bs) \in Nat /\ DOMAIN bs = 1..Len(bs)
      /\ \A i \in 1..Len(bs) : bs[i] \in Buffers
  BY LenProperties, ElementOfSeq
<1>2. \A i \in 1..Len(bs) : cont[bs[i]] \in Seq(Lines)
  BY <1>1 DEF Contents
<1>3. [i \in DOMAIN bs |-> cont[bs[i]]] \in Seq(Seq(Lines))
      /\ Len([i \in DOMAIN bs |-> cont[bs[i]]]) = Len(bs)
  BY <1>1, <1>2
<1>4. LinesIn(cont, bs) \in Seq(Lines)
  BY <1>3, FlattenType DEF LinesIn
<1> QED BY <1>1, <1>3, <1>4

LEMMA LinesConcat ==
  ASSUME NEW cont \in Contents, NEW bs \in Seq(Buffers), NEW cs \in Seq(Buffers)
  PROVE  LinesIn(cont, bs \o cs) = LinesIn(cont, bs) \o LinesIn(cont, cs)
<1> DEFINE F(s) == [i \in DOMAIN s |-> cont[s[i]]]
           m == Len(bs)
           n == Len(cs)
           u == F(bs \o cs)
           b == F(bs)
           c == F(cs)
<1>1. /\ bs \o cs \in Seq(Buffers) /\ Len(bs \o cs) = m + n /\ m \in Nat /\ n \in Nat
      /\ \A i \in 1..(m + n) : (bs \o cs)[i] = IF i <= m THEN bs[i] ELSE cs[i - m]
  BY ConcatProperties, LenProperties
<1>2. /\ u \in Seq(Seq(Lines)) /\ Len(u) = m + n
      /\ \A i \in 1..(m + n) : u[i] = cont[(bs \o cs)[i]]
  BY <1>1, LinesMap
<1>3. /\ b \in Seq(Seq(Lines)) /\ Len(b) = m /\ \A i \in 1..m : b[i] = cont[bs[i]]
      /\ c \in Seq(Seq(Lines)) /\ Len(c) = n /\ \A i \in 1..n : c[i] = cont[cs[i]]
  BY LinesMap
<1> HIDE DEF u, b, c, m, n
<1>4. /\ b \o c \in Seq(Seq(Lines)) /\ Len(b \o c) = m + n
      /\ \A i \in 1..(m + n) : (b \o c)[i] = IF i <= m THEN b[i] ELSE c[i - m]
  <2> DEFINE S == Seq(Lines)
  <2>1. b \in Seq(S) /\ c \in Seq(S)
    BY <1>3
  <2> HIDE DEF S
  <2>2. /\ b \o c \in Seq(S) /\ Len(b \o c) = Len(b) + Len(c)
        /\ \A i \in 1..(Len(b) + Len(c)) :
             (b \o c)[i] = IF i <= Len(b) THEN b[i] ELSE c[i - Len(b)]
    BY <2>1, ConcatProperties
  <2>3. Len(b) = m /\ Len(c) = n
    BY <1>3
  <2> QED BY <2>2, <2>3 DEF S
<1>5. \A i \in 1..(m + n) : u[i] = (b \o c)[i]
  <2> SUFFICES ASSUME NEW i \in 1..(m + n) PROVE u[i] = (b \o c)[i]
    OBVIOUS
  <2>1. CASE i <= m
    <3>1. i \in 1..m
      BY <1>1, <2>1
    <3>2. (bs \o cs)[i] = bs[i] /\ (b \o c)[i] = b[i] /\ b[i] = cont[bs[i]]
      BY <1>1, <1>3, <1>4, <2>1, <3>1
    <3> QED BY <1>2, <3>2
  <2>2. CASE ~(i <= m)
    <3>1. i - m \in 1..n
      BY <1>1, <2>2
    <3>2. /\ (bs \o cs)[i] = cs[i - m] /\ (b \o c)[i] = c[i - m]
          /\ c[i - m] = cont[cs[i - m]]
      BY <1>1, <1>3, <1>4, <2>2, <3>1
    <3> QED BY <1>2, <3>2
  <2> QED BY <2>1, <2>2
<1>6. u = b \o c
  <2> DEFINE v == b \o c
  <2> HIDE DEF v
  <2>1. v \in Seq(Seq(Lines)) /\ Len(v) = m + n /\ \A i \in 1..(m + n) : u[i] = v[i]
    BY <1>4, <1>5 DEF v
  <2> QED BY <1>2, <2>1, SeqEqual DEF v
<1>7. FlattenSeq(b \o c) = FlattenSeq(b) \o FlattenSeq(c)
  BY <1>3, FlattenConcat
<1> QED BY <1>6, <1>7 DEF LinesIn, u, b, c

LEMMA LinesOne ==
  ASSUME NEW cont \in Contents, NEW a \in Buffers
  PROVE  LinesIn(cont, <<a>>) = cont[a]
<1>1. cont[a] \in Seq(Lines)
  BY DEF Contents
<1>2. [i \in DOMAIN <<a>> |-> cont[<<a>>[i]]] = Append(<<>>, cont[a])
  OBVIOUS
<1>3. <<>> \in Seq(Seq(Lines)) /\ <<>> \o cont[a] = cont[a]
  BY <1>1, ConcatEmptySeq
<1> QED BY <1>1, <1>2, <1>3, FlattenAppend, FlattenEmpty DEF LinesIn

LEMMA LinesNone == ASSUME NEW cont PROVE LinesIn(cont, <<>>) = <<>>
<1>1. [i \in DOMAIN <<>> |-> cont[<<>>[i]]] = <<>>
  OBVIOUS
<1> QED BY <1>1, FlattenEmpty DEF LinesIn

LEMMA LinesSame ==
  ASSUME NEW cont, NEW dont, NEW bs, \A b \in Range(bs) : cont[b] = dont[b]
  PROVE  LinesIn(cont, bs) = LinesIn(dont, bs)
<1>1. \A i \in DOMAIN bs : cont[bs[i]] = dont[bs[i]]
  BY DEF Range
<1>2. [i \in DOMAIN bs |-> cont[bs[i]]] = [i \in DOMAIN bs |-> dont[bs[i]]]
  BY <1>1
<1> QED BY <1>2 DEF LinesIn

(* Full buffers. *)
LEMMA LinesFull ==
  ASSUME NEW cont \in Contents, NEW bs \in Seq(Buffers),
         \A i \in 1..Len(bs) : Len(cont[bs[i]]) = Capacity
  PROVE  Len(LinesIn(cont, bs)) = Len(bs) * Capacity
<1> DEFINE P == {k \in Nat : \A cs \in Seq(Buffers) :
                   /\ Len(cs) = k
                   /\ \A i \in 1..k : Len(cont[cs[i]]) = Capacity
                   => Len(LinesIn(cont, cs)) = k * Capacity}
<1>0. Capacity \in Nat
  BY Bounds
<1>1. 0 \in P
  <2>1. \A cs \in Seq(Buffers) : Len(cs) = 0 => cs = <<>>
    OBVIOUS
  <2>2. Len(<<>>) = 0 /\ 0 * Capacity = 0
    BY <1>0
  <2> QED BY <2>1, <2>2, LinesNone
<1>2. ASSUME NEW k \in P PROVE k + 1 \in P
  <2>1. SUFFICES ASSUME NEW cs \in Seq(Buffers), Len(cs) = k + 1,
                        \A i \in 1..(k + 1) : Len(cont[cs[i]]) = Capacity
                 PROVE  Len(LinesIn(cont, cs)) = (k + 1) * Capacity
    OBVIOUS
  <2>2. PICK ds \in Seq(Buffers), a \in Buffers : cs = Append(ds, a)
    <3>1. cs # <<>>
      BY <2>1
    <3> QED BY <3>1, SequenceEmptyOrAppend
  <2>3. /\ Len(ds) = k /\ cs[k + 1] = a /\ \A i \in 1..k : cs[i] = ds[i]
        /\ cs = ds \o <<a>> /\ <<a>> \in Seq(Buffers)
    BY <2>1, <2>2, AppendProperties, AppendIsConcat
  <2>4. Len(LinesIn(cont, ds)) = k * Capacity
    <3>1. \A i \in 1..k : Len(cont[ds[i]]) = Capacity
      BY <2>1, <2>3
    <3> QED BY <2>3, <3>1
  <2>5. Len(cont[a]) = Capacity
    BY <2>1, <2>3
  <2>6. LinesIn(cont, cs) = LinesIn(cont, ds) \o cont[a]
    <3>1. LinesIn(cont, ds \o <<a>>) = LinesIn(cont, ds) \o LinesIn(cont, <<a>>)
      BY <2>3, LinesConcat
    <3>2. LinesIn(cont, <<a>>) = cont[a]
      BY LinesOne
    <3> QED BY <2>3, <3>1, <3>2
  <2>7. Len(LinesIn(cont, cs)) = k * Capacity + Capacity
    <3>1. LinesIn(cont, ds) \in Seq(Lines) /\ cont[a] \in Seq(Lines)
      BY LinesMap DEF Contents
    <3> QED BY <2>4, <2>5, <2>6, <3>1, ConcatProperties
  <2> QED BY <1>0, <2>7
<1> HIDE DEF P
<1>3. P = Nat
  BY <1>1, <1>2, InductionOverSet DEF P
<1>4. Len(bs) \in P
  BY <1>3
<1> QED BY <1>4 DEF P

----------------------------------------------------------------------------
(* Where a batch is while it is being written, and that a buffer is given  *)
(* up for another only when it is full, and that one is then filled.       *)
PipeInv ==
  /\ IF pc = "write" THEN written \in 0..Len(buffersToWrite) ELSE written = 0
  /\ \A b \in Range(buffers) : Len(content[b]) = Capacity
  /\ buffers # <<>> => content[currentBuffer] # <<>>
  /\ pc = "trim" =>
       \E front \in Seq(Buffers), b \in Buffers :
         /\ buffersToWrite = Append(front, b)
         /\ \A c \in Range(front) : Len(content[c]) = Capacity
         /\ front # <<>> => content[b] # <<>>

LEMMA InitPipeInv == Init => PipeInv
<1>1. Range(<<>>) = {}
  BY EmptyRange
<1> QED BY <1>1 DEF Init, PipeInv

LEMMA PipeInvLeave ==
  ASSUME IInv, PipeInv, AppendLine, Len(content[currentBuffer]) = Capacity,
         NEW b \in Buffers,
         b \notin {currentBuffer, newBuffer1, newBuffer2}
                    \cup Range(buffers) \cup Range(buffersToWrite),
         buffers' = Append(buffers, currentBuffer),
         currentBuffer' = b,
         content' = [content EXCEPT ![b] = <<appended'>>]
  PROVE  PipeInv'
<1>1. /\ Range(buffers') = Range(buffers) \cup {currentBuffer}
      /\ \A c \in Buffers \ {b} : content'[c] = content[c]
      /\ content'[b] = <<appended'>> /\ currentBuffer \in Buffers
      /\ Range(buffers) \subseteq Buffers
  <2>1. buffers \in Seq(Buffers) /\ content \in Contents /\ currentBuffer \in Buffers
    BY DEF IInv, TypeOK, Contents
  <2>2. Range(buffers') = Range(buffers) \cup {currentBuffer}
    BY <2>1, AppendRange
  <2>3. /\ \A c \in Buffers \ {b} : content'[c] = content[c]
        /\ content'[b] = <<appended'>>
    BY <2>1 DEF Contents
  <2>4. Range(buffers) \subseteq Buffers
    BY <2>1 DEF Range
  <2> QED BY <2>1, <2>2, <2>3, <2>4
<1>2. <<appended'>> # <<>>
  OBVIOUS
<1>3. /\ \A c \in Range(buffers') : Len(content'[c]) = Capacity
      /\ content'[currentBuffer'] # <<>>
  <2>1. ASSUME NEW c \in Range(buffers') PROVE Len(content'[c]) = Capacity
    <3>1. c \in Buffers \ {b} /\ Len(content[c]) = Capacity
      BY <1>1, <2>1 DEF PipeInv
    <3> QED BY <1>1, <3>1
  <2>2. content'[currentBuffer'] = <<appended'>>
    BY <1>1
  <2> QED BY <1>2, <2>1, <2>2
<1>4. UNCHANGED <<pc, written, buffersToWrite>>
  BY DEF AppendLine, batchVars
<1>5. ASSUME pc = "trim"
      PROVE  \E front \in Seq(Buffers), a \in Buffers :
               /\ buffersToWrite = Append(front, a)
               /\ \A c \in Range(front) : Len(content'[c]) = Capacity
               /\ front # <<>> => content'[a] # <<>>
  <2>1. PICK front \in Seq(Buffers), a \in Buffers :
          /\ buffersToWrite = Append(front, a)
          /\ \A c \in Range(front) : Len(content[c]) = Capacity
          /\ front # <<>> => content[a] # <<>>
    BY <1>5 DEF PipeInv
  <2>2. Range(buffersToWrite) = Range(front) \cup {a}
    BY <2>1, AppendRange
  <2>3. Range(front) \subseteq Buffers
    BY DEF Range
  <2>4. a # b /\ b \notin Range(front)
    BY <2>2
  <2> QED BY <1>1, <2>1, <2>3, <2>4
<1> QED BY <1>3, <1>4, <1>5 DEF PipeInv

(* The contents of the buffers that hold lines may change elsewhere. *)
LEMMA PipeInvKept ==
  ASSUME IInv, PipeInv, UNCHANGED <<buffers, currentBuffer>>,
         \A b \in Range(buffers) \cup {currentBuffer} : content'[b] = content[b],
         pc' # "trim",
         IF pc' = "write" THEN written' \in 0..Len(buffersToWrite') ELSE written' = 0
  PROVE  PipeInv'
BY DEF PipeInv

LEMMA PipeInvNext == ASSUME IInv, PipeInv, IInv', [Next]_vars PROVE PipeInv'
<1>0. /\ TypeOK /\ BuffersNotShared /\ BatchByPhase
      /\ buffersToWrite \in Seq(Buffers) /\ buffers \in Seq(Buffers)
      /\ content \in Contents /\ currentBuffer \in Buffers /\ BuffersNotShared'
  BY DEF IInv, TypeOK, Contents
<1>1. CASE Start \/ Stop \/ Enter \/ TestRunning \/ WaitForBuffers \/ UNCHANGED vars
  <2> USE <1>1 DEF Start, Stop, Enter, TestRunning, WaitForBuffers, vars, batchVars,
                   sharedVars
  <2>1. /\ UNCHANGED <<buffers, currentBuffer, content, written, buffersToWrite>>
        /\ pc' \in {"trim", "write"} \/ pc \in {"trim", "write"} => pc' = pc
    OBVIOUS
  <2> HIDE <1>1
  <2> QED BY <2>1 DEF PipeInv
<1>2. CASE AppendInPlace
  <2>1. /\ UNCHANGED <<pc, written, buffers, currentBuffer, buffersToWrite>>
        /\ content' = [content EXCEPT ![currentBuffer]
                         = Append(content[currentBuffer], appended')]
    BY <1>2 DEF AppendInPlace, AppendLine, batchVars, sharedVars
  <2>2. /\ \A c \in Buffers \ {currentBuffer} : content'[c] = content[c]
        /\ content'[currentBuffer] # <<>>
        /\ Range(buffers) \subseteq Buffers /\ Range(buffersToWrite) \subseteq Buffers
    <3>1. content[currentBuffer] \in Seq(Lines) /\ appended' \in Lines
      BY <1>0, <1>2, Bounds DEF AppendInPlace, AppendLine, TypeOK, Lines
    <3>2. content'[currentBuffer] = Append(content[currentBuffer], appended')
      BY <1>0, <2>1 DEF Contents
    <3>3. content'[currentBuffer] # <<>>
      BY <3>1, <3>2, AppendProperties
    <3> QED BY <1>0, <2>1, <3>3 DEF Contents, Range
  <2>3. \A c \in Range(buffers) \cup Range(buffersToWrite) : content'[c] = content[c]
    BY <1>0, <2>2 DEF BuffersNotShared
  <2>4. ASSUME pc = "trim"
        PROVE  \E front \in Seq(Buffers), a \in Buffers :
                 /\ buffersToWrite = Append(front, a)
                 /\ \A c \in Range(front) : Len(content'[c]) = Capacity
                 /\ front # <<>> => content'[a] # <<>>
    <3>1. PICK front \in Seq(Buffers), a \in Buffers :
            /\ buffersToWrite = Append(front, a)
            /\ \A c \in Range(front) : Len(content[c]) = Capacity
            /\ front # <<>> => content[a] # <<>>
      BY <2>4 DEF PipeInv
    <3>2. Range(buffersToWrite) = Range(front) \cup {a}
      BY <3>1, AppendRange
    <3> QED BY <2>3, <3>1, <3>2
  <2> QED BY <2>1, <2>2, <2>3, <2>4 DEF PipeInv
<1>3. CASE AppendToNext
  <2>1. nextBuffer \in Buffers /\ content[nextBuffer] = <<>>
    BY <1>3 DEF IInv, AppendToNext, TypeOK, Pointers, ReserveEmpty
  <2>2. nextBuffer \notin {currentBuffer, newBuffer1, newBuffer2}
                    \cup Range(buffers) \cup Range(buffersToWrite)
    BY <2>1, Bounds DEF IInv, BuffersNotShared, TypeOK, Pointers
  <2>3. content' = [content EXCEPT ![nextBuffer] = <<appended'>>]
    <3>1. content' = [content EXCEPT ![nextBuffer] = Append(content[nextBuffer], appended')]
      BY <1>3, <1>0, <2>1 DEF AppendToNext
    <3>2. Append(<<>>, appended') = <<appended'>>
      OBVIOUS
    <3> QED BY <2>1, <3>1, <3>2
  <2> QED BY <1>3, <2>1, <2>2, <2>3, PipeInvLeave DEF AppendToNext
<1>4. CASE AppendToNew
  <2>1. Fresh(InUse) \in Buffers /\ Fresh(InUse) \notin InUse
    BY <1>4, FreshBuffer DEF AppendToNew
  <2>2. Fresh(InUse) \notin {currentBuffer, newBuffer1, newBuffer2}
                    \cup Range(buffers) \cup Range(buffersToWrite)
    BY <2>1 DEF InUse
  <2> QED BY <1>4, <2>1, <2>2, PipeInvLeave DEF AppendToNew
<1>5. CASE Open
  <2>1. /\ pc = "opening" /\ pc' = "test"
        /\ UNCHANGED <<buffers, currentBuffer, written>>
        /\ content' = [content EXCEPT ![newBuffer1'] = <<>>, ![newBuffer2'] = <<>>]
    BY <1>5 DEF Open, sharedVars
  <2>2. \A b \in Range(buffers) \cup {currentBuffer} :
          b \in Buffers /\ b # newBuffer1' /\ b # newBuffer2'
    BY <1>0, <2>1, SMTT(30) DEF BuffersNotShared, Range
  <2>3. \A b \in Range(buffers) \cup {currentBuffer} : content'[b] = content[b]
    BY <1>0, <2>1, <2>2 DEF Contents
  <2> QED BY <2>1, <2>3, PipeInvKept DEF PipeInv
<1>6. CASE Swap
  <2>1. /\ pc' = "trim" /\ written' = written /\ pc \in {"lock", "waiting"}
        /\ buffersToWrite' = Append(buffers, currentBuffer)
        /\ buffers' = <<>> /\ content' = content
    BY <1>6 DEF Swap
  <2>2. Range(buffers') = {}
    BY <2>1, EmptyRange
  <2> QED BY <1>0, <2>1, <2>2 DEF PipeInv
<1>7. CASE Trim
  <2>1. /\ pc = "trim" /\ pc' = "write" /\ written' = written
        /\ UNCHANGED <<buffers, currentBuffer, content>>
    BY <1>7 DEF Trim, sharedVars
  <2>2. written' = 0 /\ buffersToWrite' \in Seq(Buffers)
    BY <2>1 DEF PipeInv, IInv, TypeOK
  <2>3. 0 \in 0..Len(buffersToWrite')
    BY <2>2
  <2> QED BY <2>1, <2>2, <2>3, PipeInvKept
<1>8. CASE WriteBuffer
  <2>1. /\ pc = "write" /\ pc' = "write" /\ written' = written + 1
        /\ written < Len(buffersToWrite)
        /\ UNCHANGED <<buffers, currentBuffer, content, buffersToWrite>>
    BY <1>8 DEF WriteBuffer, sharedVars
  <2>2. written' \in 0..Len(buffersToWrite')
    BY <1>0, <2>1 DEF PipeInv
  <2> QED BY <2>1, <2>2, PipeInvKept
<1>9. CASE Recycle
  <2>1. /\ pc' = "test" /\ written' = 0 /\ UNCHANGED <<buffers, currentBuffer>>
        /\ content' = [content EXCEPT ![newBuffer1'] = <<>>, ![newBuffer2'] = <<>>]
    BY <1>9 DEF Recycle, EndIteration, sharedVars
  <2>2. \A b \in Range(buffers) \cup {currentBuffer} :
          b \in Buffers /\ b # newBuffer1' /\ b # newBuffer2'
    BY <1>0, <2>1, SMTT(30) DEF BuffersNotShared, Range
  <2>3. \A b \in Range(buffers) \cup {currentBuffer} : content'[b] = content[b]
    BY <1>0, <2>1, <2>2 DEF Contents
  <2> QED BY <2>1, <2>3, PipeInvKept
<1> QED BY <1>1, <1>2, <1>3, <1>4, <1>5, <1>6, <1>7, <1>8, <1>9 DEF Next, LoggerStep

----------------------------------------------------------------------------
(* The backlog, step by step.                                              *)

(* The buffers of the batch that are still to be written. *)
Rest == SubSeq(buffersToWrite, written + 1, Len(buffersToWrite))

LEMMA RestProperties ==
  ASSUME IInv, PipeInv
  PROVE  /\ Rest \in Seq(Buffers)
         /\ Range(Rest) \subseteq Range(buffersToWrite)
         /\ Range(Rest) \subseteq Buffers /\ Range(buffers) \subseteq Buffers
         /\ written = 0 => Rest = buffersToWrite
         /\ written = Len(buffersToWrite) => Rest = <<>>
<1> DEFINE n == Len(buffersToWrite)
<1>1. buffersToWrite \in Seq(Buffers) /\ n \in Nat /\ written \in 0..n
  BY DEF IInv, TypeOK, PipeInv
<1>2. \A i \in (written + 1)..n : buffersToWrite[i] \in Range(buffersToWrite)
  BY <1>1, InRange
<1>3. \A i \in (written + 1)..n : buffersToWrite[i] \in Buffers
  BY <1>1, ElementOfSeq
<1>4. written + 1 \in Int /\ n \in Int
  BY <1>1
<1>5. Rest \in Seq(Buffers) /\ Rest \in Seq(Range(buffersToWrite))
  <2> HIDE DEF n
  <2>1. SubSeq(buffersToWrite, written + 1, n) \in Seq(Buffers)
    BY <1>3, <1>4, SubSeqProperties
  <2>2. SubSeq(buffersToWrite, written + 1, n) \in Seq(Range(buffersToWrite))
    BY <1>2, <1>4, SubSeqProperties
  <2> QED BY <2>1, <2>2 DEF Rest, n
<1>6. Range(Rest) \subseteq Range(buffersToWrite)
  <2>1. \A i \in DOMAIN Rest : Rest[i] \in Range(buffersToWrite)
    BY <1>5
  <2> QED BY <2>1 DEF Range
<1>7. written = 0 => Rest = buffersToWrite
  BY <1>1, SubSeqFull DEF Rest
<1>8. written = n => Rest = <<>>
  BY <1>1, SubSeqEmpty DEF Rest
<1>9. Range(buffersToWrite) \subseteq Buffers /\ Range(buffers) \subseteq Buffers
  <2>1. buffersToWrite \in Seq(Buffers) /\ buffers \in Seq(Buffers)
    BY DEF IInv, TypeOK
  <2> QED BY <2>1 DEF Range
<1> QED BY <1>5, <1>6, <1>7, <1>8, <1>9

LEMMA BacklogParts ==
  ASSUME IInv, PipeInv
  PROVE  /\ LinesIn(content, Rest) \in Seq(Lines)
         /\ LinesIn(content, buffers) \in Seq(Lines)
         /\ content[currentBuffer] \in Seq(Lines)
         /\ content \in Contents
         /\ Backlog \in Seq(Lines)
         /\ Backlog = LinesIn(content, Rest)
                        \o (LinesIn(content, buffers) \o content[currentBuffer])
<1> DEFINE r == LinesIn(content, Rest)
           b == LinesIn(content, buffers)
           c == content[currentBuffer]
<1>1. content \in Contents /\ buffers \in Seq(Buffers) /\ currentBuffer \in Buffers
  BY DEF IInv, TypeOK, Contents
<1>2. r \in Seq(Lines) /\ b \in Seq(Lines) /\ c \in Seq(Lines)
  BY <1>1, LinesMap, RestProperties DEF Contents
<1>3. Backlog = (r \o b) \o c
  BY DEF Backlog, LinesOf, LinesIn, Rest
<1> HIDE DEF r, b, c
<1>4. (r \o b) \o c = r \o (b \o c) /\ (r \o b) \o c \in Seq(Lines)
  BY <1>2, ConcatAssociative, ConcatProperties, SMTT(30)
<1> QED BY <1>1, <1>2, <1>3, <1>4 DEF r, b, c

LEMMA BacklogUnfolded ==
  Backlog = (LinesIn(content, Rest) \o LinesIn(content, buffers)) \o content[currentBuffer]
BY DEF Backlog, LinesOf, LinesIn, Rest

(* The backlog is what the buffers in it hold. *)
LEMMA BacklogSame ==
  ASSUME IInv, PipeInv, UNCHANGED <<buffers, currentBuffer>>, Rest' = Rest,
         \A b \in Range(buffers) \cup {currentBuffer} \cup Range(Rest) :
           content'[b] = content[b]
  PROVE  Backlog' = Backlog
<1>1. Backlog' = (LinesIn(content', Rest') \o LinesIn(content', buffers'))
                   \o content'[currentBuffer']
  BY DEF Backlog, LinesOf, LinesIn, Rest
<1>2. LinesIn(content', Rest) = LinesIn(content, Rest)
  BY LinesSame
<1>3. LinesIn(content', buffers) = LinesIn(content, buffers)
  BY LinesSame
<1> QED BY <1>1, <1>2, <1>3, BacklogUnfolded

LEMMA InPlaceIsAccept ==
  ASSUME IInv, PipeInv, AppendInPlace
  PROVE  Pipe!Accept
<1> DEFINE r == LinesIn(content, Rest)
           b == LinesIn(content, buffers)
           c == content[currentBuffer]
<1>1. /\ UNCHANGED <<written, buffersToWrite, buffers, currentBuffer, file>>
      /\ appended' = appended + 1 /\ appended' \in Lines
      /\ content' = [content EXCEPT ![currentBuffer]
                       = Append(content[currentBuffer], appended')]
  BY Bounds DEF AppendInPlace, AppendLine, batchVars, sharedVars, fileVars,
                IInv, TypeOK, Lines
<1>2. /\ r \in Seq(Lines) /\ b \in Seq(Lines) /\ c \in Seq(Lines)
      /\ content \in Contents /\ currentBuffer \in Buffers
  BY BacklogParts DEF IInv, TypeOK
<1>3. /\ currentBuffer \notin Range(buffers) /\ currentBuffer \notin Range(Rest)
      /\ Range(buffers) \subseteq Buffers /\ Range(Rest) \subseteq Buffers
  BY RestProperties DEF IInv, BuffersNotShared
<1>4. content'[currentBuffer] = Append(c, appended')
  BY <1>1, <1>2 DEF Contents
<1>5. \A a \in Range(buffers) \cup Range(Rest) : content'[a] = content[a]
  BY <1>1, <1>2, <1>3 DEF Contents
<1>6. Rest' = Rest
  BY <1>1 DEF Rest
<1>7. LinesIn(content', Rest) = r /\ LinesIn(content', buffers) = b
  BY <1>5, LinesSame
<1>8. Backlog' = (r \o b) \o Append(c, appended')
  <2>1. Backlog' = (LinesIn(content', Rest') \o LinesIn(content', buffers'))
                     \o content'[currentBuffer']
    BY DEF Backlog, LinesOf, LinesIn, Rest
  <2> HIDE DEF r, b, c
  <2> QED BY <1>1, <1>4, <1>6, <1>7, <2>1
<1>9. Backlog = (r \o b) \o c
  BY BacklogUnfolded
<1> HIDE DEF r, b, c
<1>10. (r \o b) \o Append(c, appended') = Append((r \o b) \o c, appended')
  <2>1. r \o b \in Seq(Lines)
    BY <1>2, ConcatProperties
  <2> QED BY <1>1, <1>2, <2>1, ConcatAppend
<1> QED BY <1>1, <1>8, <1>9, <1>10 DEF Pipe!Accept

LEMMA LeaveIsAccept ==
  ASSUME IInv, PipeInv, AppendLine,
         NEW n \in Buffers,
         n \notin {currentBuffer} \cup Range(buffers) \cup Range(buffersToWrite),
         buffers' = Append(buffers, currentBuffer),
         currentBuffer' = n,
         content' = [content EXCEPT ![n] = <<appended'>>]
  PROVE  Pipe!Accept
<1> DEFINE r == LinesIn(content, Rest)
           b == LinesIn(content, buffers)
           c == content[currentBuffer]
<1>1. /\ UNCHANGED <<written, buffersToWrite, file>>
      /\ appended' = appended + 1 /\ appended' \in Lines
  BY Bounds DEF AppendLine, batchVars, fileVars, IInv, TypeOK, Lines
<1>2. /\ r \in Seq(Lines) /\ b \in Seq(Lines) /\ c \in Seq(Lines)
      /\ content \in Contents /\ currentBuffer \in Buffers
      /\ buffers \in Seq(Buffers)
  BY BacklogParts DEF IInv, TypeOK
<1>3. /\ n \notin Range(buffers) /\ n \notin Range(Rest) /\ n # currentBuffer
      /\ Range(buffers) \subseteq Buffers /\ Range(Rest) \subseteq Buffers
  BY RestProperties
<1>4. content'[n] = <<appended'>> /\ content'[currentBuffer] = c
  BY <1>2, <1>3 DEF Contents
<1>5. /\ \A a \in Range(buffers) : content'[a] = content[a]
      /\ \A a \in Range(Rest) : content'[a] = content[a]
  BY <1>2, <1>3 DEF Contents
<1>6. Rest' = Rest
  BY <1>1 DEF Rest
<1>7. LinesIn(content', Rest) = r
  <2> DEFINE next == content'
  <2>1. \A a \in Range(Rest) : next[a] = content[a]
    BY <1>5
  <2> HIDE DEF next
  <2>2. LinesIn(next, Rest) = LinesIn(content, Rest)
    BY <2>1, LinesSame
  <2> QED BY <2>2 DEF next
<1>8. LinesIn(content', buffers') = b \o c
  <2>1. Range(buffers') = Range(buffers) \cup {currentBuffer}
    BY <1>2, AppendRange
  <2>2. LinesIn(content', buffers') = LinesIn(content, buffers')
    <3> DEFINE bs == buffers'
               next == content'
    <3>1. \A a \in Range(bs) : next[a] = content[a]
      BY <1>4, <1>5, <2>1
    <3> HIDE DEF bs, next
    <3>2. LinesIn(next, bs) = LinesIn(content, bs)
      BY <3>1, LinesSame
    <3> QED BY <3>2 DEF bs, next
  <2>3. buffers' = buffers \o <<currentBuffer>> /\ <<currentBuffer>> \in Seq(Buffers)
    BY <1>2, AppendIsConcat
  <2>4. LinesIn(content, buffers \o <<currentBuffer>>)
          = LinesIn(content, buffers) \o LinesIn(content, <<currentBuffer>>)
    BY <1>2, <2>3, LinesConcat
  <2>5. LinesIn(content, <<currentBuffer>>) = c
    BY <1>2, LinesOne
  <2> QED BY <2>2, <2>3, <2>4, <2>5
<1>9. Backlog' = (r \o (b \o c)) \o <<appended'>>
  <2>1. Backlog' = (LinesIn(content', Rest') \o LinesIn(content', buffers'))
                     \o content'[currentBuffer']
    BY DEF Backlog, LinesOf, LinesIn, Rest
  <2> HIDE DEF r, b, c
  <2> QED BY <1>4, <1>6, <1>7, <1>8, <2>1
<1>10. Backlog = r \o (b \o c)
  BY BacklogParts
<1> HIDE DEF r, b, c
<1>11. (r \o (b \o c)) \o <<appended'>> = Append(r \o (b \o c), appended')
  <2>1. r \o (b \o c) \in Seq(Lines)
    BY <1>2, ConcatProperties
  <2> QED BY <1>1, <2>1, AppendIsConcat
<1> QED BY <1>1, <1>9, <1>10, <1>11 DEF Pipe!Accept

(* The batch takes over what was in the buffers.                           *)
LEMMA SwapKeepsBacklog ==
  ASSUME IInv, PipeInv, IInv', PipeInv', Swap
  PROVE  Backlog' = Backlog
<1> DEFINE b == LinesIn(content, buffers)
           c == content[currentBuffer]
<1>1. /\ buffersToWrite = <<>> /\ written = 0
      /\ buffersToWrite' = Append(buffers, currentBuffer) /\ written' = 0
      /\ buffers' = <<>> /\ content' = content /\ currentBuffer' = newBuffer1
      /\ newBuffer1 # NoBuffer
  BY DEF Swap, IInv, BatchByPhase, PipeInv
<1>2. b \in Seq(Lines) /\ c \in Seq(Lines) /\ content \in Contents
      /\ buffers \in Seq(Buffers) /\ currentBuffer \in Buffers
  BY BacklogParts DEF IInv, TypeOK
<1>3. Rest = <<>> /\ Rest' = buffers \o <<currentBuffer>>
  <2>1. Rest = buffersToWrite
    BY <1>1, RestProperties
  <2>2. Rest' = SubSeq(buffersToWrite', 1, Len(buffersToWrite'))
    BY <1>1 DEF Rest
  <2>3. buffersToWrite' \in Seq(Buffers)
    BY DEF IInv, TypeOK
  <2>4. Rest' = buffersToWrite'
    BY <2>2, <2>3, SubSeqFull
  <2> QED BY <1>1, <1>2, <2>1, <2>4, AppendIsConcat
<1>4. content[newBuffer1] = <<>>
  BY <1>1 DEF IInv, ReserveEmpty
<1>5. LinesIn(content', Rest') = b \o c
  <2>1. <<currentBuffer>> \in Seq(Buffers)
    BY <1>2
  <2>2. LinesIn(content, buffers \o <<currentBuffer>>)
          = LinesIn(content, buffers) \o LinesIn(content, <<currentBuffer>>)
    BY <1>2, <2>1, LinesConcat
  <2>3. LinesIn(content, <<currentBuffer>>) = c
    BY <1>2, LinesOne
  <2> QED BY <1>1, <1>3, <2>2, <2>3
<1>6. LinesIn(content', buffers') = <<>> /\ LinesIn(content, Rest) = <<>>
  BY <1>1, <1>3, LinesNone
<1>7. Backlog' = (LinesIn(content', Rest') \o LinesIn(content', buffers'))
                   \o content'[currentBuffer']
  BY DEF Backlog, LinesOf, LinesIn, Rest
<1>8. Backlog = LinesIn(content, Rest) \o (b \o c)
  BY BacklogParts
<1> HIDE DEF b, c
<1>9. Backlog' = ((b \o c) \o <<>>) \o <<>> /\ Backlog = <<>> \o (b \o c)
  BY <1>1, <1>4, <1>5, <1>6, <1>7, <1>8
<1>10. b \o c \in Seq(Lines)
  BY <1>2, ConcatProperties
<1> QED BY <1>9, <1>10, ConcatEmptySeq

(* What is thrown away of too long a batch. *)
LEMMA TrimIsDiscard ==
  ASSUME IInv, PipeInv, Trim, Len(buffersToWrite) > DropAbove
  PROVE  Pipe!Discard
<1> DEFINE kept == SubSeq(buffersToWrite, 1, 2)
           w == LinesIn(content, buffersToWrite)
           k == LinesIn(content, kept)
           h == LinesIn(content, buffers) \o content[currentBuffer]
<1>1. /\ pc = "trim" /\ buffersToWrite' = kept
      /\ UNCHANGED <<written, buffers, currentBuffer, content, file, appended>>
  BY DEF Trim, sharedVars, fileVars
<1>2. /\ written = 0 /\ Rest = buffersToWrite
      /\ buffersToWrite \in Seq(Buffers) /\ buffers \in Seq(Buffers)
      /\ Len(buffersToWrite) \in Nat /\ Len(buffersToWrite) > 2
      /\ content \in Contents
  <2>1. /\ buffersToWrite \in Seq(Buffers) /\ buffers \in Seq(Buffers)
        /\ content \in Contents
    BY DEF IInv, TypeOK, Contents
  <2>2. written = 0
    BY <1>1 DEF PipeInv
  <2>3. Len(buffersToWrite) \in Nat
    BY <2>1, LenProperties
  <2> QED BY <2>1, <2>2, <2>3, RestProperties, Bounds
<1>3. PICK front \in Seq(Buffers), b \in Buffers :
        /\ buffersToWrite = Append(front, b)
        /\ \A c \in Range(front) : Len(content[c]) = Capacity
        /\ front # <<>> => content[b] # <<>>
  BY <1>1 DEF PipeInv
<1>4. /\ Len(front) \in Nat /\ Len(buffersToWrite) = Len(front) + 1
      /\ \A i \in 1..Len(front) : buffersToWrite[i] = front[i]
      /\ \A i \in 1..Len(front) : Len(content[front[i]]) = Capacity
  <2>1. /\ Len(front) \in Nat /\ Len(buffersToWrite) = Len(front) + 1
        /\ \A i \in 1..Len(front) : buffersToWrite[i] = front[i]
    BY <1>3, AppendProperties, LenProperties
  <2>2. \A i \in 1..Len(front) : front[i] \in Range(front)
    BY InRange
  <2> QED BY <1>3, <2>1, <2>2
<1>5. /\ Len(front) >= DropAbove /\ DropAbove >= 2 /\ Capacity >= 1
      /\ DropAbove \in Nat /\ Capacity \in Nat
  BY <1>4, Bounds
<1>6. /\ kept \in Seq(Buffers) /\ Len(kept) = 2
      /\ \A i \in 1..2 : kept[i] = buffersToWrite[i]
  <2> DEFINE n == Len(buffersToWrite)
  <2>1. \A i \in 1..2 : buffersToWrite[i] \in Buffers
    BY <1>2
  <2> QED BY <2>1, SubSeqProperties
<1>7. Len(k) = 2 * Capacity /\ k \in Seq(Lines)
  <2>1. \A i \in 1..2 : Len(content[kept[i]]) = Capacity
    BY <1>4, <1>5, <1>6
  <2> HIDE DEF kept
  <2>2. \A i \in 1..Len(kept) : Len(content[kept[i]]) = Capacity
    BY <1>6, <2>1
  <2>3. Len(LinesIn(content, kept)) = Len(kept) * Capacity
    BY <1>2, <1>6, <2>2, LinesFull
  <2>4. LinesIn(content, kept) \in Seq(Lines)
    BY <1>2, <1>6, LinesMap
  <2> QED BY <1>6, <2>3, <2>4
<1>8. Len(w) > DropAbove * Capacity /\ w \in Seq(Lines)
  <2>1. w = LinesIn(content, front) \o content[b]
    <3>1. buffersToWrite = front \o <<b>> /\ <<b>> \in Seq(Buffers)
      BY <1>3, AppendIsConcat
    <3>2. LinesIn(content, front \o <<b>>)
            = LinesIn(content, front) \o LinesIn(content, <<b>>)
      BY <1>2, <3>1, LinesConcat
    <3>3. LinesIn(content, <<b>>) = content[b]
      BY <1>2, LinesOne
    <3> QED BY <3>1, <3>2, <3>3
  <2>2. Len(LinesIn(content, front)) = Len(front) * Capacity
    BY <1>2, <1>4, LinesFull
  <2>3. Len(content[b]) \in Nat /\ Len(content[b]) >= 1
    <3> DEFINE last == content[b]
    <3>1. last \in Seq(Lines) /\ front # <<>>
      BY <1>2, <1>4, <1>5 DEF Contents
    <3>2. last # <<>>
      BY <1>3, <3>1
    <3> HIDE DEF last
    <3>3. Len(last) \in Nat \ {0}
      BY <3>1, <3>2, EmptySeq
    <3>4. Len(last) >= 1
      BY <3>3
    <3> QED BY <3>3, <3>4 DEF last
  <2>4. /\ Len(w) = Len(LinesIn(content, front)) + Len(content[b]) /\ w \in Seq(Lines)
    <3>1. LinesIn(content, front) \in Seq(Lines) /\ content[b] \in Seq(Lines)
      BY <1>2, LinesMap DEF Contents
    <3> HIDE DEF w
    <3> QED BY <2>1, <3>1, ConcatProperties
  <2>5. Len(front) * Capacity >= DropAbove * Capacity
    BY <1>4, <1>5
  <2>6. /\ Len(front) * Capacity \in Nat /\ DropAbove * Capacity \in Nat
    BY <1>4, <1>5
  <2> DEFINE x == Len(front) * Capacity
             y == DropAbove * Capacity
  <2> HIDE DEF x, y
  <2>7. Len(w) = x + Len(content[b]) /\ x >= y /\ x \in Nat /\ y \in Nat
    BY <2>2, <2>4, <2>5, <2>6 DEF x, y
  <2>8. Len(w) > y
    BY <2>3, <2>7
  <2> QED BY <2>4, <2>8 DEF y
<1>9. h \in Seq(Lines)
  BY BacklogParts, ConcatProperties
<1>10. Backlog = w \o h
  BY <1>2, BacklogParts
<1>11. Backlog' = k \o h
  <2>1. Rest' = SubSeq(buffersToWrite', 1, Len(buffersToWrite'))
    BY <1>1, <1>2 DEF Rest
  <2>2. Rest' = kept
    BY <1>1, <1>6, <2>1, SubSeqFull
  <2>3. Backlog' = (LinesIn(content', Rest') \o LinesIn(content', buffers'))
                     \o content'[currentBuffer']
    BY DEF Backlog, LinesOf, LinesIn, Rest
  <2>4. Backlog' = (k \o LinesIn(content, buffers)) \o content[currentBuffer]
    BY <1>1, <2>2, <2>3
  <2>5. LinesIn(content, buffers) \in Seq(Lines) /\ content[currentBuffer] \in Seq(Lines)
    BY BacklogParts
  <2> DEFINE x == LinesIn(content, buffers)
             y == content[currentBuffer]
  <2>6. x \in Seq(Lines) /\ y \in Seq(Lines)
    BY <2>5
  <2> HIDE DEF k, x, y
  <2>7. (k \o x) \o y = k \o (x \o y)
    BY <1>7, <2>6, ConcatAssociative, SMTT(30)
  <2> QED BY <2>4, <2>7 DEF x, y
<1> HIDE DEF w, k, h
<1>12. SubSeq(Backlog, 1, 2 * Capacity) = k
  <2>1. SubSeq(w, 1, 2 * Capacity) = k
    <3> DEFINE tail == SubSeq(buffersToWrite, 3, Len(buffersToWrite))
    <3>1. buffersToWrite = kept \o tail /\ tail \in Seq(Buffers)
      <4> DEFINE n == Len(buffersToWrite)
      <4>1. n \in Nat /\ n > 2 /\ \A i \in 3..n : buffersToWrite[i] \in Buffers
        BY <1>2, ElementOfSeq
      <4> HIDE DEF n
      <4>2. /\ 1 \in 1..(n + 1) /\ 2 \in 0..n /\ n \in 2..n /\ 2 + 1 = 3 /\ 1 - 1 = 0
            /\ 3 \in Int /\ n \in Int
        BY <4>1
      <4>3. SubSeq(buffersToWrite, 1, 2) \o SubSeq(buffersToWrite, 2 + 1, n)
              = SubSeq(buffersToWrite, 1, n)
        BY <1>2, <4>2, ConcatAdjacentSubSeq DEF n
      <4>4. SubSeq(buffersToWrite, 1, n) = buffersToWrite
        BY <1>2, SubSeqFull DEF n
      <4>5. SubSeq(buffersToWrite, 3, n) \in Seq(Buffers)
        BY <4>1, <4>2, SubSeqProperties
      <4> QED BY <4>2, <4>3, <4>4, <4>5 DEF n
    <3> HIDE DEF tail, kept
    <3>2. LinesIn(content, kept \o tail) = LinesIn(content, kept) \o LinesIn(content, tail)
      BY <1>2, <1>6, <3>1, LinesConcat
    <3>3. w = k \o LinesIn(content, tail) /\ LinesIn(content, tail) \in Seq(Lines)
      BY <1>2, <3>1, <3>2, LinesMap DEF w, k
    <3> DEFINE m == LinesIn(content, tail)
    <3> HIDE DEF m
    <3>4. w = k \o m /\ m \in Seq(Lines)
      BY <3>3 DEF m
    <3>5. SubSeq(k \o m, 1, Len(k)) = k
      BY <1>7, <3>4, CutConcat
    <3> QED BY <1>7, <3>4, <3>5
  <2>2. SubSeq(w \o h, 1, 2 * Capacity) = SubSeq(w, 1, 2 * Capacity)
    <3>1. 1 \in 1..Len(w) /\ 2 * Capacity \in 1..Len(w)
      <4>1. DropAbove * Capacity >= 2 * Capacity /\ 2 * Capacity >= 1
            /\ DropAbove * Capacity \in Nat
        BY <1>5
      <4>2. Len(w) \in Nat
        BY <1>8, LenProperties
      <4> QED BY <1>5, <1>8, <4>1, <4>2
    <3> QED BY <1>8, <1>9, <3>1, SubSeqOfConcat1
  <2> QED BY <1>10, <2>1, <2>2
<1>13. SubSeq(Backlog, Len(w) + 1, Len(Backlog)) = h
  BY <1>8, <1>9, <1>10, CutConcat
<1>14. Len(w) \in (DropAbove * Capacity + 1)..Len(Backlog)
  <2>1. Len(Backlog) = Len(w) + Len(h) /\ Len(w) \in Nat /\ Len(h) \in Nat
    BY <1>8, <1>9, <1>10, ConcatProperties, LenProperties
  <2>2. DropAbove * Capacity \in Nat
    BY <1>5
  <2> QED BY <1>8, <2>1, <2>2
<1> QED BY <1>1, <1>11, <1>12, <1>13, <1>14 DEF Pipe!Discard

LEMMA TrimIsStep ==
  ASSUME IInv, PipeInv, Trim
  PROVE  Pipe!Discard \/ UNCHANGED <<appended, Backlog, file>>
<1>1. CASE Len(buffersToWrite) > DropAbove
  BY <1>1, TrimIsDiscard
<1>2. CASE ~(Len(buffersToWrite) > DropAbove)
  <2>1. UNCHANGED <<written, buffers, currentBuffer, content, file, appended,
                    buffersToWrite>>
    BY <1>2 DEF Trim, sharedVars, fileVars
  <2>2. Rest' = Rest
    BY <2>1 DEF Rest
  <2> QED BY <2>1, <2>2, BacklogSame
<1> QED BY <1>1, <1>2

(* A buffer written is a piece off the front of the backlog. *)
LEMMA WriteIsStep ==
  ASSUME IInv, PipeInv, WriteBuffer
  PROVE  Pipe!Write \/ UNCHANGED <<appended, Backlog, file>>
<1> DEFINE n == Len(buffersToWrite)
           first == buffersToWrite[written + 1]
           c == content[first]
           rest == SubSeq(buffersToWrite, (written + 1) + 1, n)
           r == LinesIn(content, rest)
           h == LinesIn(content, buffers) \o content[currentBuffer]
<1>1. /\ written' = written + 1 /\ file' = file \o c
      /\ UNCHANGED <<buffersToWrite, buffers, currentBuffer, content, appended>>
      /\ written \in Nat /\ written < n /\ n \in Nat
      /\ buffersToWrite \in Seq(Buffers) /\ content \in Contents
      /\ file \in Seq(Lines)
  BY DEF WriteBuffer, sharedVars, IInv, TypeOK, PipeInv, Contents
<1> HIDE DEF n
<1>2. written + 1 \in 1..n /\ n \in (written + 1)..n /\ (written + 1) + 1 \in Int
  BY <1>1
<1>3. first \in Buffers /\ <<first>> \in Seq(Buffers) /\ c \in Seq(Lines)
  <2>1. first \in Buffers
    BY <1>1, <1>2, ElementOfSeq DEF n
  <2> QED BY <1>1, <2>1 DEF Contents
<1>4. Rest = <<first>> \o rest
  BY <1>1, <1>2, SubSeqRecursiveFirst DEF Rest, n
<1>5. Rest' = rest
  BY <1>1 DEF Rest, n
<1>6. rest \in Seq(Buffers)
  <2>1. \A i \in ((written + 1) + 1)..n : buffersToWrite[i] \in Buffers
    BY <1>1, ElementOfSeq DEF n
  <2> QED BY <1>1, <1>2, <2>1, SubSeqProperties
<1> HIDE DEF first, rest
<1>7. r \in Seq(Lines) /\ h \in Seq(Lines)
  BY <1>1, <1>6, LinesMap, BacklogParts, ConcatProperties
<1>8. LinesIn(content, Rest) = c \o r
  <2>1. LinesIn(content, <<first>> \o rest)
          = LinesIn(content, <<first>>) \o LinesIn(content, rest)
    BY <1>1, <1>3, <1>6, LinesConcat
  <2>2. LinesIn(content, <<first>>) = c
    BY <1>1, <1>3, LinesOne
  <2> QED BY <1>4, <2>1, <2>2
<1>9. Backlog = (c \o r) \o h
  BY <1>8, BacklogParts
<1>10. Backlog' = r \o h
  <2>1. Backlog' = (LinesIn(content', Rest') \o LinesIn(content', buffers'))
                     \o content'[currentBuffer']
    BY DEF Backlog, LinesOf, LinesIn, Rest
  <2>2. Backlog' = (r \o LinesIn(content, buffers)) \o content[currentBuffer]
    BY <1>1, <1>5, <2>1
  <2>3. LinesIn(content, buffers) \in Seq(Lines) /\ content[currentBuffer] \in Seq(Lines)
    BY BacklogParts
  <2> DEFINE x == LinesIn(content, buffers)
             y == content[currentBuffer]
  <2>6. x \in Seq(Lines) /\ y \in Seq(Lines)
    BY <2>3
  <2> HIDE DEF r, x, y
  <2>7. (r \o x) \o y = r \o (x \o y)
    BY <1>7, <2>6, ConcatAssociative, SMTT(30)
  <2> QED BY <2>2, <2>7 DEF x, y
<1> HIDE DEF c, r, h
<1>11. Backlog = c \o (r \o h) /\ r \o h \in Seq(Lines)
  BY <1>3, <1>7, <1>9, ConcatAssociative, ConcatProperties
<1> DEFINE t == r \o h
<1> HIDE DEF t
<1>12. Backlog = c \o t /\ Backlog' = t /\ t \in Seq(Lines)
  BY <1>10, <1>11 DEF t
<1>13. CASE c = <<>>
  BY <1>1, <1>12, <1>13, ConcatEmptySeq
<1>14. CASE c # <<>>
  <2>1. /\ SubSeq(Backlog, 1, Len(c)) = c
        /\ SubSeq(Backlog, Len(c) + 1, Len(Backlog)) = t
    BY <1>3, <1>12, CutConcat
  <2>2. Len(c) \in 1..Len(Backlog)
    <3>1. Len(c) \in Nat \ {0}
      BY <1>3, <1>14, EmptySeq
    <3>2. Len(Backlog) = Len(c) + Len(t) /\ Len(t) \in Nat
      BY <1>3, <1>12, ConcatProperties, LenProperties
    <3> QED BY <3>1, <3>2
  <2> QED BY <1>1, <1>12, <2>1, <2>2 DEF Pipe!Write
<1> QED BY <1>13, <1>14

(* Open and Recycle reset the spare buffers; the batch is empty then.      *)
LEMMA ResetKeepsBacklog ==
  ASSUME IInv, PipeInv, IInv', Open \/ Recycle
  PROVE  Backlog' = Backlog
<1>1. /\ UNCHANGED <<buffers, currentBuffer>>
      /\ content' = [content EXCEPT ![newBuffer1'] = <<>>, ![newBuffer2'] = <<>>]
      /\ buffersToWrite' = <<>> /\ written' = 0
      /\ written = Len(buffersToWrite)
  <2>1. CASE Open
    BY <2>1 DEF Open, sharedVars, IInv, BatchByPhase, PipeInv
  <2>2. CASE Recycle
    BY <2>2 DEF Recycle, EndIteration, sharedVars
  <2> QED BY <2>1, <2>2
<1>2. Rest = <<>>
  BY <1>1, RestProperties
<1>3. Rest' = <<>>
  <2>1. Rest' = SubSeq(<<>>, 0 + 1, Len(<<>>))
    BY <1>1 DEF Rest
  <2> QED BY <2>1
<1>4. \A b \in Range(buffers) \cup {currentBuffer} : content'[b] = content[b]
  <2>1. /\ Range(buffers) \subseteq Buffers /\ currentBuffer \in Buffers
        /\ content \in Contents
    BY RestProperties DEF IInv, TypeOK, Contents
  <2>2. \A b \in Range(buffers) \cup {currentBuffer} :
          b # newBuffer1' /\ b # newBuffer2'
    BY <1>1 DEF IInv, BuffersNotShared
  <2> QED BY <1>1, <2>1, <2>2 DEF Contents
<1>5. Range(<<>>) = {}
  BY EmptyRange
<1> QED BY <1>1, <1>2, <1>3, <1>4, <1>5, BacklogSame

LEMMA StepIsPipeStep ==
  ASSUME IInv, PipeInv, IInv', PipeInv', [Next]_vars
  PROVE  [Pipe!Next]_(Pipe!pipeVars)
<1>1. CASE AppendInPlace
  BY <1>1, InPlaceIsAccept DEF Pipe!Next
<1>2. CASE AppendToNext
  <2>1. nextBuffer \in Buffers /\ content[nextBuffer] = <<>> /\ content \in Contents
    BY <1>2 DEF IInv, AppendToNext, TypeOK, Pointers, ReserveEmpty, Contents
  <2>2. nextBuffer \notin {currentBuffer} \cup Range(buffers) \cup Range(buffersToWrite)
    BY DEF IInv, BuffersNotShared
  <2>3. content' = [content EXCEPT ![nextBuffer] = <<appended'>>]
    <3>1. content' = [content EXCEPT ![nextBuffer] = Append(content[nextBuffer], appended')]
      BY <1>2, <2>1 DEF AppendToNext, Contents
    <3>2. Append(<<>>, appended') = <<appended'>>
      OBVIOUS
    <3> QED BY <2>1, <3>1, <3>2
  <2>4. Pipe!Accept
    BY <1>2, <2>1, <2>2, <2>3, LeaveIsAccept DEF AppendToNext
  <2> QED BY <2>4 DEF Pipe!Next
<1>3. CASE AppendToNew
  <2>1. Fresh(InUse) \in Buffers /\ Fresh(InUse) \notin InUse
    BY <1>3, FreshBuffer DEF AppendToNew
  <2>2. Fresh(InUse) \notin {currentBuffer} \cup Range(buffers) \cup Range(buffersToWrite)
    BY <2>1 DEF InUse
  <2>3. Pipe!Accept
    BY <1>3, <2>1, <2>2, LeaveIsAccept DEF AppendToNew
  <2> QED BY <2>3 DEF Pipe!Next
<1>4. CASE Swap
  <2>1. UNCHANGED <<appended, file>>
    BY <1>4 DEF Swap, fileVars
  <2> QED BY <1>4, <2>1, SwapKeepsBacklog DEF Pipe!pipeVars
<1>5. CASE Trim
  BY <1>5, TrimIsStep DEF Pipe!Next, Pipe!pipeVars
<1>6. CASE WriteBuffer
  BY <1>6, WriteIsStep DEF Pipe!Next, Pipe!pipeVars
<1>7. CASE Open \/ Recycle
  <2>1. UNCHANGED <<appended, file>>
    BY <1>7 DEF Open, Recycle, EndIteration, fileVars
  <2> QED BY <1>7, <2>1, ResetKeepsBacklog DEF Pipe!pipeVars
<1>8. CASE Start \/ Stop \/ Enter \/ TestRunning \/ WaitForBuffers \/ UNCHANGED vars
  <2>1. UNCHANGED <<written, buffers, currentBuffer, content, file, appended,
                    buffersToWrite>>
    BY <1>8 DEF Start, Stop, Enter, TestRunning, WaitForBuffers, vars, batchVars,
                sharedVars, fileVars
  <2>2. Rest' = Rest
    BY <2>1 DEF Rest
  <2>3. Backlog' = Backlog
    BY <2>1, <2>2, BacklogSame
  <2> QED BY <2>1, <2>3 DEF Pipe!pipeVars
<1> QED BY <1>1, <1>2, <1>3, <1>4, <1>5, <1>6, <1>7, <1>8 DEF Next, LoggerStep

(* Lines get into the file in the order they were appended, each once, and *)
(* none is lost from a backlog of at most DropAbove buffers; of a longer   *)
(* one the oldest two buffers are kept.                                    *)
THEOREM LoggerIsPipe == Spec => ImplementsLogPipe
<1>1. Init => PipeInv
  BY InitPipeInv
<1>2. IInv /\ IInv' /\ PipeInv /\ [Next]_vars => PipeInv'
  BY PipeInvNext
<1>3. Spec => []PipeInv
  BY <1>1, <1>2, Inductive, PTL DEF Spec
<1>4. ASSUME Init PROVE Pipe!Init
  <2>1. IInv /\ PipeInv
    BY <1>4, InitIInv, InitPipeInv
  <2>2. written = 0 /\ buffersToWrite = <<>> /\ buffers = <<>>
        /\ content[currentBuffer] = <<>> /\ appended = 0 /\ file = <<>>
    BY <1>4, <2>1 DEF Init, IInv, TypeOK
  <2>3. Rest = <<>>
    BY <2>1, <2>2, RestProperties
  <2>4. Backlog = (<<>> \o <<>>) \o <<>>
    BY <2>2, <2>3, LinesNone, BacklogUnfolded
  <2>5. <<>> \o <<>> = <<>>
    OBVIOUS
  <2> QED BY <2>2, <2>4, <2>5 DEF Pipe!Init
<1>5. ASSUME IInv, PipeInv, IInv', PipeInv', [Next]_vars
      PROVE  [Pipe!Next]_(Pipe!pipeVars)
  BY <1>5, StepIsPipeStep
<1> QED BY <1>3, <1>4, <1>5, Inductive, PTL DEF Spec, ImplementsLogPipe, Pipe!Spec
=============================================================================
