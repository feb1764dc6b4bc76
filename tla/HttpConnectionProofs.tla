------------------------ MODULE HttpConnectionProofs -------------------------
(***************************************************************************)
(* Proofs about HttpConnection, for any number and kinds of requests and   *)
(* any sizes of responses and of the socket's buffer: types, that requests *)
(* are answered in order and whole, that nothing read is left unparsed,    *)
(* that no edge of epoll is lost and that an open connection has a timer.  *)
(***************************************************************************)
EXTENDS HttpConnection, SequencesExt, FiniteSetTheorems, SequenceTheorems, TLAPS

(* Induction over the natural numbers with a set for the predicate, and    *)
(* with it what FlattenSeq, a recursive function of SequencesExt, computes *)
(* for every sequence of sequences.                                        *)

(* A non-empty set of naturals has a least element: of the intervals 1..m  *)
(* one is minimal under inclusion.                                         *)
LEMMA LeastElement ==
  ASSUME NEW S \in SUBSET Nat, S # {}
  PROVE  \E m \in S : \A n \in S : m <= n
<1> DEFINE R == StrictSubsetOrdering(Nat)
           D == FiniteSubsetsOf(Nat)
           T == {1..m : m \in S}
<1>1. IsWellFoundedOn(R, D)
  BY FS_StrictSubsetOrderingWellFounded
<1>2. T \subseteq D /\ T # {}
  <2>1. \A m \in Nat : 1..m \in D
    BY FS_Interval DEF FiniteSubsetsOf
  <2> HIDE DEF D
  <2> QED BY <2>1
<1>3. PICK x \in T : \A y \in T : ~(<<y, x>> \in R)
  <2> HIDE DEF R, D, T
  <2> QED BY <1>1, <1>2, WFMin
<1>4. PICK m \in S : x = 1..m
  OBVIOUS
<1>5. ASSUME NEW n \in S, n < m PROVE FALSE
  <2>1. 1..n \in T /\ 1..n \subseteq 1..m
    BY <1>5
  <2>2. m \in 1..m /\ m \notin 1..n
    BY <1>5
  <2>3. <<1..n, x>> \in R
    BY <1>4, <2>1, <2>2 DEF StrictSubsetOrdering
  <2> QED BY <1>3, <2>1, <2>3
<1> QED BY <1>5

(* Induction: a set with 0 and with n + 1 for each n in it is all of Nat.  *)
LEMMA InductionOverSet ==
  ASSUME NEW P \in SUBSET Nat, 0 \in P, \A n \in P : n + 1 \in P
  PROVE  P = Nat
<1> SUFFICES ASSUME Nat \ P # {} PROVE FALSE
  OBVIOUS
<1>1. PICK m \in Nat \ P : \A n \in Nat \ P : m <= n
  BY LeastElement
<1>2. m # 0 /\ m - 1 \in Nat /\ m - 1 < m /\ (m - 1) + 1 = m
  BY <1>1
<1>3. m - 1 \in P
  BY <1>1, <1>2
<1> QED BY <1>1, <1>2, <1>3

(* f is the function FlattenSeq chooses, for the first n of ss.            *)
Flattens(f, ss, n) ==
  f = [i \in 1..n |-> IF i = 1 THEN ss[i] ELSE f[i - 1] \o ss[i]]

(* There is one for each length.                                           *)
LEMMA FlattensExists ==
  ASSUME NEW ss, NEW n \in Nat
  PROVE  \E f : Flattens(f, ss, n)
<1> DEFINE P == {k \in Nat : \E f : Flattens(f, ss, k)}
<1>1. 0 \in P
  <2>1. Flattens([i \in 1..0 |-> <<>>], ss, 0)
    BY DEF Flattens
  <2> QED BY <2>1
<1>2. ASSUME NEW k \in P PROVE k + 1 \in P
  <2>1. PICK f : Flattens(f, ss, k)
    OBVIOUS
  <2> DEFINE g == [i \in 1..(k + 1) |->
                     IF i = k + 1 THEN (IF i = 1 THEN ss[i] ELSE f[i - 1] \o ss[i])
                                  ELSE f[i]]
  <2>2. \A i \in 1..k : f[i] = IF i = 1 THEN ss[i] ELSE f[i - 1] \o ss[i]
    BY <2>1 DEF Flattens
  <2>3. \A i \in 1..(k + 1) : g[i] = IF i = 1 THEN ss[i] ELSE g[i - 1] \o ss[i]
    <3>1. SUFFICES ASSUME NEW i \in 1..(k + 1)
                   PROVE  g[i] = IF i = 1 THEN ss[i] ELSE g[i - 1] \o ss[i]
      OBVIOUS
    <3>2. i # 1 => i - 1 \in 1..k /\ g[i - 1] = f[i - 1]
      OBVIOUS
    <3> QED BY <2>2, <3>2
  <2>4. Flattens(g, ss, k + 1)
    BY <2>3 DEF Flattens
  <2> QED BY <2>4
<1> HIDE DEF P
<1>3. P = Nat
  BY <1>1, <1>2, InductionOverSet DEF P
<1> QED BY <1>3 DEF P

(* And only one: it begins like that of any longer sequence.               *)
LEMMA FlattensUnique ==
  ASSUME NEW m \in Nat, NEW ss, NEW tt, NEW f, NEW g,
         \A i \in 1..m : ss[i] = tt[i],
         Flattens(f, ss, m), Flattens(g, tt, m + 1)
  PROVE  \A i \in 1..m : f[i] = g[i]
<1> DEFINE P == {k \in Nat : k \in 1..m => f[k] = g[k]}
<1>1. /\ \A i \in 1..m : f[i] = IF i = 1 THEN ss[i] ELSE f[i - 1] \o ss[i]
      /\ \A i \in 1..(m + 1) : g[i] = IF i = 1 THEN tt[i] ELSE g[i - 1] \o tt[i]
  BY DEF Flattens
<1>2. ASSUME NEW k \in P PROVE k + 1 \in P
  <2>1. SUFFICES ASSUME k + 1 \in 1..m PROVE f[k + 1] = g[k + 1]
    OBVIOUS
  <2>2. CASE k = 0
    BY <1>1, <2>1, <2>2
  <2>3. CASE k # 0
    <3>1. k \in 1..m /\ k + 1 \in 1..(m + 1) /\ k + 1 # 1 /\ (k + 1) - 1 = k
      BY <2>1, <2>3
    <3>2. f[k] = g[k]
      BY <3>1
    <3> QED BY <1>1, <2>1, <3>1, <3>2
  <2> QED BY <2>2, <2>3
<1>3. 0 \in P
  OBVIOUS
<1> HIDE DEF P
<1>4. P = Nat
  BY <1>2, <1>3, InductionOverSet DEF P
<1> QED BY <1>4 DEF P

(* FlattenSeq as such a function.                                          *)
LEMMA FlattenValue ==
  ASSUME NEW T, NEW ss \in Seq(Seq(T))
  PROVE  \E f : /\ Flattens(f, ss, Len(ss))
                /\ FlattenSeq(ss) = IF ss = <<>> THEN <<>> ELSE f[Len(ss)]
<1> DEFINE n == Len(ss)
           f == CHOOSE h : Flattens(h, ss, n)
<1>1. Flattens(f, ss, n)
  <2>1. n \in Nat
    OBVIOUS
  <2> HIDE DEF n
  <2>2. \E h : Flattens(h, ss, n)
    BY <2>1, FlattensExists
  <2> QED BY <2>2
<1>2. FlattenSeq(ss) = IF n = 0 THEN <<>> ELSE f[n]
  BY DEF FlattenSeq, Flattens
<1>3. n = 0 <=> ss = <<>>
  OBVIOUS
<1> QED BY <1>1, <1>2, <1>3

(* Flattening keeps to the elements. *)
LEMMA FlattenType ==
  ASSUME NEW T, NEW ss \in Seq(Seq(T))
  PROVE  FlattenSeq(ss) \in Seq(T)
<1> DEFINE n == Len(ss)
<1>1. n \in Nat /\ (n = 0 <=> ss = <<>>) /\ \A i \in 1..n : ss[i] \in Seq(T)
  OBVIOUS
<1> HIDE DEF n
<1>2. PICK f : /\ Flattens(f, ss, n)
               /\ FlattenSeq(ss) = IF ss = <<>> THEN <<>> ELSE f[n]
  BY FlattenValue DEF n
<1>3. \A i \in 1..n : f[i] = IF i = 1 THEN ss[i] ELSE f[i - 1] \o ss[i]
  BY <1>2 DEF Flattens
<1> DEFINE P == {k \in Nat : k \in 1..n => f[k] \in Seq(T)}
<1>4. 0 \in P
  OBVIOUS
<1>5. ASSUME NEW k \in P PROVE k + 1 \in P
  <2>1. SUFFICES ASSUME k + 1 \in 1..n PROVE f[k + 1] \in Seq(T)
    OBVIOUS
  <2>2. CASE k = 0
    BY <1>1, <1>3, <2>1, <2>2
  <2>3. CASE k # 0
    <3>1. k \in 1..n /\ k + 1 # 1 /\ (k + 1) - 1 = k
      BY <2>1, <2>3, <1>1
    <3>2. f[k] \in Seq(T) /\ ss[k + 1] \in Seq(T)
      BY <1>1, <2>1, <3>1
    <3>3. f[k + 1] = f[k] \o ss[k + 1]
      BY <1>3, <2>1, <3>1
    <3> QED BY <3>2, <3>3, ConcatProperties
  <2> QED BY <2>2, <2>3
<1> HIDE DEF P
<1>6. P = Nat
  BY <1>4, <1>5, InductionOverSet DEF P
<1>7. ss = <<>> \/ n \in 1..n
  BY <1>1
<1>8. <<>> \in Seq(T)
  OBVIOUS
<1> QED BY <1>1, <1>2, <1>6, <1>7, <1>8 DEF P

(* The unfolding of FlattenSeq from the back.                              *)
LEMMA FlattenAppend ==
  ASSUME NEW T, NEW ss \in Seq(Seq(T)), NEW s \in Seq(T)
  PROVE  FlattenSeq(Append(ss, s)) = FlattenSeq(ss) \o s
<1> DEFINE n == Len(ss)
           tt == Append(ss, s)
<1>1. /\ n \in Nat /\ n + 1 \in Nat /\ Len(tt) = n + 1 /\ tt[n + 1] = s
      /\ tt \in Seq(Seq(T)) /\ tt # <<>> /\ (n = 0 <=> ss = <<>>)
      /\ \A i \in 1..n : tt[i] = ss[i]
  <2>1. n \in Nat /\ (n = 0 <=> ss = <<>>)
    BY EmptySeq
  <2>2. /\ tt \in Seq(Seq(T)) /\ tt # <<>> /\ Len(tt) = n + 1
        /\ \A i \in 1..n : tt[i] = ss[i]
        /\ tt[n + 1] = s
    BY AppendProperties
  <2> QED BY <2>1, <2>2
<1> HIDE DEF n, tt
<1>2. PICK f : /\ Flattens(f, ss, n)
               /\ FlattenSeq(ss) = IF ss = <<>> THEN <<>> ELSE f[n]
  BY FlattenValue DEF n
<1>3. PICK g : Flattens(g, tt, n + 1) /\ FlattenSeq(tt) = g[n + 1]
  BY <1>1, FlattenValue
<1>4. g[n + 1] = IF n = 0 THEN s ELSE g[n] \o s
  <2>1. n + 1 \in 1..(n + 1) /\ (n + 1) - 1 = n /\ (n + 1 = 1 <=> n = 0)
    BY <1>1
  <2> QED BY <1>1, <1>3, <2>1 DEF Flattens
<1>5. \A i \in 1..n : f[i] = g[i]
  <2>1. \A i \in 1..n : ss[i] = tt[i]
    BY <1>1
  <2>2. n \in Nat
    BY <1>1
  <2>3. Flattens(f, ss, n) /\ Flattens(g, tt, n + 1)
    BY <1>2, <1>3
  <2> QED BY <2>1, <2>2, <2>3, FlattensUnique, SMTT(60)
<1>6. <<>> \o s = s
  OBVIOUS
<1>7. CASE n = 0
  BY <1>1, <1>2, <1>3, <1>4, <1>6, <1>7 DEF tt
<1>8. CASE n # 0
  <2>1. f[n] = g[n]
    BY <1>1, <1>5, <1>8
  <2>2. FlattenSeq(tt) = f[n] \o s /\ FlattenSeq(ss) = f[n]
    BY <1>1, <1>2, <1>3, <1>4, <1>8, <2>1
  <2> QED BY <2>2 DEF tt
<1> QED BY <1>7, <1>8

(* Nothing, flattened.                                                     *)
LEMMA FlattenEmpty == FlattenSeq(<<>>) = <<>>
BY DEF FlattenSeq

----------------------------------------------------------------------------
Connected == connectionState = "connected" /\ ~error

(* Where the loop thread can be, and with what.                            *)
Phases ==
  /\ error => pc \in {"write", "conn", "closed"}
  /\ pc = "closed" <=> connectionState = "disconnected"
  /\ pc = "accepted" <=> lastEvents = {}
  /\ pc = "accepted" => /\ connectionState = "connected"
                        /\ inBuffer = <<>> /\ outBuffer = <<>>
  /\ state = "finish" /\ ~error => pc = "flush"
  /\ state = "analysis" /\ ~error => pc = "parse"

----------------------------------------------------------------------------
(* The tokens the parser has still to see, and those that follow them.     *)

Unread == inBuffer \o rcv

(* The token that follows t in requests of the kinds ks.                   *)
After(ks, t) ==
  IF t.part = "line" /\ ks[t.req] # "badline"
    THEN [req |-> t.req, part |-> "headers"]
  ELSE IF t.part = "headers" /\ ks[t.req] \in {"post", "form"}
    THEN [req |-> t.req, part |-> "body"]
  ELSE [req |-> t.req + 1, part |-> "line"]

(* The token the peer sends next.                                          *)
ToSend ==
  IF SentWhole THEN [req |-> Len(kinds) + 1, part |-> "line"]
               ELSE [req |-> Len(kinds), part |-> PartsOf(Last(kinds))[parts + 1]]

(* The token at which the parser is.                                       *)
Expected ==
  CASE state = "headers" -> [req |-> req, part |-> "headers"]
    [] state = "body" /\ kinds[req] # "nolength" -> [req |-> req, part |-> "body"]
    [] state = "analysis" /\ kinds[req] \in {"post", "form"} ->
         [req |-> req, part |-> "body"]
    [] state \in {"uri", "finish"} -> [req |-> Len(answered) + 1, part |-> "line"]
    [] OTHER -> [req |-> req + 1, part |-> "line"]

(* The peer is somewhere in its last request, and the tokens on their way  *)
(* are of requests it has begun.                                           *)
Sending ==
  /\ Len(kinds) <= MaxRequests
  /\ IF kinds = <<>> THEN parts = 0 ELSE parts \in 1..Len(PartsOf(Last(kinds)))
  /\ \A i \in DOMAIN Unread : Unread[i].req \in 1..Len(kinds)

(* The kind of the request being parsed fits how far the parser has got.   *)
ParsedSoFar ==
  state # "uri" =>
    /\ req \in 1..Len(kinds)
    /\ state = "headers"  => kinds[req] # "badline"
    /\ state = "body"     => kinds[req] \in {"post", "form", "nolength"}
    /\ state = "analysis" => kinds[req] \notin {"badline", "badheader", "nolength"}

(* The parser still takes tokens: once half closed it does not any more    *)
(* when it has parsed what came before the FIN.                            *)
Parsing == ~error /\ (connectionState = "connected" \/ pc = "parse")

(* From the token expected to the one to be sent, the tokens follow one    *)
(* another.                                                                *)
InStream ==
  Parsing =>
    LET line == Append(Unread, ToSend)
    IN  /\ line[1] = Expected
        /\ \A i \in DOMAIN Unread : line[i + 1] = After(kinds, line[i])

(* The request being parsed is the first that has not been answered.       *)
OneByOne ==
  Parsing =>
    /\ state \in {"headers", "body", "analysis"} => req = Len(answered) + 1
    /\ state = "analysis" /\ kinds[req] \in {"post", "form"} => inBuffer # <<>>

(* The input is used up whenever the loop thread is not reading.           *)
UsedUp ==
  Connected =>
    /\ pc \in {"accepted", "idle", "write", "conn"} => inBuffer = <<>>
    /\ pc = "flush" /\ state # "finish" => inBuffer = <<>>

----------------------------------------------------------------------------
(* What is watched while the loop thread is in the handlers.               *)
Watching ==
  /\ pc \notin {"accepted", "closed"} /\ "ONESHOT" \notin lastEvents
       => interest = lastEvents
  /\ Connected /\ ~rst =>
       /\ lastEvents = {"OUT"} => pc \in {"idle", "write", "conn"}
       /\ pc \in {"parse", "flush", "write", "conn"} /\ "IN" \in interest
            => (Readable => ready)
       /\ pc = "write" /\ lastEvents = {"OUT"} => events = {}
       /\ pc = "conn" /\ lastEvents = {"OUT"} /\ "OUT" \in events
            => outBuffer # <<>> /\ (Writable => ready)
       /\ pc = "conn" /\ outBuffer # <<>> => "OUT" \in events

----------------------------------------------------------------------------
(* What the peer has or is about to get.                                   *)
Sent == received \o snd

Delivered ==
  WithoutHello =>
    /\ ~error /\ ~rst /\ pc # "closed" => Sent \o outBuffer = Answers
    /\ \A i \in DOMAIN Sent :
         IF Sent[i].n = 0 THEN error /\ i = Len(Sent)
                          ELSE i \in DOMAIN Answers /\ Sent[i] = Answers[i]

IInv ==
  /\ TypeOK
  /\ Phases /\ Sending /\ ParsedSoFar /\ InStream /\ OneByOne /\ UsedUp
  /\ Watching /\ NoLostEdge /\ OpenMeansTimed
  /\ AnsweredInOrder /\ Delivered

----------------------------------------------------------------------------
(* What the pieces of the handlers do to the output.                       *)

LEMMA ResponseType ==
  ASSUME NEW r \in Requests
  PROVE  /\ Response(r) \in Seq(Chunks) /\ Len(Response(r)) = ResponseSize
         /\ \A i \in 1..ResponseSize : Response(r)[i] \in Chunks /\ Response(r)[i].n # 0
         /\ ErrorPage(r) \in Chunks /\ ErrorPage(r).n = 0
<1>1. ResponseSize \in Nat
  BY ConnectionAssumption
<1>2. \A i \in 1..ResponseSize : [req |-> r, n |-> i] \in Chunks
  BY <1>1 DEF Chunks
<1>3. ErrorPage(r) \in Chunks /\ ErrorPage(r).n = 0
  BY <1>1 DEF ErrorPage, Chunks
<1> QED BY <1>1, <1>2, <1>3 DEF Response

(* writen moves the first k chunks of outBuffer_ to the socket, and stops  *)
(* short of the last only when the socket is full.                         *)
LEMMA WritenMoves ==
  ASSUME TypeOK, Writen
  PROVE  /\ error' \in BOOLEAN
         /\ \/ /\ rst /\ outBuffer # <<>> /\ error'
               /\ UNCHANGED <<outBuffer, snd>>
            \/ /\ ~(rst /\ outBuffer # <<>>) /\ error' = error
               /\ \E k \in 0..Len(outBuffer) :
                    /\ snd' = snd \o SubSeq(outBuffer, 1, k)
                    /\ outBuffer' = SubSeq(outBuffer, k + 1, Len(outBuffer))
                    /\ k + Len(snd) <= SendBuffer
                    /\ k # Len(outBuffer) => k + Len(snd) = SendBuffer
<1> DEFINE free == SendBuffer - Len(snd)
           k == IF Len(outBuffer) < free THEN Len(outBuffer) ELSE free
<1>1. /\ SendBuffer \in Nat /\ Len(snd) \in Nat /\ Len(outBuffer) \in Nat
      /\ Len(snd) <= SendBuffer
  BY ConnectionAssumption DEF TypeOK
<1>2. /\ k \in 0..Len(outBuffer) /\ k + Len(snd) <= SendBuffer
      /\ k # Len(outBuffer) => k + Len(snd) = SendBuffer
  BY <1>1
<1>3. CASE rst /\ outBuffer # <<>>
  BY <1>3 DEF Writen
<1>4. CASE ~(rst /\ outBuffer # <<>>)
  <2>1. /\ snd' = snd \o SubSeq(outBuffer, 1, k)
        /\ outBuffer' = SubSeq(outBuffer, k + 1, Len(outBuffer))
        /\ error' = error
    BY <1>4 DEF Writen
  <2> HIDE DEF k
  <2> QED BY <1>2, <1>4, <2>1 DEF TypeOK
<1> QED BY <1>3, <1>4

LEMMA WritenType ==
  ASSUME TypeOK, Writen
  PROVE  /\ error' \in BOOLEAN /\ outBuffer' \in Seq(Chunks)
         /\ snd' \in Seq(Chunks) /\ Len(snd') <= SendBuffer
<1>1. snd \in Seq(Chunks) /\ outBuffer \in Seq(Chunks) /\ Len(snd) <= SendBuffer
  BY DEF TypeOK
<1>2. ASSUME NEW k \in 0..Len(outBuffer), k + Len(snd) <= SendBuffer
      PROVE  /\ SubSeq(outBuffer, k + 1, Len(outBuffer)) \in Seq(Chunks)
             /\ snd \o SubSeq(outBuffer, 1, k) \in Seq(Chunks)
             /\ Len(snd \o SubSeq(outBuffer, 1, k)) <= SendBuffer
  <2>1. \A i \in 1..Len(outBuffer) : outBuffer[i] \in Chunks
    BY <1>1
  <2>2. SubSeq(outBuffer, k + 1, Len(outBuffer)) \in Seq(Chunks)
    BY <1>1, <2>1, SubSeqProperties
  <2>3. SubSeq(outBuffer, 1, k) \in Seq(Chunks) /\ Len(SubSeq(outBuffer, 1, k)) = k
    BY <1>1, <2>1, SubSeqProperties
  <2> QED BY <1>1, <1>2, <2>2, <2>3, ConcatProperties
<1> QED BY <1>1, <1>2, WritenMoves

LEMMA ErrorType ==
  ASSUME TypeOK, NEW r, HandleError(r), r \in Requests \/ rst
  PROVE  /\ error' \in BOOLEAN /\ pc' \in {"write", "conn"}
         /\ snd' \in Seq(Chunks) /\ Len(snd') <= SendBuffer
<1>1. CASE snd' = snd
  BY <1>1 DEF HandleError, AfterRead, TypeOK
<1>2. CASE snd' # snd
  <2>1. r \in Requests /\ Len(snd) < SendBuffer /\ snd' = Append(snd, ErrorPage(r))
    BY <1>2 DEF HandleError
  <2>2. SendBuffer \in Nat /\ snd \in Seq(Chunks) /\ ErrorPage(r) \in Chunks
    BY <2>1, ResponseType, ConnectionAssumption DEF TypeOK
  <2>3. snd' \in Seq(Chunks) /\ Len(snd') <= SendBuffer
    BY <2>1, <2>2
  <2> QED BY <2>3 DEF HandleError, AfterRead
<1> QED BY <1>1, <1>2

LEMMA WatchType ==
  ASSUME NEW w, w \in {{"IN", "ONESHOT"}, {"IN"}, {"OUT"}}, Watch(w)
  PROVE  /\ lastEvents' \in {{}, {"IN", "ONESHOT"}, {"IN"}, {"OUT"}}
         /\ interest' = lastEvents' \ {"ONESHOT"}
BY DEF Watch

----------------------------------------------------------------------------
(* Types. *)
LEMMA InitType == Init => TypeOK
<1> SUFFICES ASSUME Init PROVE TypeOK
  OBVIOUS
<1>1. Len(snd) <= SendBuffer /\ MaxRequests \in Nat
  BY ConnectionAssumption DEF Init
<1>2. /\ inBuffer \in Seq(Tokens) /\ rcv \in Seq(Tokens)
      /\ outBuffer \in Seq(Chunks) /\ snd \in Seq(Chunks)
      /\ received \in Seq(Chunks) /\ kinds \in Seq(Kinds)
      /\ answered \in Seq(Requests)
  BY EmptySeq DEF Init
<1>3. /\ pc = "accepted" /\ connectionState = "connected" /\ state = "uri"
      /\ events = {} /\ revents = {} /\ lastEvents = {} /\ interest = {}
      /\ req \in 0..MaxRequests /\ parts \in 0..3
  BY <1>1 DEF Init
<1>4. /\ error \in BOOLEAN /\ timer \in BOOLEAN /\ ready \in BOOLEAN
      /\ fin \in BOOLEAN /\ rst \in BOOLEAN
  BY DEF Init
<1> QED BY <1>1, <1>2, <1>3, <1>4 DEF TypeOK

LEMMA KindParts ==
  ASSUME NEW k \in Kinds
  PROVE  /\ Len(PartsOf(k)) \in 1..3
         /\ \A i \in 1..Len(PartsOf(k)) : PartsOf(k)[i] \in {"line", "headers", "body"}
BY ConnectionAssumption DEF PartsOf

LEMMA TypeNext == ASSUME IInv, Next PROVE TypeOK'
<1> USE DEF TypeOK
<1>0. TypeOK
  BY DEF IInv
<1>1. CASE NewEvent
  <2>1. Watch({"IN", "ONESHOT"})
    BY <1>1 DEF NewEvent
  <2>2. /\ lastEvents' \in {{}, {"IN", "ONESHOT"}, {"IN"}, {"OUT"}}
        /\ interest' \in {{}, lastEvents' \ {"ONESHOT"}}
        /\ ready' \in BOOLEAN
    BY <2>1, WatchType DEF Watch
  <2> QED
    BY <1>0, <1>1, <2>2 DEF NewEvent, parseVars, replyVars, connVars, inVars, peerVars
<1>2. CASE HandleEvents
  BY <1>0, <1>2 DEF HandleEvents, Report, Status, parseVars, replyVars, connVars,
                    inVars, peerVars
<1>3. CASE IgnoreReset
  BY <1>0, <1>3 DEF IgnoreReset, Report, parseVars, replyVars, connVars, inVars,
                    peerVars
<1>4. CASE Read
  <2>1. inBuffer' \in Seq(Tokens) /\ rcv' \in Seq(Tokens)
    <3>1. inBuffer \o rcv \in Seq(Tokens) /\ <<>> \in Seq(Tokens)
      BY <1>0
    <3>2. inBuffer' \in {<<>>, inBuffer \o rcv} /\ rcv' = <<>>
      BY <1>4 DEF Read
    <3> QED BY <3>1, <3>2
  <2>2. /\ connectionState' \in {"connected", "disconnecting", "disconnected"}
        /\ pc' \in {"flush", "parse"}
    BY <1>0, <1>4 DEF Read
  <2> QED BY <1>0, <1>4, <2>1, <2>2
             DEF Read, chanVars, replyVars, epollVars, peerVars
<1>5. CASE ReadFails
  <2>1. /\ error' \in BOOLEAN /\ pc' \in {"write", "conn"}
        /\ snd' \in Seq(Chunks) /\ Len(snd') <= SendBuffer
    BY <1>0, <1>5, ErrorType DEF ReadFails
  <2> QED BY <1>0, <1>5, <2>1 DEF ReadFails, chanVars, replyVars, epollVars, peerVars
<1>6. CASE NeedMore
  BY <1>0, <1>6 DEF NeedMore, chanVars, parseVars, replyVars, connVars, epollVars,
                    inVars, peerVars
<1>7. CASE ParseURI
  <2>1. Head(inBuffer) \in Tokens /\ Tail(inBuffer) \in Seq(Tokens)
    BY <1>0, <1>7, HeadTailProperties DEF ParseURI, NextToken
  <2>2. req' \in Requests /\ req' \in 0..MaxRequests
    BY <1>7, <2>1, ConnectionAssumption DEF ParseURI, Tokens, Requests
  <2>3. CASE kinds[req'] = "badline"
    <3>1. HandleError(req')
      BY <1>7, <2>3 DEF ParseURI
    <3>2. /\ error' \in BOOLEAN /\ pc' \in {"write", "conn"}
          /\ snd' \in Seq(Chunks) /\ Len(snd') <= SendBuffer
      BY <1>0, <2>2, <3>1, ErrorType
    <3> QED BY <1>0, <1>7, <2>2, <2>3, <3>2
               DEF ParseURI, chanVars, replyVars, epollVars, inVars, peerVars
  <2>4. CASE kinds[req'] # "badline"
    BY <1>0, <1>7, <2>1, <2>2, <2>4
       DEF ParseURI, chanVars, replyVars, epollVars, inVars, peerVars
  <2> QED BY <2>3, <2>4
<1>8. CASE ParseHeaders
  <2>1. Tail(inBuffer) \in Seq(Tokens)
    BY <1>0, <1>8, HeadTailProperties DEF ParseHeaders, NextToken
  <2>2. req \in Requests
    BY <1>8 DEF ParseHeaders, IInv, ParsedSoFar, Requests
  <2>3. CASE kinds[req] = "badheader"
    <3>1. /\ error' \in BOOLEAN /\ pc' \in {"write", "conn"}
          /\ snd' \in Seq(Chunks) /\ Len(snd') <= SendBuffer
      BY <1>0, <1>8, <2>2, <2>3, ErrorType DEF ParseHeaders
    <3> QED BY <1>0, <1>8, <2>3, <3>1
               DEF ParseHeaders, chanVars, replyVars, epollVars, inVars, peerVars
  <2>4. CASE kinds[req] # "badheader"
    BY <1>0, <1>8, <2>1, <2>4
       DEF ParseHeaders, chanVars, replyVars, epollVars, inVars, peerVars
  <2> QED BY <2>3, <2>4
<1>9. CASE LackOfLength
  <2>1. req \in Requests
    BY <1>9 DEF LackOfLength, IInv, ParsedSoFar, Requests
  <2>2. /\ error' \in BOOLEAN /\ pc' \in {"write", "conn"}
        /\ snd' \in Seq(Chunks) /\ Len(snd') <= SendBuffer
    BY <1>0, <1>9, <2>1, ErrorType DEF LackOfLength
  <2> QED BY <1>0, <1>9, <2>2 DEF LackOfLength, chanVars, parseVars, replyVars,
                                  epollVars, inVars, peerVars
<1>10. CASE RecvBody
  BY <1>0, <1>10 DEF RecvBody, chanVars, replyVars, connVars, epollVars, inVars,
                     peerVars
<1>11. CASE Analysis
  <2>1. req \in Requests
    BY <1>11 DEF Analysis, IInv, ParsedSoFar, Requests
  <2>2. outBuffer' \in Seq(Chunks)
    BY <1>0, <1>11, <2>1, ResponseType, ConcatProperties DEF Analysis
  <2>3. inBuffer' \in Seq(Tokens)
    <3>1. CASE kinds[req] = "post"
      <4>1. inBuffer # <<>> /\ inBuffer' = Tail(inBuffer)
        BY <1>11, <3>1 DEF Analysis, IInv, OneByOne, Parsing, Phases
      <4> QED BY <1>0, <4>1, HeadTailProperties
    <3>2. CASE kinds[req] # "post"
      BY <1>0, <1>11, <3>2 DEF Analysis
    <3> QED BY <3>1, <3>2
  <2>4. answered' \in Seq(Requests)
    BY <1>0, <1>11, <2>1 DEF Analysis
  <2> QED BY <1>0, <1>11, <2>2, <2>3, <2>4
             DEF Analysis, chanVars, connVars, epollVars, inVars, peerVars
<1>12. CASE AnalysisFails
  <2>1. req \in Requests
    BY <1>12 DEF AnalysisFails, IInv, ParsedSoFar, Requests
  <2>2. /\ error' \in BOOLEAN /\ pc' \in {"write", "conn"}
        /\ snd' \in Seq(Chunks) /\ Len(snd') <= SendBuffer
    BY <1>0, <1>12, <2>1, ErrorType DEF AnalysisFails, AfterRead
  <2> QED BY <1>0, <1>12, <2>2 DEF AnalysisFails, chanVars, parseVars, replyVars,
                                   epollVars, inVars, peerVars
<1>13. CASE Flush
  <2>1. /\ error' \in BOOLEAN /\ outBuffer' \in Seq(Chunks)
        /\ snd' \in Seq(Chunks) /\ Len(snd') <= SendBuffer
    BY <1>0, <1>13, WritenType DEF Flush
  <2>2. events' \subseteq {"IN", "OUT", "ONESHOT"}
    BY <1>0, <1>13 DEF Flush, AfterWrite
  <2>3. /\ pc' \in {"read", "write", "conn"} /\ state' \in {"uri", state}
        /\ timer' \in BOOLEAN
    BY <1>0, <1>13 DEF Flush, AfterRead
  <2> QED BY <1>0, <1>13, <2>1, <2>2, <2>3 DEF Flush, epollVars, inVars, peerVars
<1>14. CASE HandleWrite
  <2>1. /\ error' \in BOOLEAN /\ outBuffer' \in Seq(Chunks)
        /\ snd' \in Seq(Chunks) /\ Len(snd') <= SendBuffer
    BY <1>0, <1>14, WritenType DEF HandleWrite
  <2>2. events' \subseteq {"IN", "OUT", "ONESHOT"}
    BY <1>0, <1>14 DEF HandleWrite, AfterWrite
  <2> QED BY <1>0, <1>14, <2>1, <2>2 DEF HandleWrite, parseVars, epollVars, inVars,
                                         peerVars
<1>15. CASE Rearm
  <2>1. events' \in {{"IN"}, {"OUT"}} /\ EpollMod(events')
    BY <1>15 DEF Rearm
  <2>2. /\ lastEvents' \in {{}, {"IN", "ONESHOT"}, {"IN"}, {"OUT"}}
        /\ interest' \in {{}, lastEvents' \ {"ONESHOT"}}
        /\ ready' \in BOOLEAN
    BY <1>0, <2>1, WatchType DEF EpollMod, Watch
  <2> QED BY <1>0, <1>15, <2>1, <2>2 DEF Rearm, parseVars, replyVars, connVars,
                                         inVars, peerVars
<1>16. CASE KeepHalfClosed
  BY <1>0, <1>16 DEF KeepHalfClosed, parseVars, replyVars, connVars, epollVars,
                     inVars, peerVars
<1>17. CASE HandleClose \/ Expire
  <2>1. Close
    BY <1>17 DEF HandleClose, Expire
  <2>2. snd' \in Seq(Chunks) /\ Len(snd') <= SendBuffer
    BY <1>0, <2>1, ConnectionAssumption DEF Close
  <2> QED BY <1>0, <2>1, <2>2 DEF Close, chanVars, parseVars, replyVars, inVars, peerVars
<1>18. CASE PeerBegins
  <2>1. PICK k \in Kinds : kinds' = Append(kinds, k)
    BY <1>18 DEF PeerBegins
  <2>2. Len(kinds') \in Requests /\ kinds' \in Seq(Kinds)
    BY <1>0, <1>18, <2>1, ConnectionAssumption DEF PeerBegins, Requests
  <2>3. rcv' \in Seq(Tokens)
    BY <1>0, <1>18, <2>2 DEF PeerBegins, SendToken, Tokens
  <2>4. ready' \in BOOLEAN
    BY <1>0, <1>18 DEF PeerBegins, SendToken, Edge
  <2> QED BY <1>0, <1>18, <2>2, <2>3, <2>4
             DEF PeerBegins, SendToken, chanVars, parseVars, replyVars, connVars
<1>19. CASE PeerContinues
  <2>1. kinds # <<>> /\ kinds[Len(kinds)] \in Kinds
        /\ parts \in 1..Len(PartsOf(kinds[Len(kinds)]))
        /\ parts # Len(PartsOf(kinds[Len(kinds)]))
    BY <1>0, <1>19 DEF PeerContinues, SentWhole, IInv, Sending, Last
  <2>2. parts' \in 1..Len(PartsOf(kinds[Len(kinds)])) /\ parts' \in 0..3
    BY <1>19, <2>1, KindParts DEF PeerContinues
  <2>3. PartsOf(Last(kinds))[parts'] \in {"line", "headers", "body"}
    BY <2>1, <2>2, KindParts DEF Last
  <2>4. Len(kinds) \in Requests
    BY <1>0, <2>1 DEF IInv, Sending, Requests
  <2>5. rcv' \in Seq(Tokens)
    BY <1>0, <1>19, <2>3, <2>4 DEF PeerContinues, SendToken, Tokens
  <2>6. ready' \in BOOLEAN
    BY <1>0, <1>19 DEF PeerContinues, SendToken, Edge
  <2> QED BY <1>0, <1>19, <2>2, <2>5, <2>6
             DEF PeerContinues, SendToken, chanVars, parseVars, replyVars, connVars
<1>20. CASE PeerFin
  BY <1>0, <1>20 DEF PeerFin, EdgeForAll, chanVars, parseVars, replyVars, connVars,
                     peerVars
<1>21. CASE PeerReset
  BY <1>0, <1>21, ConnectionAssumption
     DEF PeerReset, EdgeForAll, chanVars, parseVars, replyVars, connVars, peerVars
<1>22. CASE PeerReceives
  <2>1. /\ Head(snd) \in Chunks /\ Tail(snd) \in Seq(Chunks)
        /\ Len(Tail(snd)) = Len(snd) - 1
    BY <1>0, <1>22, HeadTailProperties DEF PeerReceives
  <2>2. snd' \in Seq(Chunks) /\ Len(snd') <= SendBuffer /\ received' \in Seq(Chunks)
    BY <1>0, <1>22, <2>1, ConnectionAssumption DEF PeerReceives
  <2> QED BY <1>0, <1>22, <2>2 DEF PeerReceives, Edge, chanVars, parseVars,
                                   replyVars, connVars, inVars
<1> QED
  BY <1>1, <1>2, <1>3, <1>4, <1>5, <1>6, <1>7, <1>8, <1>9, <1>10, <1>11, <1>12,
     <1>13, <1>14, <1>15, <1>16, <1>17, <1>18, <1>19, <1>20, <1>21, <1>22
     DEF Next, LoopStep, ReadStep, ConnStep, Peer

----------------------------------------------------------------------------
(* The stream of tokens, and the order of the answers. *)
LEMMA LineFacts ==
  ASSUME NEW ib \in Seq(Tokens), NEW rc \in Seq(Tokens), NEW t
  PROVE  /\ ib \o rc \in Seq(Tokens) /\ Len(ib \o rc) = Len(ib) + Len(rc)
         /\ DOMAIN (ib \o rc) = 1..(Len(ib) + Len(rc))
         /\ Len(ib) \in Nat /\ Len(rc) \in Nat
         /\ \A i \in 1..(Len(ib) + Len(rc)) :
              /\ (ib \o rc)[i] = IF i <= Len(ib) THEN ib[i] ELSE rc[i - Len(ib)]
              /\ (ib \o rc)[i] \in Tokens
              /\ Append(ib \o rc, t)[i] = (ib \o rc)[i]
         /\ Append(ib \o rc, t)[Len(ib) + Len(rc) + 1] = t
<1>1. /\ ib \o rc \in Seq(Tokens) /\ Len(ib \o rc) = Len(ib) + Len(rc)
      /\ Len(ib) \in Nat /\ Len(rc) \in Nat
      /\ \A i \in 1..(Len(ib) + Len(rc)) :
           (ib \o rc)[i] = IF i <= Len(ib) THEN ib[i] ELSE rc[i - Len(ib)]
  BY ConcatProperties, LenProperties
<1>2. \A i \in 1..(Len(ib) + Len(rc)) : (ib \o rc)[i] \in Tokens
  BY <1>1, ElementOfSeq
<1> DEFINE s == ib \o rc
<1>3. s \in Seq(Tokens) /\ Len(s) = Len(ib) + Len(rc)
  BY <1>1
<1> HIDE DEF s
<1>4. /\ DOMAIN s = 1..(Len(ib) + Len(rc))
      /\ \A i \in 1..(Len(ib) + Len(rc)) : Append(s, t)[i] = s[i]
      /\ Append(s, t)[Len(ib) + Len(rc) + 1] = t
  <2>1. s \in Seq(Tokens \cup {t}) /\ t \in Tokens \cup {t}
    BY <1>3, SeqMonotonic
  <2>2. /\ DOMAIN s = 1..Len(s)
        /\ \A i \in 1..Len(s) : Append(s, t)[i] = s[i]
        /\ Append(s, t)[Len(s) + 1] = t
    BY <2>1, AppendProperties, LenProperties
  <2> QED BY <1>3, <2>2
<1> QED BY <1>1, <1>2, <1>4 DEF s

(* While the parser goes on it is at the token it expects.                 *)
LEMMA AtExpected ==
  ASSUME IInv, pc = "parse", inBuffer # <<>>
  PROVE  /\ Parsing /\ Head(inBuffer) = Expected
         /\ Head(inBuffer) \in Tokens /\ Tail(inBuffer) \in Seq(Tokens)
         /\ Head(inBuffer).req \in 1..Len(kinds)
<1>1. inBuffer \in Seq(Tokens) /\ rcv \in Seq(Tokens)
  BY DEF IInv, TypeOK
<1>2. Parsing
  BY DEF IInv, Phases, Parsing
<1>3. 1 \in 1..(Len(inBuffer) + Len(rcv)) /\ 1 <= Len(inBuffer)
      /\ Head(inBuffer) = inBuffer[1]
  BY <1>1
<1>4. Append(Unread, ToSend)[1] = inBuffer[1] /\ 1 \in DOMAIN Unread
      /\ Unread[1] = inBuffer[1]
  BY <1>1, <1>3, LineFacts DEF Unread
<1>5. Head(inBuffer) = Expected
  BY <1>2, <1>3, <1>4 DEF IInv, InStream
<1>6. Head(inBuffer).req \in 1..Len(kinds)
  BY <1>3, <1>4 DEF IInv, Sending
<1> QED BY <1>1, <1>2, <1>5, <1>6, HeadTailProperties

(* A step of the loop thread that does not touch the stream.               *)
LEMMA StreamKept ==
  ASSUME IInv, UNCHANGED <<inBuffer, rcv, kinds, parts, state, req, answered>>,
         Parsing' => Parsing
  PROVE  Sending' /\ ParsedSoFar' /\ InStream' /\ OneByOne' /\ AnsweredInOrder'
<1>1. Unread' = Unread /\ ToSend' = ToSend /\ Expected' = Expected
  BY DEF Unread, ToSend, SentWhole, Expected
<1>2. Sending' /\ ParsedSoFar'
  BY <1>1 DEF IInv, Sending, ParsedSoFar
<1>3. InStream'
  BY <1>1 DEF IInv, InStream
<1>4. OneByOne' /\ AnsweredInOrder'
  BY DEF IInv, OneByOne, AnsweredInOrder
<1> QED BY <1>2, <1>3, <1>4

(* The parser takes the token at which it is.                              *)
LEMMA StreamTaken ==
  ASSUME IInv, pc = "parse", inBuffer # <<>>, inBuffer' = Tail(inBuffer),
         UNCHANGED <<rcv, kinds, parts>>,
         Expected' = After(kinds, Head(inBuffer))
  PROVE  Sending' /\ InStream'
<1>1. /\ inBuffer \in Seq(Tokens) /\ rcv \in Seq(Tokens)
      /\ Tail(inBuffer) \in Seq(Tokens) /\ Len(Tail(inBuffer)) = Len(inBuffer) - 1
      /\ Len(inBuffer) \in Nat \ {0}
      /\ \A i \in 1..Len(Tail(inBuffer)) : Tail(inBuffer)[i] = inBuffer[i + 1]
  BY HeadTailProperties, EmptySeq DEF IInv, TypeOK
<1>2. ToSend' = ToSend
  BY DEF ToSend, SentWhole
<1> DEFINE n == Len(inBuffer) + Len(rcv)
           line == Append(Unread, ToSend)
<1>3. /\ n \in Nat \ {0} /\ DOMAIN Unread = 1..n /\ line[1] = Head(inBuffer)
      /\ \A i \in 1..n : line[i] = Unread[i]
      /\ \A i \in 1..n : line[i] = IF i <= Len(inBuffer) THEN inBuffer[i]
                                                         ELSE rcv[i - Len(inBuffer)]
      /\ line[n + 1] = ToSend
  BY <1>1, LineFacts DEF Unread
<1>4. /\ DOMAIN Unread' = 1..(n - 1)
      /\ \A i \in 1..(n - 1) : Append(Unread, ToSend)'[i] = Unread'[i]
      /\ \A i \in 1..(n - 1) :
           Unread'[i] = IF i <= Len(inBuffer) - 1 THEN Tail(inBuffer)[i]
                                                  ELSE rcv[i - (Len(inBuffer) - 1)]
      /\ Append(Unread, ToSend)'[n] = ToSend
  <2>1. Len(Tail(inBuffer)) + Len(rcv) = n - 1 /\ (n - 1) + 1 = n
    BY <1>1, LineFacts
  <2>2. Append(Unread, ToSend)' = Append(Tail(inBuffer) \o rcv, ToSend)
        /\ Unread' = Tail(inBuffer) \o rcv
    BY <1>2 DEF Unread
  <2> HIDE DEF n
  <2> QED BY <1>1, <2>1, <2>2, LineFacts
<1>5. \A i \in 1..(n - 1) : Unread'[i] = line[i + 1] /\ Unread'[i] = Unread[i + 1]
  <2> SUFFICES ASSUME NEW i \in 1..(n - 1)
               PROVE  Unread'[i] = line[i + 1] /\ Unread'[i] = Unread[i + 1]
    OBVIOUS
  <2>1. /\ i + 1 \in 1..n /\ (i + 1) - Len(inBuffer) = i - (Len(inBuffer) - 1)
        /\ i <= Len(inBuffer) - 1 <=> i + 1 <= Len(inBuffer)
        /\ i <= Len(inBuffer) - 1 => i \in 1..Len(Tail(inBuffer))
    BY <1>1, <1>3
  <2>2. /\ Unread'[i] = IF i <= Len(inBuffer) - 1 THEN Tail(inBuffer)[i]
                                                  ELSE rcv[i - (Len(inBuffer) - 1)]
        /\ line[i + 1] = IF i + 1 <= Len(inBuffer) THEN inBuffer[i + 1]
                                                   ELSE rcv[(i + 1) - Len(inBuffer)]
        /\ line[i + 1] = Unread[i + 1]
    <3> HIDE DEF n, line
    <3> QED BY <1>3, <1>4, <2>1
  <2> HIDE DEF n, line
  <2>3. CASE i <= Len(inBuffer) - 1
    BY <1>1, <2>1, <2>2, <2>3
  <2>4. CASE ~(i <= Len(inBuffer) - 1)
    BY <2>1, <2>2, <2>4
  <2> QED BY <2>3, <2>4
<1>6. \A i \in 1..n : Append(Unread, ToSend)'[i] = line[i + 1]
  <2> HIDE DEF n, line
  <2> QED BY <1>3, <1>4, <1>5
<1>7. /\ line[2] = After(kinds, Head(inBuffer))
      /\ \A i \in 1..n : line[i + 1] = After(kinds, line[i])
  <2>1. Parsing
    BY AtExpected
  <2>2. \A i \in 1..n : line[i + 1] = After(kinds, line[i])
    BY <1>3, <2>1 DEF IInv, InStream
  <2> HIDE DEF n, line
  <2> QED BY <1>3, <2>2
<1>8. Sending'
  <2>1. \A i \in DOMAIN Unread' : Unread'[i].req \in 1..Len(kinds)
    <3> SUFFICES ASSUME NEW i \in 1..(n - 1) PROVE Unread'[i].req \in 1..Len(kinds)
      BY <1>4
    <3>1. i + 1 \in DOMAIN Unread
      BY <1>3
    <3>2. Unread[i + 1].req \in 1..Len(kinds)
      BY <3>1 DEF IInv, Sending
    <3> QED BY <1>5, <3>2
  <2> QED BY <2>1 DEF IInv, Sending
<1>9. InStream'
  <2>1. Append(Unread, ToSend)'[1] = Expected'
    <3> HIDE DEF n, line
    <3> QED BY <1>3, <1>6, <1>7
  <2>2. ASSUME NEW i \in DOMAIN Unread'
        PROVE  Append(Unread, ToSend)'[i + 1] = After(kinds, Append(Unread, ToSend)'[i])
    <3> HIDE DEF n, line
    <3>1. i \in 1..n /\ i + 1 \in 1..n
      BY <1>3, <1>4, <2>2
    <3> QED BY <1>6, <1>7, <3>1
  <2> QED BY <2>1, <2>2 DEF InStream
<1> QED BY <1>8, <1>9

(* The peer sends the next token.                                          *)
LEMMA StreamSent ==
  ASSUME IInv, TypeOK', NEW t \in Tokens, t = ToSend, rcv' = Append(rcv, t),
         UNCHANGED <<inBuffer, state, req, answered, error, connectionState, pc>>,
         Len(kinds) <= Len(kinds'), t.req \in 1..Len(kinds'),
         Len(kinds') <= MaxRequests,
         \A i \in 1..Len(kinds) : kinds'[i] = kinds[i],
         ToSend' = After(kinds', t),
         parts' \in 1..Len(PartsOf(Last(kinds))'), kinds' # <<>>
  PROVE  Sending' /\ ParsedSoFar' /\ InStream' /\ OneByOne' /\ AnsweredInOrder'
<1>1. /\ inBuffer \in Seq(Tokens) /\ rcv \in Seq(Tokens) /\ rcv' \in Seq(Tokens)
      /\ Len(rcv') = Len(rcv) + 1 /\ rcv'[Len(rcv) + 1] = t
      /\ \A i \in 1..Len(rcv) : rcv'[i] = rcv[i]
      /\ Len(kinds) \in Nat /\ Len(kinds') \in Nat
  BY AppendProperties DEF IInv, TypeOK
<1> DEFINE n == Len(inBuffer) + Len(rcv)
<1>2. /\ n \in Nat /\ DOMAIN Unread = 1..n
      /\ \A i \in 1..n : Append(Unread, ToSend)[i] = Unread[i]
      /\ \A i \in 1..n : Unread[i] = IF i <= Len(inBuffer) THEN inBuffer[i]
                                                           ELSE rcv[i - Len(inBuffer)]
      /\ Append(Unread, ToSend)[n + 1] = t
  BY <1>1, LineFacts DEF Unread
<1>3. /\ DOMAIN Unread' = 1..(n + 1)
      /\ \A i \in 1..(n + 1) : Append(Unread, ToSend)'[i] = Unread'[i]
      /\ \A i \in 1..(n + 1) :
           Unread'[i] = IF i <= Len(inBuffer) THEN inBuffer[i]
                                              ELSE rcv'[i - Len(inBuffer)]
      /\ Append(Unread, ToSend)'[(n + 1) + 1] = ToSend'
  <2>1. Len(inBuffer) + Len(rcv') = n + 1
    BY <1>1, LineFacts
  <2>2. Append(Unread, ToSend)' = Append(inBuffer \o rcv', ToSend')
        /\ Unread' = inBuffer \o rcv'
    BY DEF Unread
  <2>3. /\ DOMAIN (inBuffer \o rcv') = 1..(n + 1)
        /\ \A i \in 1..(n + 1) :
             /\ (inBuffer \o rcv')[i] = IF i <= Len(inBuffer) THEN inBuffer[i]
                                          ELSE rcv'[i - Len(inBuffer)]
             /\ Append(inBuffer \o rcv', ToSend')[i] = (inBuffer \o rcv')[i]
        /\ Append(inBuffer \o rcv', ToSend')[(n + 1) + 1] = ToSend'
    <3> DEFINE m == Len(inBuffer) + Len(rcv')
    <3>1. /\ DOMAIN (inBuffer \o rcv') = 1..m
          /\ \A i \in 1..m :
               /\ (inBuffer \o rcv')[i] = IF i <= Len(inBuffer) THEN inBuffer[i]
                                            ELSE rcv'[i - Len(inBuffer)]
               /\ Append(inBuffer \o rcv', ToSend')[i] = (inBuffer \o rcv')[i]
          /\ Append(inBuffer \o rcv', ToSend')[m + 1] = ToSend'
      <4> DEFINE u == ToSend'
                 r == rcv'
                 b == inBuffer
      <4>1. b \in Seq(Tokens) /\ r \in Seq(Tokens)
        BY <1>1
      <4> HIDE DEF u, r, b
      <4>2. /\ DOMAIN (b \o r) = 1..(Len(b) + Len(r))
            /\ \A i \in 1..(Len(b) + Len(r)) :
                 /\ (b \o r)[i] = IF i <= Len(b) THEN b[i] ELSE r[i - Len(b)]
                 /\ Append(b \o r, u)[i] = (b \o r)[i]
            /\ Append(b \o r, u)[Len(b) + Len(r) + 1] = u
        BY <4>1, LineFacts
      <4> QED BY <4>2 DEF u, r, b
    <3>2. m = n + 1
      BY <2>1
    <3> HIDE DEF n, m
    <3> QED BY <3>1, <3>2
  <2> HIDE DEF n
  <2> QED BY <2>2, <2>3
<1>4. /\ \A i \in 1..n : Unread'[i] = Unread[i]
      /\ Unread'[n + 1] = t
  <2>1. Len(inBuffer) \in Nat /\ Len(rcv) \in Nat
    BY <1>1
  <2>2. ASSUME NEW i \in 1..n PROVE Unread'[i] = Unread[i]
    <3>1. i \in 1..(n + 1) /\ (~(i <= Len(inBuffer)) => i - Len(inBuffer) \in 1..Len(rcv))
      BY <2>1
    <3> HIDE DEF n
    <3> QED BY <1>1, <1>2, <1>3, <3>1
  <2>3. (n + 1) \in 1..(n + 1) /\ ~(n + 1 <= Len(inBuffer))
        /\ (n + 1) - Len(inBuffer) = Len(rcv) + 1
    BY <2>1
  <2>4. Unread'[n + 1] = t
    <3> HIDE DEF n
    <3> QED BY <1>1, <1>3, <2>3
  <2> QED BY <2>2, <2>4
<1> HIDE DEF n
<1>5. Sending'
  <2>1. \A i \in DOMAIN Unread' : Unread'[i].req \in 1..Len(kinds')
    <3> SUFFICES ASSUME NEW i \in 1..(n + 1) PROVE Unread'[i].req \in 1..Len(kinds')
      BY <1>3
    <3>1. CASE i \in 1..n
      <4>1. Unread[i].req \in 1..Len(kinds)
        BY <1>2, <3>1 DEF IInv, Sending
      <4> QED BY <1>1, <1>4, <3>1, <4>1
    <3>2. CASE i = n + 1
      BY <1>4, <3>2
    <3> QED BY <1>2, <3>1, <3>2
  <2> QED BY <2>1 DEF Sending
<1>6. ParsedSoFar'
  <2>1. state # "uri" => kinds'[req] = kinds[req] /\ req \in 1..Len(kinds')
    BY <1>1 DEF IInv, ParsedSoFar
  <2> QED BY <2>1 DEF IInv, ParsedSoFar
<1>7. Expected' = Expected
  <2>1. state # "uri" => kinds'[req] = kinds[req]
    BY DEF IInv, ParsedSoFar
  <2> QED BY <2>1 DEF Expected
<1>8. InStream'
  <2> SUFFICES ASSUME Parsing
               PROVE  /\ Append(Unread, ToSend)'[1] = Expected'
                      /\ \A i \in 1..(n + 1) : Append(Unread, ToSend)'[i + 1]
                           = After(kinds', Append(Unread, ToSend)'[i])
    BY <1>3 DEF InStream, Parsing
  <2>1. \A i \in 1..(n + 1) : Append(Unread, ToSend)'[i] = Append(Unread, ToSend)[i]
    <3>1. \A i \in 1..(n + 1) : i \in 1..n \/ i = n + 1
      BY <1>2
    <3> QED BY <1>2, <1>3, <1>4, <3>1
  <2>2. 1 \in 1..(n + 1) /\ Append(Unread, ToSend)[1] = Expected
    <3>1. Append(Unread, ToSend)[1] = Expected
      BY DEF IInv, InStream
    <3> QED BY <1>2, <3>1
  <2>3. ASSUME NEW i \in 1..n
        PROVE  Append(Unread, ToSend)'[i + 1] = After(kinds', Append(Unread, ToSend)'[i])
    <3>1. /\ i \in 1..(n + 1) /\ i + 1 \in 1..(n + 1)
          /\ Append(Unread, ToSend)[i + 1] = After(kinds, Append(Unread, ToSend)[i])
          /\ Append(Unread, ToSend)[i].req \in 1..Len(kinds)
      <4>1. i \in DOMAIN Unread /\ i \in 1..(n + 1) /\ i + 1 \in 1..(n + 1)
        BY <1>2
      <4>2. Unread[i].req \in 1..Len(kinds)
        BY <4>1 DEF IInv, Sending
      <4>3. Append(Unread, ToSend)[i + 1] = After(kinds, Append(Unread, ToSend)[i])
        BY <4>1 DEF IInv, InStream
      <4> QED BY <1>2, <4>1, <4>2, <4>3
    <3> DEFINE x == Append(Unread, ToSend)[i]
    <3>2. After(kinds', x) = After(kinds, x)
      <4>1. kinds'[x.req] = kinds[x.req]
        BY <3>1
      <4> QED BY <4>1 DEF After
    <3> QED BY <2>1, <3>1, <3>2
  <2>4. Append(Unread, ToSend)'[(n + 1) + 1]
          = After(kinds', Append(Unread, ToSend)'[n + 1])
    <3>1. n + 1 \in 1..(n + 1)
      BY <1>2
    <3> QED BY <1>2, <1>3, <2>1, <3>1
  <2>5. \A i \in 1..(n + 1) : i \in 1..n \/ i = n + 1
    BY <1>2
  <2>6. Append(Unread, ToSend)'[1] = Expected'
    BY <1>7, <2>1, <2>2
  <2> QED BY <2>3, <2>4, <2>5, <2>6
<1>9. OneByOne' /\ AnsweredInOrder'
  <2>1. state # "uri" => kinds'[req] = kinds[req]
    BY DEF IInv, ParsedSoFar
  <2> QED BY <2>1 DEF IInv, OneByOne, Parsing, AnsweredInOrder
<1> QED BY <1>5, <1>6, <1>8, <1>9

----------------------------------------------------------------------------
(* Where the loop thread is, what it leaves in inBuffer_, and the timer.   *)
LEMMA InitPhases == Init => Phases /\ UsedUp /\ OpenMeansTimed
BY DEF Init, Phases, UsedUp, OpenMeansTimed, Idle, Connected

LEMMA PhasesNext ==
  ASSUME IInv, Next
  PROVE  Phases' /\ UsedUp' /\ OpenMeansTimed'
<1> USE DEF Phases, UsedUp, OpenMeansTimed, Idle, Connected
<1>0. Phases /\ UsedUp /\ OpenMeansTimed /\ rcv \in Seq(Tokens)
      /\ revents \subseteq {"IN", "OUT"} /\ inBuffer \in Seq(Tokens)
      /\ lastEvents \in {{}, {"IN", "ONESHOT"}, {"IN"}, {"OUT"}}
  BY DEF IInv, TypeOK
<1>1. CASE NewEvent
  BY <1>0, <1>1 DEF NewEvent, Watch, parseVars, replyVars, connVars
<1>2. CASE HandleEvents \/ IgnoreReset
  BY <1>0, <1>2 DEF HandleEvents, IgnoreReset, Report, parseVars, replyVars, connVars
<1>3. CASE Read
  BY <1>0, <1>3 DEF Read, chanVars, replyVars
<1>4. CASE ReadFails
  BY <1>0, <1>4 DEF ReadFails, HandleError, AfterRead, chanVars, replyVars
<1>5. CASE NeedMore
  BY <1>0, <1>5 DEF NeedMore, chanVars, parseVars, replyVars, connVars
<1>6. CASE ParseURI
  BY <1>0, <1>6 DEF ParseURI, HandleError, AfterRead, chanVars, replyVars
<1>7. CASE ParseHeaders
  BY <1>0, <1>7 DEF ParseHeaders, HandleError, AfterRead, chanVars, replyVars
<1>8. CASE LackOfLength \/ RecvBody
  BY <1>0, <1>8 DEF LackOfLength, RecvBody, HandleError, AfterRead, chanVars,
                    parseVars, replyVars, connVars
<1>9. CASE Analysis \/ AnalysisFails
  BY <1>0, <1>9 DEF Analysis, AnalysisFails, HandleError, AfterRead, chanVars,
                    parseVars, replyVars, connVars
<1>10. CASE Flush
  BY <1>0, <1>10 DEF Flush, Writen, AfterRead
<1>11. CASE HandleWrite
  BY <1>0, <1>11 DEF HandleWrite, Writen, parseVars
<1>12. CASE Rearm
  <2>1. lastEvents' = events' /\ events' # {}
    <3>1. events' # {}
      BY <1>12 DEF Rearm
    <3> QED BY <1>12, <3>1 DEF Rearm, EpollMod, Watch
  <2>2. /\ timer' = TRUE /\ pc' = "idle" /\ pc = "conn" /\ ~error
        /\ UNCHANGED <<inBuffer, state, req, error, connectionState>>
    BY <1>12 DEF Rearm, EpollMod, Watch, parseVars, connVars
  <2> QED BY <1>0, <2>1, <2>2
<1>15. CASE KeepHalfClosed
  BY <1>0, <1>15 DEF KeepHalfClosed, HalfClosed, parseVars, replyVars, connVars
<1>16. CASE HandleClose
  BY <1>0, <1>16 DEF HandleClose, Close, chanVars, parseVars, replyVars
<1>13. CASE Expire
  BY <1>0, <1>13 DEF Expire, Close, chanVars, parseVars, replyVars
<1>14. CASE Peer
  BY <1>0, <1>14 DEF Peer, PeerBegins, PeerContinues, PeerFin, PeerReset,
                     PeerReceives, SendToken, chanVars, parseVars, replyVars, connVars
<1> QED
  BY <1>1, <1>2, <1>3, <1>4, <1>5, <1>6, <1>7, <1>8, <1>9, <1>10, <1>11, <1>12,
     <1>13, <1>14, <1>15, <1>16 DEF Next, LoopStep, ReadStep, ConnStep

----------------------------------------------------------------------------
(* The stream of tokens is kept by every step.                             *)
LEMMA InitStream ==
  Init => Sending /\ ParsedSoFar /\ InStream /\ OneByOne /\ AnsweredInOrder
<1> SUFFICES ASSUME Init
             PROVE  Sending /\ ParsedSoFar /\ InStream /\ OneByOne /\ AnsweredInOrder
  OBVIOUS
<1>1. /\ kinds = <<>> /\ Len(kinds) = 0 /\ parts = 0 /\ state = "uri"
      /\ answered = <<>> /\ Len(answered) = 0 /\ inBuffer = <<>> /\ rcv = <<>>
  BY DEF Init
<1>2. Unread = <<>> /\ DOMAIN Unread = {}
  BY <1>1 DEF Unread
<1>3. ToSend = [req |-> 1, part |-> "line"] /\ Expected = [req |-> 1, part |-> "line"]
  BY <1>1 DEF ToSend, SentWhole, Expected
<1>4. Append(Unread, ToSend)[1] = ToSend
  BY <1>2
<1>5. AnsweredInOrder
  BY <1>1 DEF AnsweredInOrder
<1> QED
  BY <1>1, <1>2, <1>3, <1>4, <1>5, ConnectionAssumption
     DEF Sending, ParsedSoFar, InStream, OneByOne

(* A step after which the parser takes no tokens any more. *)
LEMMA StreamEnds ==
  ASSUME IInv, ~Parsing', UNCHANGED <<kinds, parts, answered>>,
         \A i \in DOMAIN Unread' : Unread'[i].req \in 1..Len(kinds),
         ParsedSoFar'
  PROVE  Sending' /\ ParsedSoFar' /\ InStream' /\ OneByOne' /\ AnsweredInOrder'
BY DEF IInv, Sending, InStream, OneByOne, AnsweredInOrder

LEMMA StreamNext ==
  ASSUME IInv, Next
  PROVE  Sending' /\ ParsedSoFar' /\ InStream' /\ OneByOne' /\ AnsweredInOrder'
<1>0. /\ inBuffer \in Seq(Tokens) /\ rcv \in Seq(Tokens) /\ Phases
      /\ kinds \in Seq(Kinds) /\ answered \in Seq(Requests) /\ TypeOK
  BY DEF IInv, TypeOK
<1>1. CASE NewEvent \/ HandleEvents \/ IgnoreReset \/ NeedMore
  BY <1>1, StreamKept
     DEF NewEvent, HandleEvents, IgnoreReset, Report, NeedMore, Parsing, parseVars,
         replyVars, connVars, inVars, peerVars
<1>2. CASE LackOfLength \/ AnalysisFails
  BY <1>2, StreamKept
     DEF LackOfLength, AnalysisFails, HandleError, Parsing, parseVars,
         replyVars, connVars, inVars, peerVars
<1>3. CASE Rearm \/ KeepHalfClosed \/ HandleClose \/ Expire
  BY <1>3, StreamKept
     DEF Rearm, KeepHalfClosed, HandleClose, Expire, Close, Parsing, parseVars,
         replyVars, connVars, inVars, peerVars
<1>4. CASE PeerFin \/ PeerReset \/ PeerReceives
  BY <1>4, StreamKept
     DEF PeerFin, PeerReset, PeerReceives, Parsing, parseVars,
         replyVars, connVars, inVars, peerVars
<1>5. CASE HandleWrite
  <2>1. ~error' => ~error
    BY <1>0, <1>5, WritenMoves DEF HandleWrite
  <2> QED
    BY <1>5, <2>1, StreamKept DEF HandleWrite, Parsing, parseVars, inVars, peerVars
<1>6. CASE Flush
  <2>1. ~error' => ~error
    BY <1>0, <1>6, WritenMoves DEF Flush
  <2>2. /\ pc = "flush" /\ pc' # "parse"
        /\ UNCHANGED <<inBuffer, rcv, kinds, parts, req, answered, connectionState>>
    BY <1>6 DEF Flush, AfterRead, inVars, peerVars
  <2>3. CASE state' = state
    BY <2>1, <2>2, <2>3, StreamKept DEF Parsing
  <2>4. CASE state' # state
    <3>1. state = "finish" /\ state' = "uri"
      BY <1>6, <2>4 DEF Flush
    <3>2. Unread' = Unread /\ ToSend' = ToSend /\ Expected' = Expected
      BY <2>2, <3>1 DEF Unread, ToSend, SentWhole, Expected
    <3>3. Sending' /\ ParsedSoFar' /\ OneByOne' /\ AnsweredInOrder'
      BY <2>2, <3>1, <3>2
         DEF IInv, Sending, ParsedSoFar, OneByOne, AnsweredInOrder
    <3>4. InStream'
      BY <2>1, <2>2, <3>2 DEF IInv, InStream, Parsing
    <3> QED BY <3>3, <3>4
  <2> QED BY <2>3, <2>4
<1>7. CASE Read
  <2>1. /\ pc = "read" /\ rcv' = <<>>
        /\ UNCHANGED <<kinds, parts, state, req, answered, error>>
    BY <1>7 DEF Read, replyVars, peerVars
  <2>2. ParsedSoFar' /\ AnsweredInOrder' /\ ToSend' = ToSend /\ Expected' = Expected
    BY <2>1 DEF IInv, ParsedSoFar, AnsweredInOrder, ToSend, SentWhole, Expected
  <2>3. CASE connectionState = "disconnecting"
    <3>1. inBuffer' = <<>> /\ pc' = "flush" /\ connectionState' = connectionState
      BY <1>7, <2>3 DEF Read
    <3>2. ~Parsing'
      BY <2>3, <3>1 DEF Parsing
    <3>3. DOMAIN Unread' = {}
      BY <2>1, <3>1 DEF Unread
    <3> QED BY <2>1, <2>2, <3>2, <3>3, StreamEnds
  <2>4. CASE connectionState # "disconnecting"
    <3>1. inBuffer' = inBuffer \o rcv
      BY <1>7, <2>4 DEF Read
    <3>2. Unread' = Unread
      BY <1>0, <2>1, <3>1, ConcatEmptySeq, ConcatProperties DEF Unread
    <3>3. ~error /\ connectionState = "connected"
      BY <1>0, <2>1, <2>4 DEF Phases, TypeOK
    <3>4. Parsing
      BY <3>3 DEF Parsing
    <3>5. Sending' /\ InStream'
      BY <2>1, <2>2, <3>2, <3>4 DEF IInv, Sending, InStream
    <3>6. OneByOne'
      BY <1>0, <2>1, <3>3, <3>4 DEF IInv, OneByOne, Phases
    <3> QED BY <2>2, <3>5, <3>6
  <2> QED BY <2>3, <2>4
<1>8. CASE ReadFails
  <2>1. /\ inBuffer' = inBuffer \o rcv /\ rcv' = <<>> /\ error'
        /\ UNCHANGED <<kinds, parts, state, req, answered>>
    BY <1>8 DEF ReadFails, HandleError, replyVars, peerVars
  <2>2. Unread' = Unread /\ ~Parsing'
    BY <1>0, <2>1, ConcatEmptySeq, ConcatProperties DEF Unread, Parsing
  <2>3. ParsedSoFar'
    BY <2>1 DEF IInv, ParsedSoFar
  <2> QED BY <2>1, <2>2, <2>3, StreamEnds DEF IInv, Sending
<1>9. CASE ParseURI
  <2>1. /\ pc = "parse" /\ state = "uri" /\ inBuffer # <<>>
        /\ Head(inBuffer).part = "line" /\ req' = Head(inBuffer).req
        /\ UNCHANGED <<rcv, kinds, parts, answered, connectionState>>
    BY <1>9 DEF ParseURI, NextToken, replyVars, inVars, peerVars
  <2>2. /\ Parsing /\ Head(inBuffer) = Expected
        /\ Head(inBuffer) \in Tokens
        /\ Head(inBuffer).req \in 1..Len(kinds)
    BY <2>1, AtExpected
  <2>3. Expected = [req |-> Len(answered) + 1, part |-> "line"]
    BY <2>1 DEF Expected
  <2>4. req' = Len(answered) + 1 /\ req' \in 1..Len(kinds)
    BY <2>1, <2>2, <2>3
  <2>5. CASE kinds[req'] = "badline"
    <3>1. error' /\ inBuffer' = <<>> /\ state' = state
      BY <1>9, <2>1, <2>5 DEF ParseURI, HandleError
    <3>2. Unread' = rcv
      BY <1>0, <2>1, <3>1, ConcatEmptySeq DEF Unread
    <3>3. \A i \in DOMAIN Unread' : Unread'[i].req \in 1..Len(kinds)
      <4> SUFFICES ASSUME NEW i \in DOMAIN rcv PROVE rcv[i].req \in 1..Len(kinds)
        BY <3>2
      <4>1. i \in 1..Len(rcv) /\ Len(rcv) \in Nat /\ Len(inBuffer) \in Nat
        BY <1>0, LenProperties
      <4>2. /\ Len(inBuffer) + i \in 1..(Len(inBuffer) + Len(rcv))
            /\ ~(Len(inBuffer) + i <= Len(inBuffer))
            /\ (Len(inBuffer) + i) - Len(inBuffer) = i
        BY <4>1
      <4>3. Len(inBuffer) + i \in DOMAIN Unread /\ Unread[Len(inBuffer) + i] = rcv[i]
        BY <1>0, <4>2, LineFacts DEF Unread
      <4> QED BY <4>3 DEF IInv, Sending
    <3>4. ~Parsing' /\ ParsedSoFar'
      BY <2>1, <3>1 DEF Parsing, ParsedSoFar
    <3> QED BY <2>1, <3>3, <3>4, StreamEnds
  <2>6. CASE kinds[req'] # "badline"
    <3>1. /\ inBuffer' = Tail(inBuffer) /\ state' = "headers"
          /\ UNCHANGED <<pc, error>>
      BY <1>9, <2>1, <2>6 DEF ParseURI
    <3>2. Expected' = [req |-> req', part |-> "headers"]
      BY <3>1 DEF Expected
    <3>3. After(kinds, Head(inBuffer)) = [req |-> req', part |-> "headers"]
      BY <2>1, <2>6 DEF After
    <3>4. Sending' /\ InStream'
      BY <2>1, <3>1, <3>2, <3>3, StreamTaken
    <3>5. ParsedSoFar' /\ OneByOne' /\ AnsweredInOrder'
      BY <2>1, <2>4, <2>6, <3>1 DEF ParsedSoFar, OneByOne, IInv, AnsweredInOrder
    <3> QED BY <3>4, <3>5
  <2> QED BY <2>5, <2>6
<1>10. CASE ParseHeaders
  <2>1. /\ pc = "parse" /\ state = "headers" /\ inBuffer # <<>>
        /\ Head(inBuffer).part = "headers"
        /\ UNCHANGED <<rcv, kinds, parts, req, answered, connectionState>>
    BY <1>10 DEF ParseHeaders, NextToken, replyVars, inVars, peerVars
  <2>2. CASE kinds[req] = "badheader"
    <3>1. error' /\ UNCHANGED <<inBuffer, state>>
      BY <1>10, <2>2 DEF ParseHeaders, HandleError
    <3> QED BY <2>1, <3>1, StreamKept DEF Parsing
  <2>3. CASE kinds[req] # "badheader"
    <3>1. /\ inBuffer' = Tail(inBuffer) /\ UNCHANGED <<pc, error>>
          /\ state' = IF kinds[req] \in {"post", "form", "nolength"}
                        THEN "body" ELSE "analysis"
      BY <1>10, <2>3 DEF ParseHeaders
    <3>2. Parsing /\ Head(inBuffer) = Expected
      BY <2>1, AtExpected
    <3>3. Head(inBuffer) = [req |-> req, part |-> "headers"]
      BY <2>1, <3>2 DEF Expected
    <3>4. /\ req \in 1..Len(kinds) /\ kinds[req] # "badline"
          /\ req = Len(answered) + 1
      BY <2>1, <3>2 DEF IInv, ParsedSoFar, OneByOne
    <3>5. Expected' = After(kinds, Head(inBuffer))
      <4>1. After(kinds, Head(inBuffer)) =
              IF kinds[req] \in {"post", "form"} THEN [req |-> req, part |-> "body"]
                                                 ELSE [req |-> req + 1, part |-> "line"]
        BY <3>3 DEF After
      <4>2. Expected' =
              IF kinds[req] \in {"post", "form"} THEN [req |-> req, part |-> "body"]
                                                 ELSE [req |-> req + 1, part |-> "line"]
        BY <2>1, <3>1 DEF Expected
      <4> QED BY <4>1, <4>2
    <3>6. Sending' /\ InStream'
      BY <2>1, <3>1, <3>5, StreamTaken
    <3>7. ParsedSoFar' /\ AnsweredInOrder'
      BY <2>1, <2>3, <3>1, <3>4 DEF ParsedSoFar, IInv, AnsweredInOrder
    <3>8. OneByOne'
      BY <2>1, <3>1, <3>4 DEF OneByOne
    <3> QED BY <3>6, <3>7, <3>8
  <2> QED BY <2>2, <2>3
<1>11. CASE RecvBody
  <2>1. /\ pc = "parse" /\ state = "body" /\ inBuffer # <<>> /\ state' = "analysis"
        /\ Head(inBuffer).part = "body"
        /\ UNCHANGED <<pc, inBuffer, rcv, kinds, parts, req, answered,
                       connectionState, error>>
    BY <1>11 DEF RecvBody, NextToken, replyVars, connVars, inVars, peerVars
  <2>2. Parsing /\ Head(inBuffer) = Expected
    BY <2>1, AtExpected
  <2>3. /\ req \in 1..Len(kinds) /\ req = Len(answered) + 1
        /\ kinds[req] \in {"post", "form", "nolength"}
    BY <2>1, <2>2 DEF IInv, ParsedSoFar, OneByOne
  <2>4. kinds[req] # "nolength"
    <3> SUFFICES ASSUME kinds[req] = "nolength" PROVE FALSE
      OBVIOUS
    <3>1. Expected = [req |-> req + 1, part |-> "line"]
      BY <2>1 DEF Expected
    <3> QED BY <2>1, <2>2, <3>1
  <2>5. Unread' = Unread /\ ToSend' = ToSend /\ Expected' = Expected
    BY <2>1, <2>3, <2>4 DEF Unread, ToSend, SentWhole, Expected
  <2>6. Sending' /\ InStream'
    BY <2>1, <2>2, <2>5 DEF IInv, Sending, InStream
  <2>7. ParsedSoFar' /\ OneByOne' /\ AnsweredInOrder'
    BY <2>1, <2>3, <2>4 DEF ParsedSoFar, OneByOne, IInv, AnsweredInOrder
  <2> QED BY <2>6, <2>7
<1>12. CASE Analysis
  <2>1. /\ pc = "parse" /\ state = "analysis" /\ state' = "finish"
        /\ kinds[req] \in {"get", "hello", "post"}
        /\ answered' = Append(answered, req)
        /\ UNCHANGED <<rcv, kinds, parts, req, connectionState, error>>
    BY <1>12 DEF Analysis, connVars, inVars, peerVars
  <2>2. Parsing
    BY <1>0, <2>1 DEF Phases, Parsing
  <2>3. req \in 1..Len(kinds) /\ req = Len(answered) + 1
    BY <2>1, <2>2 DEF IInv, ParsedSoFar, OneByOne
  <2>4. req \in Requests
    BY <2>3, ConnectionAssumption DEF Requests, IInv, Sending
  <2>5. /\ Len(answered) \in Nat /\ Len(answered') = req
        /\ DOMAIN answered = 1..Len(answered) /\ DOMAIN answered' = 1..req
        /\ \A i \in 1..Len(answered) : answered'[i] = answered[i]
        /\ answered'[req] = req
    BY <1>0, <2>1, <2>3, <2>4, AppendProperties, LenProperties
  <2>6. AnsweredInOrder'
    <3>1. \A i \in 1..Len(answered) : answered[i] = i
      BY <2>5 DEF IInv, AnsweredInOrder
    <3>2. \A i \in 1..req : answered'[i] = i
      BY <2>3, <2>5, <3>1
    <3>3. answered' = [i \in 1..req |-> answered'[i]]
      <4>1. answered' \in Seq(Requests)
        BY <1>0, <2>1, <2>4, AppendProperties
      <4> QED BY <2>5, <4>1
    <3> QED BY <2>5, <3>2, <3>3 DEF AnsweredInOrder
  <2>7. Expected' = [req |-> req + 1, part |-> "line"]
    BY <2>1, <2>5 DEF Expected
  <2>8. ParsedSoFar' /\ OneByOne'
    BY <2>1, <2>3 DEF ParsedSoFar, OneByOne
  <2>9. CASE kinds[req] = "post"
    <3>1. inBuffer # <<>> /\ inBuffer' = Tail(inBuffer)
      BY <1>12, <2>1, <2>2, <2>9 DEF Analysis, IInv, OneByOne
    <3>2. Head(inBuffer) = [req |-> req, part |-> "body"]
      BY <2>1, <2>9, <3>1, AtExpected DEF Expected
    <3>3. Expected' = After(kinds, Head(inBuffer))
      BY <2>7, <3>2 DEF After
    <3>4. Sending' /\ InStream'
      BY <2>1, <3>1, <3>3, StreamTaken
    <3> QED BY <2>6, <2>8, <3>4
  <2>10. CASE kinds[req] # "post"
    <3>1. inBuffer' = inBuffer
      BY <1>12, <2>10 DEF Analysis
    <3>2. Expected = [req |-> req + 1, part |-> "line"]
      BY <2>1, <2>10 DEF Expected
    <3>3. Unread' = Unread /\ ToSend' = ToSend /\ Expected' = Expected
      BY <2>1, <2>7, <3>1, <3>2 DEF Unread, ToSend, SentWhole
    <3>4. Sending' /\ InStream'
      BY <2>1, <2>2, <3>3 DEF IInv, Sending, InStream
    <3> QED BY <2>6, <2>8, <3>4
  <2> QED BY <2>9, <2>10
<1>13. CASE PeerBegins
  <2>1. PICK k \in Kinds : kinds' = Append(kinds, k)
    BY <1>13 DEF PeerBegins
  <2>2. /\ Len(kinds) \in Nat /\ Len(kinds') = Len(kinds) + 1 /\ kinds' # <<>>
        /\ \A i \in 1..Len(kinds) : kinds'[i] = kinds[i]
        /\ kinds'[Len(kinds) + 1] = k /\ Last(kinds)' = k
    BY <1>0, <2>1, AppendProperties DEF Last
  <2> DEFINE t == [req |-> Len(kinds) + 1, part |-> "line"]
  <2>3. /\ SentWhole /\ Len(kinds') <= MaxRequests /\ parts' = 1
        /\ rcv' = Append(rcv, t)
        /\ UNCHANGED <<inBuffer, state, req, answered, error, connectionState, pc>>
    BY <1>13, <2>2, ConnectionAssumption
       DEF PeerBegins, SendToken, parseVars, replyVars, connVars
  <2>4. t \in Tokens /\ t = ToSend /\ t.req \in 1..Len(kinds')
    BY <2>2, <2>3, ConnectionAssumption DEF Tokens, Requests, ToSend
  <2>5. parts' \in 1..Len(PartsOf(Last(kinds))')
    <3>1. Len(PartsOf(k)) \in 1..3 /\ Len(PartsOf(Last(kinds))') = Len(PartsOf(k))
      BY <2>2, KindParts
    <3> QED BY <2>3, <3>1
  <2>6. ToSend' = After(kinds', t)
    <3>1. /\ k = "badline" => Len(PartsOf(k)) = 1
          /\ k # "badline" => Len(PartsOf(k)) # 1 /\ PartsOf(k)[2] = "headers"
      BY DEF PartsOf
    <3>2. SentWhole' <=> k = "badline"
      BY <2>2, <2>3, <3>1 DEF SentWhole
    <3>3. ToSend' = IF k = "badline" THEN [req |-> Len(kinds) + 2, part |-> "line"]
                                     ELSE [req |-> Len(kinds) + 1, part |-> "headers"]
      BY <2>2, <2>3, <3>1, <3>2 DEF ToSend
    <3>4. After(kinds', t) = IF k = "badline" THEN [req |-> Len(kinds) + 2, part |-> "line"]
                                     ELSE [req |-> Len(kinds) + 1, part |-> "headers"]
      BY <2>2 DEF After
    <3> QED BY <3>3, <3>4
  <2>7. TypeOK' /\ Len(kinds) <= Len(kinds')
    BY <2>2, TypeNext
  <2> HIDE DEF t
  <2> QED BY <2>2, <2>3, <2>4, <2>5, <2>6, <2>7, StreamSent
<1>14. CASE PeerContinues
  <2> DEFINE k == kinds[Len(kinds)]
             t == [req |-> Len(kinds), part |-> PartsOf(k)[parts + 1]]
  <2>1. /\ kinds # <<>> /\ Len(kinds) \in Nat /\ Len(kinds) # 0 /\ k \in Kinds
        /\ parts \in 1..Len(PartsOf(k)) /\ parts # Len(PartsOf(k)) /\ Last(kinds) = k
        /\ Len(kinds) <= MaxRequests /\ ~SentWhole
    BY <1>0, <1>14 DEF PeerContinues, SentWhole, IInv, Sending, Last
  <2>2. Len(PartsOf(k)) \in 1..3 /\ parts' = parts + 1 /\ kinds' = kinds
        /\ parts' \in 1..Len(PartsOf(k))
    BY <1>14, <2>1, KindParts DEF PeerContinues
  <2>3. /\ rcv' = Append(rcv, t)
        /\ UNCHANGED <<inBuffer, state, req, answered, error, connectionState, pc>>
    BY <1>14, <2>1, <2>2 DEF PeerContinues, SendToken, parseVars, replyVars, connVars
  <2>4. t \in Tokens /\ t = ToSend /\ t.req \in 1..Len(kinds)
    <3>1. PartsOf(k)[parts + 1] \in {"line", "headers", "body"}
      BY <2>1, <2>2, KindParts
    <3> QED BY <2>1, <3>1, ConnectionAssumption DEF Tokens, Requests, ToSend
  <2>5. ToSend' = After(kinds, t)
    <3> HIDE DEF k
    <3>1. \/ /\ k \in {"post", "form"} /\ PartsOf(k) = <<"line", "headers", "body">>
             /\ parts \in {1, 2}
          \/ /\ k \notin {"post", "form", "badline"}
             /\ PartsOf(k) = <<"line", "headers">> /\ parts = 1
      BY <2>1, <2>2 DEF PartsOf
    <3>2. /\ SentWhole' <=> parts + 1 = Len(PartsOf(k))
          /\ Last(kinds)' = k
      BY <2>1, <2>2 DEF SentWhole, Last
    <3>3. ToSend' = IF parts + 1 = Len(PartsOf(k))
                      THEN [req |-> Len(kinds) + 1, part |-> "line"]
                      ELSE [req |-> Len(kinds), part |-> PartsOf(k)[parts + 2]]
      <4>1. parts' + 1 = parts + 2
        BY <2>1, <2>2
      <4> QED BY <2>2, <3>2, <4>1 DEF ToSend
    <3>4. After(kinds, t) =
            IF t.part = "line" /\ k # "badline" THEN [req |-> Len(kinds), part |-> "headers"]
            ELSE IF t.part = "headers" /\ k \in {"post", "form"}
                   THEN [req |-> Len(kinds), part |-> "body"]
            ELSE [req |-> Len(kinds) + 1, part |-> "line"]
      BY DEF After, k
    <3>5. CASE k \in {"post", "form"} /\ parts = 1
      BY <3>1, <3>3, <3>4, <3>5
    <3>6. CASE k \in {"post", "form"} /\ parts = 2
      BY <3>1, <3>3, <3>4, <3>6
    <3>7. CASE k \notin {"post", "form"}
      <4>1. /\ parts + 1 = 2 /\ Len(PartsOf(k)) = 2
            /\ PartsOf(k)[parts + 1] = "headers"
        BY <3>1, <3>7
      <4> QED BY <3>3, <3>4, <3>7, <4>1
    <3>8. k \in {"post", "form"} => parts = 1 \/ parts = 2
      BY <3>1
    <3> QED BY <3>5, <3>6, <3>7, <3>8
  <2>6. TypeOK' /\ Len(kinds) <= Len(kinds')
    BY <2>1, <2>2, TypeNext
  <2>7. Last(kinds)' = k
    BY <2>1, <2>2 DEF Last
  <2> HIDE DEF t, k
  <2>8. /\ \A i \in 1..Len(kinds) : kinds'[i] = kinds[i]
        /\ t.req \in 1..Len(kinds') /\ kinds' # <<>> /\ Len(kinds') <= MaxRequests
        /\ parts' \in 1..Len(PartsOf(Last(kinds))') /\ ToSend' = After(kinds', t)
    BY <2>1, <2>2, <2>4, <2>5, <2>7
  <2> QED BY <2>3, <2>4, <2>6, <2>8, StreamSent
<1> QED
  BY <1>1, <1>2, <1>3, <1>4, <1>5, <1>6, <1>7, <1>8, <1>9, <1>10, <1>11, <1>12,
     <1>13, <1>14 DEF Next, LoopStep, ReadStep, ConnStep, Peer

----------------------------------------------------------------------------
(* epoll: what is watched, and that no edge is lost.                       *)
LEMMA InitWatching == Init => Watching /\ NoLostEdge
BY DEF Init, Watching, NoLostEdge, Idle, Connected

LEMMA WatchingNext ==
  ASSUME IInv, Next
  PROVE  Watching' /\ NoLostEdge'
<1>0. /\ TypeOK /\ Phases /\ Watching /\ NoLostEdge /\ ready \in BOOLEAN
      /\ lastEvents \in {{}, {"IN", "ONESHOT"}, {"IN"}, {"OUT"}}
      /\ connectionState \in {"connected", "disconnecting", "disconnected"}
      /\ interest \in {{}, lastEvents \ {"ONESHOT"}}
  BY DEF IInv, TypeOK
<1>01. \A w : Status \cap w # {} <=> \/ "IN" \in w /\ Readable
                                     \/ "OUT" \in w /\ Writable
  BY DEF Status
<1>02. \A w : Status' \cap w # {} <=> \/ "IN" \in w /\ Readable'
                                      \/ "OUT" \in w /\ Writable'
  BY DEF Status
<1>1. CASE NewEvent
  <2>1. /\ pc = "accepted" /\ outBuffer' = <<>> /\ pc' = "idle"
        /\ Readable' = Readable /\ Writable' = Writable
        /\ Watch({"IN", "ONESHOT"})
    BY <1>0, <1>1 DEF NewEvent, Phases, Readable, Writable, replyVars, inVars
  <2>2. /\ lastEvents' = {"IN", "ONESHOT"} /\ interest' = {"IN"}
        /\ Readable => ready'
    BY <1>01, <2>1 DEF Watch
  <2>3. Status' \cap interest' # {} => ready'
    BY <1>02, <2>1, <2>2
  <2> QED BY <2>1, <2>2, <2>3 DEF Watching, NoLostEdge, Idle
<1>2. CASE HandleEvents
  <2>1. /\ pc = "idle" /\ ready /\ events' = {}
        /\ interest' = IF "ONESHOT" \in lastEvents THEN {} ELSE interest
        /\ pc' = IF "IN" \in Status \cap interest THEN "read" ELSE "write"
        /\ Readable' = Readable /\ Writable' = Writable
        /\ UNCHANGED <<lastEvents, connectionState, error, rst>>
    BY <1>2 DEF HandleEvents, Report, Readable, Writable, replyVars, inVars, connVars
  <2>2. "ONESHOT" \notin lastEvents => interest = lastEvents
    BY <1>0, <2>1 DEF Watching
  <2>3. lastEvents = {"OUT"} => pc' = "write"
    BY <2>1, <2>2
  <2>4. pc' = "write" /\ "IN" \in interest' => ~Readable'
    BY <2>1 DEF Status
  <2>5. pc' \in {"read", "write"}
    BY <2>1
  <2>6. "ONESHOT" \notin lastEvents' => interest' = lastEvents'
    BY <2>1, <2>2
  <2> QED BY <2>1, <2>3, <2>4, <2>5, <2>6 DEF Watching, NoLostEdge, Idle
<1>3. CASE IgnoreReset
  <2>1. /\ rst' /\ pc = "idle"
        /\ interest' = IF "ONESHOT" \in lastEvents THEN {} ELSE interest
        /\ UNCHANGED lastEvents
    BY <1>3 DEF IgnoreReset, Report, inVars
  <2> QED BY <1>0, <2>1 DEF Watching, NoLostEdge
<1>4. CASE Read
  <2>1. /\ pc = "read" /\ pc' \in {"flush", "parse"} /\ rcv' = <<>>
        /\ UNCHANGED <<lastEvents, interest, error, rst, fin>>
        /\ connectionState' = "connected" =>
             connectionState # "disconnecting" /\ ~fin
    BY <1>4 DEF Read, chanVars, epollVars
  <2>2. Connected' /\ ~rst' => Connected /\ ~rst /\ ~Readable'
    BY <1>0, <2>1 DEF Connected, Phases, Readable
  <2> QED BY <1>0, <2>1, <2>2 DEF Watching, NoLostEdge, Idle
<1>5. CASE ReadFails \/ LackOfLength \/ AnalysisFails
  <2>1. /\ error' /\ pc \in {"read", "parse"} /\ pc' \in {"write", "conn"}
        /\ UNCHANGED <<lastEvents, interest>>
    BY <1>5 DEF ReadFails, LackOfLength, AnalysisFails, HandleError, AfterRead,
                chanVars, epollVars
  <2> QED BY <1>0, <2>1 DEF Watching, NoLostEdge, Idle, Connected
<1>6. CASE NeedMore \/ ParseURI \/ ParseHeaders \/ RecvBody \/ Analysis
  <2>1. /\ pc = "parse" /\ pc' \in {"parse", "flush", "write", "conn"}
        /\ UNCHANGED <<lastEvents, interest, ready, connectionState, rcv, fin, rst>>
        /\ ~error' => error' = error /\ pc' \in {"parse", "flush"}
    <3>1. CASE NeedMore \/ RecvBody \/ Analysis
      BY <3>1 DEF NeedMore, RecvBody, Analysis, chanVars, parseVars, connVars,
                  epollVars, inVars
    <3>2. CASE ParseURI
      BY <3>2 DEF ParseURI, HandleError, AfterRead, chanVars, epollVars, inVars
    <3>3. CASE ParseHeaders
      BY <3>3 DEF ParseHeaders, HandleError, AfterRead, chanVars, epollVars, inVars
    <3> QED BY <1>6, <3>1, <3>2, <3>3
  <2>2. Readable' = Readable
    BY <2>1 DEF Readable
  <2> QED BY <1>0, <2>1, <2>2 DEF Watching, NoLostEdge, Idle, Connected
<1>7. CASE Flush
  <2>1. /\ pc = "flush" /\ pc' \in {"read", "write", "conn"}
        /\ ~error' => ~error
        /\ outBuffer' # <<>> => "OUT" \in events'
        /\ UNCHANGED <<lastEvents, interest, ready, connectionState, rcv, fin, rst>>
    BY <1>0, <1>7, WritenMoves
       DEF Flush, AfterRead, AfterWrite, epollVars, inVars
  <2>2. Readable' = Readable
    BY <2>1 DEF Readable
  <2> QED BY <1>0, <2>1, <2>2 DEF Watching, NoLostEdge, Idle, Connected
<1>8. CASE HandleWrite
  <2>1. /\ pc = "write" /\ pc' = "conn"
        /\ UNCHANGED <<lastEvents, interest, ready, connectionState, rcv, fin, rst>>
    BY <1>8 DEF HandleWrite, epollVars, inVars
  <2>2. CASE error
    <3>1. error'
      BY <1>8, <2>2 DEF HandleWrite
    <3> QED BY <1>0, <2>1, <3>1 DEF Watching, NoLostEdge, Idle, Connected
  <2>3. CASE ~error /\ error'
    BY <1>0, <2>1, <2>3 DEF Watching, NoLostEdge, Idle, Connected
  <2>4. CASE ~error /\ ~error'
    <3>1. Writen /\ events' = events \cup IF outBuffer' # <<>> THEN {"OUT"} ELSE {}
      BY <1>8, <2>4 DEF HandleWrite, AfterWrite
    <3>2. outBuffer' # <<>> /\ ~rst => Len(snd') = SendBuffer
      <4>1. /\ outBuffer \in Seq(Chunks) /\ snd \in Seq(Chunks)
            /\ SendBuffer \in Nat
        BY <1>0, ConnectionAssumption DEF TypeOK
      <4>2. PICK k \in 0..Len(outBuffer) :
              /\ snd' = snd \o SubSeq(outBuffer, 1, k)
              /\ outBuffer' = SubSeq(outBuffer, k + 1, Len(outBuffer))
              /\ k # Len(outBuffer) => k + Len(snd) = SendBuffer
        BY <1>0, <2>4, <3>1, WritenMoves
      <4>3. k = Len(outBuffer) => outBuffer' = <<>>
        BY <4>1, <4>2
      <4>4. Len(SubSeq(outBuffer, 1, k)) = k /\ SubSeq(outBuffer, 1, k) \in Seq(Chunks)
        BY <4>1, SubSeqProperties
      <4> QED BY <4>1, <4>2, <4>3, <4>4, ConcatProperties
    <3>3. Readable' = Readable
      BY <2>1 DEF Readable
    <3>4. outBuffer' # <<>> /\ ~rst' => ~Writable'
      BY <2>1, <3>2, ConnectionAssumption DEF Writable
    <3>5. outBuffer' # <<>> => "OUT" \in events'
      BY <3>1
    <3>6. Connected /\ ~rst /\ lastEvents = {"OUT"} /\ "OUT" \in events' => outBuffer' # <<>>
      BY <1>0, <2>1, <3>1 DEF Watching
    <3> QED BY <1>0, <2>1, <2>4, <3>3, <3>4, <3>5, <3>6
               DEF Watching, NoLostEdge, Idle, Connected
  <2> QED BY <2>2, <2>3, <2>4
<1>9. CASE Rearm
  <2>1. /\ pc = "conn" /\ Connected /\ pc' = "idle" /\ UNCHANGED rst
        /\ Readable' = Readable /\ Writable' = Writable
        /\ UNCHANGED outBuffer
        /\ EpollMod(events')
    BY <1>9 DEF Rearm, Connected, Readable, Writable, replyVars, inVars
  <2>2. \/ "OUT" \in events /\ events' = {"OUT"}
        \/ "OUT" \notin events /\ events' = {"IN"}
    BY <1>9 DEF Rearm
  <2> DEFINE w == events'
  <2>3. w \in {{"IN"}, {"OUT"}} /\ w # {} /\ w \ {"ONESHOT"} = w /\ "ONESHOT" \notin w
    BY <2>2
  <2>4. EpollMod(w)
    BY <2>1
  <2>5. ~rst /\ outBuffer # <<>> => w = {"OUT"}
    BY <1>0, <2>1, <2>2 DEF Watching
  <2>6. ~rst /\ lastEvents = w => interest = w /\ (Status \cap w # {} => ready)
    <3>1. lastEvents = w => interest = w
      BY <1>0, <2>1, <2>3 DEF Watching
    <3>2. CASE w = {"OUT"}
      <4>1. ~rst /\ lastEvents = w => (Writable => ready)
        BY <1>0, <2>1, <2>2, <3>2 DEF Watching
      <4> QED BY <1>01, <3>1, <3>2, <4>1
    <3>3. CASE w = {"IN"}
      <4>1. ~rst /\ lastEvents = w => (Readable => ready)
        BY <1>0, <2>1, <3>1, <3>3 DEF Watching
      <4> QED BY <1>01, <3>1, <3>3, <4>1
    <3> QED BY <2>3, <3>2, <3>3
  <2>7. lastEvents = w => interest = w
    BY <1>0, <2>1, <2>3 DEF Watching
  <2> HIDE DEF w
  <2>8. /\ lastEvents' = w /\ interest' = w
        /\ ~rst => (Status \cap w # {} => ready')
    BY <2>3, <2>4, <2>6, <2>7 DEF EpollMod, Watch
  <2>9. ~rst' => (Status' \cap interest' # {} => ready')
    BY <1>01, <1>02, <2>1, <2>8
  <2>10. Watching'
    BY <2>1, <2>8 DEF Watching
  <2>11. NoLostEdge'
    BY <2>1, <2>3, <2>5, <2>8, <2>9 DEF NoLostEdge
  <2> QED BY <2>10, <2>11
<1>10. CASE KeepHalfClosed
  <2>1. /\ pc = "conn" /\ connectionState' = "disconnecting"
        /\ UNCHANGED <<lastEvents, interest>>
    BY <1>10 DEF KeepHalfClosed, HalfClosed, connVars, epollVars
  <2> QED BY <1>0, <2>1 DEF Watching, NoLostEdge, Idle, Connected
<1>11. CASE HandleClose \/ Expire
  BY <1>11 DEF HandleClose, Expire, Close, Watching, NoLostEdge, Idle, Connected
<1>12. CASE PeerBegins \/ PeerContinues \/ PeerFin
  <2>1. /\ UNCHANGED <<pc, events, lastEvents, interest, connectionState, error, rst,
                       snd, outBuffer>>
        /\ ready => ready'
        /\ "IN" \in interest => ready'
    BY <1>0, <1>12 DEF PeerBegins, PeerContinues, PeerFin, SendToken, Edge, EdgeForAll,
                 chanVars, replyVars, connVars
  <2>2. Writable' = Writable
    BY <2>1 DEF Writable
  <2>3. Watching'
    BY <1>0, <2>1, <2>2 DEF Watching, Connected
  <2>4. Status' \cap interest' # {} => ready' \/ Status \cap interest # {}
    BY <1>01, <1>02, <2>1, <2>2
  <2>5. NoLostEdge'
    BY <1>0, <2>1, <2>4 DEF NoLostEdge, Idle
  <2> QED BY <2>3, <2>5
<1>13. CASE PeerReset
  <2>1. rst' /\ UNCHANGED <<pc, lastEvents, interest>>
    BY <1>13 DEF PeerReset, chanVars
  <2> QED BY <1>0, <2>1 DEF Watching, NoLostEdge
<1>14. CASE PeerReceives
  <2>1. /\ UNCHANGED <<pc, events, lastEvents, interest, connectionState, error, rst,
                       rcv, fin, outBuffer>>
        /\ ready => ready'
        /\ "OUT" \in interest => ready'
    BY <1>0, <1>14 DEF PeerReceives, Edge, chanVars, replyVars, connVars, inVars
  <2>2. Readable' = Readable
    BY <2>1 DEF Readable
  <2>3. lastEvents = {"OUT"} /\ pc = "conn" => ready'
    BY <1>0, <2>1 DEF Watching
  <2>4. Watching'
    BY <1>0, <2>1, <2>2, <2>3 DEF Watching, Connected
  <2>5. Status' \cap interest' # {} => ready' \/ Status \cap interest # {}
    BY <1>01, <1>02, <2>1, <2>2
  <2>6. NoLostEdge'
    BY <1>0, <2>1, <2>5 DEF NoLostEdge, Idle
  <2> QED BY <2>4, <2>6
<1> QED
  BY <1>1, <1>2, <1>3, <1>4, <1>5, <1>6, <1>7, <1>8, <1>9, <1>10, <1>11, <1>12,
     <1>13, <1>14 DEF Next, LoopStep, ReadStep, ConnStep, Peer

----------------------------------------------------------------------------
(* What the peer gets.                                                     *)

(* The chunks of responses. *)
Replies == {c \in Chunks : c.n # 0}

LEMMA ReplyType ==
  ASSUME NEW r \in Requests
  PROVE  Response(r) \in Seq(Replies)
<1>1. ResponseSize \in Nat
  BY ConnectionAssumption
<1>2. \A i \in 1..ResponseSize : [req |-> r, n |-> i] \in Replies
  BY <1>1 DEF Chunks, Replies
<1> QED BY <1>1, <1>2 DEF Response

LEMMA AnswersType ==
  ASSUME TypeOK
  PROVE  Answers \in Seq(Replies) /\ Answers \in Seq(Chunks)
<1> DEFINE ss == [i \in DOMAIN answered |-> Response(answered[i])]
<1>1. answered \in Seq(Requests)
  BY DEF TypeOK
<1>2. /\ Len(answered) \in Nat /\ DOMAIN answered = 1..Len(answered)
      /\ \A i \in 1..Len(answered) : answered[i] \in Requests
  BY <1>1, LenProperties, ElementOfSeq
<1>3. \A i \in 1..Len(answered) : Response(answered[i]) \in Seq(Replies)
  BY <1>2, ReplyType
<1>4. ss \in Seq(Seq(Replies))
  BY <1>2, <1>3
<1>5. Answers \in Seq(Replies)
  BY <1>4, FlattenType DEF Answers
<1>6. Replies \subseteq Chunks
  BY DEF Replies
<1> QED BY <1>5, <1>6, SeqMonotonic

(* One more answer: its response is due after the others. *)
LEMMA AnswersNext ==
  ASSUME TypeOK, NEW r \in Requests, answered' = Append(answered, r)
  PROVE  Answers' = Answers \o Response(r)
<1> DEFINE ss == [i \in DOMAIN answered |-> Response(answered[i])]
           tt == [i \in DOMAIN answered' |-> Response(answered'[i])]
           m == Len(answered)
<1>1. /\ m \in Nat /\ DOMAIN answered = 1..m /\ answered \in Seq(Requests)
      /\ \A i \in 1..m : answered[i] \in Requests
  BY LenProperties, ElementOfSeq DEF TypeOK
<1>2. /\ DOMAIN answered' = 1..(m + 1) /\ answered'[m + 1] = r
      /\ \A i \in 1..m : answered'[i] = answered[i]
  BY <1>1, AppendProperties, LenProperties
<1>3. \A i \in 1..m : Response(answered[i]) \in Seq(Replies)
  BY <1>1, ReplyType
<1>4. Response(r) \in Seq(Replies)
  BY ReplyType
<1> HIDE DEF m
<1>5. /\ ss \in Seq(Seq(Replies)) /\ Len(ss) = m
      /\ \A i \in 1..m : ss[i] = Response(answered[i])
  BY <1>1, <1>3
<1>6. tt = Append(ss, Response(r))
  <2>1. /\ tt \in Seq(Seq(Replies)) /\ Len(tt) = m + 1
        /\ \A i \in 1..m : tt[i] = ss[i]
        /\ tt[m + 1] = Response(r)
    BY <1>1, <1>2, <1>3, <1>4, <1>5
  <2>2. /\ Append(ss, Response(r)) \in Seq(Seq(Replies))
        /\ Len(Append(ss, Response(r))) = m + 1
        /\ \A i \in 1..m : Append(ss, Response(r))[i] = ss[i]
        /\ Append(ss, Response(r))[m + 1] = Response(r)
    BY <1>4, <1>5, AppendProperties
  <2> DEFINE u == Append(ss, Response(r))
  <2> HIDE DEF ss, tt, u
  <2>3. \A i \in 1..(m + 1) : tt[i] = u[i]
    <3>1. \A i \in 1..(m + 1) : i \in 1..m \/ i = m + 1
      BY <1>1
    <3> QED BY <2>1, <2>2, <3>1 DEF u
  <2> QED BY <2>1, <2>2, <2>3, SeqEqual DEF u
<1>7. Answers' = FlattenSeq(tt) /\ Answers = FlattenSeq(ss)
  BY DEF Answers
<1> HIDE DEF ss, tt
<1> QED BY <1>4, <1>5, <1>6, <1>7, FlattenAppend

LEMMA InitDelivered == Init => Delivered
<1> SUFFICES ASSUME Init PROVE Delivered
  OBVIOUS
<1>1. received = <<>> /\ snd = <<>> /\ outBuffer = <<>> /\ answered = <<>>
  BY DEF Init
<1>2. Sent = <<>>
  BY <1>1 DEF Sent
<1>3. Answers = <<>>
  <2>1. [i \in DOMAIN answered |-> Response(answered[i])] = <<>>
    BY <1>1
  <2> QED BY <2>1, FlattenEmpty DEF Answers
<1>4. Sent \o outBuffer = <<>> /\ DOMAIN Sent = {}
  BY <1>1, <1>2
<1> QED BY <1>3, <1>4 DEF Delivered

(* A step that does not touch what was sent or is to be. *)
LEMMA DeliveredKept ==
  ASSUME IInv, WithoutHello' => WithoutHello, Sent' = Sent,
         UNCHANGED <<outBuffer, answered>>, error => error',
         ~error' /\ ~rst' /\ pc' # "closed" => ~error /\ ~rst /\ pc # "closed"
  PROVE  Delivered'
<1>1. Answers' = Answers
  BY DEF Answers
<1> QED BY <1>1 DEF IInv, Delivered

(* What has been sent is what was received and what is in flight. *)
LEMMA SentParts ==
  ASSUME received \in Seq(Chunks), snd \in Seq(Chunks)
  PROVE  /\ Len(received) \in Nat /\ Len(snd) \in Nat
         /\ Len(Sent) = Len(received) + Len(snd)
         /\ DOMAIN received = 1..Len(received) /\ DOMAIN Sent = 1..Len(Sent)
         /\ \A i \in 1..Len(received) : Sent[i] = received[i]
<1> DEFINE t == Sent
           m == Len(received)
           n == Len(snd)
<1>1. m \in Nat /\ n \in Nat /\ DOMAIN received = 1..m
  BY LenProperties
<1>2. /\ t \in Seq(Chunks) /\ Len(t) = m + n
      /\ \A i \in 1..(m + n) : t[i] = IF i <= m THEN received[i] ELSE snd[i - m]
  BY ConcatProperties DEF Sent
<1> HIDE DEF t
<1>3. DOMAIN t = 1..Len(t)
  BY <1>2, LenProperties
<1> HIDE DEF m, n
<1>4. \A i \in 1..m : t[i] = received[i]
  BY <1>1, <1>2
<1> QED BY <1>1, <1>2, <1>3, <1>4 DEF t, m, n

(* What was in flight is lost. *)
LEMMA DeliveredLost ==
  ASSUME IInv, snd' = <<>>, rst' \/ pc' = "closed", error' = error,
         UNCHANGED <<kinds, received, answered>>
  PROVE  Delivered'
<1>1. Answers' = Answers /\ (WithoutHello' => WithoutHello)
  BY DEF Answers, WithoutHello
<1>2. received \in Seq(Chunks) /\ snd \in Seq(Chunks)
  BY DEF IInv, TypeOK
<1>3. Sent' = received
  BY <1>2, ConcatEmptySeq DEF Sent
<1>4. /\ Len(received) \in Nat /\ Len(snd) \in Nat /\ Len(Sent) = Len(received) + Len(snd)
      /\ DOMAIN received = 1..Len(received) /\ DOMAIN Sent = 1..Len(Sent)
      /\ \A i \in 1..Len(received) : Sent[i] = received[i]
  BY <1>2, SentParts, ZenonT(40)
<1>5. ASSUME NEW i \in 1..Len(received)
      PROVE  i \in DOMAIN Sent /\ (i = Len(Sent) => i = Len(received))
  <2>1. i \in 1..(Len(received) + Len(snd))
        /\ (i = Len(received) + Len(snd) => i = Len(received))
    <3>1. Len(received) \in Nat /\ Len(snd) \in Nat
      BY <1>4
    <3> QED BY <3>1
  <2> QED BY <1>4, <2>1
<1>6. ASSUME WithoutHello', NEW i \in DOMAIN Sent'
      PROVE  IF Sent'[i].n = 0 THEN error' /\ i = Len(Sent')
             ELSE i \in DOMAIN Answers' /\ Sent'[i] = Answers'[i]
  <2>1. i \in 1..Len(received) /\ Sent'[i] = Sent[i] /\ i \in DOMAIN Sent
    BY <1>3, <1>4, <1>5, <1>6
  <2>2. IF Sent[i].n = 0 THEN error /\ i = Len(Sent)
        ELSE i \in DOMAIN Answers /\ Sent[i] = Answers[i]
    BY <1>1, <1>6, <2>1 DEF IInv, Delivered
  <2> QED BY <1>1, <1>3, <1>5, <2>1, <2>2
<1> QED BY <1>6 DEF Delivered

(* writen: what it moves to the socket is the next part of the responses. *)
LEMMA DeliveredWriten ==
  ASSUME IInv, Writen, ~error, pc # "closed", UNCHANGED <<kinds, received, answered, rst>>
  PROVE  Delivered'
<1>0. /\ TypeOK /\ outBuffer \in Seq(Chunks) /\ snd \in Seq(Chunks)
      /\ received \in Seq(Chunks)
  BY DEF IInv, TypeOK
<1>1. Answers' = Answers /\ (WithoutHello' => WithoutHello)
  BY DEF Answers, WithoutHello
<1>2. CASE rst /\ outBuffer # <<>>
  <2>1. error' /\ UNCHANGED <<outBuffer, snd>>
    <3> HIDE DEF Writen
    <3> QED BY <1>0, <1>2, WritenMoves
  <2>2. Sent' = Sent
    BY <2>1 DEF Sent
  <2> QED BY <1>1, <2>1, <2>2, DeliveredKept
<1>3. CASE ~(rst /\ outBuffer # <<>>)
  <2>1. PICK k \in 0..Len(outBuffer) :
          /\ snd' = snd \o SubSeq(outBuffer, 1, k)
          /\ outBuffer' = SubSeq(outBuffer, k + 1, Len(outBuffer))
    BY <1>0, <1>3, WritenMoves
  <2>2. error' = error
    BY <1>0, <1>3, WritenMoves
  <2> DEFINE a == SubSeq(outBuffer, 1, k)
             b == SubSeq(outBuffer, k + 1, Len(outBuffer))
  <2>3. a \in Seq(Chunks) /\ b \in Seq(Chunks) /\ a \o b = outBuffer
    <3>1. /\ \A i \in 1..k : outBuffer[i] \in Chunks
          /\ \A i \in (k + 1)..Len(outBuffer) : outBuffer[i] \in Chunks
          /\ k \in Int /\ k + 1 \in Int /\ Len(outBuffer) \in Int
          /\ k \in 1-1..Len(outBuffer) /\ Len(outBuffer) \in k..Len(outBuffer)
          /\ 1 \in 1..Len(outBuffer) + 1
      BY <1>0
    <3>2. a \in Seq(Chunks) /\ b \in Seq(Chunks)
      BY <3>1, SubSeqProperties
    <3>3. a \o b = outBuffer
      BY <1>0, <3>1, ConcatAdjacentSubSeq, SubSeqFull
    <3> QED BY <3>2, <3>3
  <2> HIDE DEF a, b
  <2>4. snd' = snd \o a /\ outBuffer' = b /\ Sent \in Seq(Chunks)
    BY <1>0, <2>1, ConcatProperties DEF a, b, Sent
  <2>5. Sent' = Sent \o a
    <3>1. Sent' = received \o (snd \o a)
      BY <2>4 DEF Sent
    <3>2. (received \o snd) \o a = received \o (snd \o a)
      BY <1>0, <2>3, ConcatAssociative, SMTT(30)
    <3> QED BY <3>1, <3>2 DEF Sent
  <2>6. Sent' \in Seq(Chunks) /\ Sent' \o outBuffer' = Sent \o outBuffer
    <3>1. Sent \o a \in Seq(Chunks) /\ (Sent \o a) \o b = Sent \o (a \o b)
      <4>1. Sent \in Seq(Chunks) /\ a \in Seq(Chunks) /\ b \in Seq(Chunks)
        BY <2>3, <2>4
      <4>2. Sent \o a \in Seq(Chunks)
        BY <4>1, ConcatProperties
      <4>3. (Sent \o a) \o b = Sent \o (a \o b)
        BY <4>1, ConcatAssociative
      <4> QED BY <4>2, <4>3
    <3>2. Sent' \o outBuffer' = (Sent \o a) \o b
      BY <2>4, <2>5
    <3>3. Sent \o (a \o b) = Sent \o outBuffer
      BY <2>3
    <3> QED BY <2>5, <3>1, <3>2, <3>3
  <2>7. CASE rst
    <3>1. outBuffer = <<>>
      BY <1>3, <2>7
    <3>2. a = <<>> /\ b = <<>>
      BY <2>3, <3>1, ConcatEqualIffEmpty
    <3>3. Sent' = Sent /\ outBuffer' = outBuffer
      BY <2>4, <2>5, <3>1, <3>2, ConcatEmptySeq
    <3> QED BY <1>1, <2>2, <2>7, <3>3, DeliveredKept
  <2>8. CASE ~rst
    <3> SUFFICES ASSUME WithoutHello'
                 PROVE  /\ Sent' \o outBuffer' = Answers'
                        /\ \A i \in DOMAIN Sent' :
                             /\ Sent'[i].n # 0
                             /\ i \in DOMAIN Answers' /\ Sent'[i] = Answers'[i]
      BY DEF Delivered
    <3>1. Sent' \o outBuffer' = Answers
      BY <1>1, <2>6, <2>8 DEF IInv, Delivered
    <3>2. Answers \in Seq(Replies)
      BY <1>0, AnswersType
    <3>3. /\ DOMAIN Sent' = 1..Len(Sent') /\ DOMAIN Answers = 1..Len(Answers)
          /\ Len(Sent') \in Nat /\ Len(outBuffer') \in Nat
          /\ Len(Answers) = Len(Sent') + Len(outBuffer')
          /\ \A i \in 1..Len(Sent') + Len(outBuffer') :
               Answers[i] = IF i <= Len(Sent') THEN Sent'[i]
                                               ELSE outBuffer'[i - Len(Sent')]
      <4> DEFINE s == Sent'
                 o == outBuffer'
      <4>1. s \in Seq(Chunks) /\ o \in Seq(Chunks) /\ s \o o = Answers
        BY <2>3, <2>4, <2>6, <3>1
      <4> HIDE DEF s, o
      <4>2. /\ DOMAIN s = 1..Len(s) /\ DOMAIN Answers = 1..Len(Answers)
            /\ Len(s) \in Nat /\ Len(o) \in Nat /\ Len(Answers) = Len(s) + Len(o)
            /\ \A i \in 1..Len(s) + Len(o) :
                 Answers[i] = IF i <= Len(s) THEN s[i] ELSE o[i - Len(s)]
        BY <3>2, <4>1, ConcatProperties, LenProperties
      <4> QED BY <4>2 DEF s, o
    <3>4. \A i \in 1..Len(Answers) : Answers[i].n # 0
      BY <3>2, ElementOfSeq DEF Replies
    <3>5. \A i \in 1..Len(Sent') : i \in 1..Len(Answers) /\ Answers[i] = Sent'[i]
      BY <3>3
    <3> QED BY <1>1, <3>1, <3>3, <3>4, <3>5
  <2> QED BY <2>7, <2>8
<1> QED BY <1>2, <1>3

(* handleError: an error page may follow what was sent. *)
LEMMA DeliveredError ==
  ASSUME IInv, NEW r \in Requests, HandleError(r), ~error,
         UNCHANGED <<kinds, received, outBuffer, answered, rst>>, pc # "closed"
  PROVE  Delivered'
<1>0. snd \in Seq(Chunks) /\ received \in Seq(Chunks) /\ error'
  BY DEF IInv, TypeOK, HandleError
<1>1. Answers' = Answers /\ (WithoutHello' => WithoutHello)
  BY DEF Answers, WithoutHello
<1>2. CASE snd' = snd
  <2>1. Sent' = Sent
    BY <1>2 DEF Sent
  <2> QED BY <1>0, <1>1, <2>1, DeliveredKept
<1>3. CASE snd' # snd
  <2>1. snd' = Append(snd, ErrorPage(r))
    BY <1>3 DEF HandleError
  <2>2. ErrorPage(r) \in Chunks /\ ErrorPage(r).n = 0
    BY ResponseType
  <2>3. Sent' = Append(Sent, ErrorPage(r)) /\ Sent \in Seq(Chunks)
    BY <1>0, <2>1, <2>2 DEF Sent
  <2>4. /\ Len(Sent) \in Nat /\ Len(Sent') = Len(Sent) + 1
        /\ DOMAIN Sent = 1..Len(Sent) /\ DOMAIN Sent' = 1..Len(Sent')
        /\ \A i \in 1..Len(Sent) : Sent'[i] = Sent[i]
        /\ Sent'[Len(Sent')] = ErrorPage(r)
    BY <2>2, <2>3, AppendProperties, LenProperties
  <2> SUFFICES ASSUME WithoutHello', NEW i \in DOMAIN Sent'
               PROVE  IF Sent'[i].n = 0 THEN i = Len(Sent')
                      ELSE i \in DOMAIN Answers /\ Sent'[i] = Answers[i]
    BY <1>0, <1>1 DEF Delivered
  <2>5. CASE i \in 1..Len(Sent)
    <3>1. IF Sent[i].n = 0 THEN error ELSE i \in DOMAIN Answers /\ Sent[i] = Answers[i]
      BY <1>1, <2>4, <2>5 DEF IInv, Delivered
    <3> QED BY <2>4, <2>5, <3>1
  <2>6. CASE i = Len(Sent')
    BY <2>2, <2>4, <2>6
  <2> QED BY <2>4, <2>5, <2>6
<1> QED BY <1>2, <1>3

LEMMA DeliveredNext == ASSUME IInv, Next PROVE Delivered'
<1>0. /\ TypeOK /\ Phases /\ snd \in Seq(Chunks) /\ received \in Seq(Chunks)
      /\ outBuffer \in Seq(Chunks)
  BY DEF IInv, TypeOK
<1>1. kinds' = kinds => (WithoutHello' => WithoutHello)
  BY DEF WithoutHello
<1>2. CASE NewEvent \/ HandleEvents \/ IgnoreReset \/ Read \/ NeedMore \/ RecvBody
  <2>1. UNCHANGED <<kinds, received, snd, outBuffer, answered, error, rst>>
        /\ pc # "closed"
    BY <1>2 DEF NewEvent, HandleEvents, IgnoreReset, Report, Read, NeedMore, RecvBody,
                replyVars, connVars, inVars, peerVars
  <2> QED BY <1>1, <2>1, DeliveredKept DEF Sent
<1>3. CASE ReadFails
  <2>1. /\ UNCHANGED <<kinds, received, snd, outBuffer, answered>> /\ error' /\ rst
        /\ UNCHANGED rst
    BY <1>3 DEF ReadFails, HandleError, replyVars, peerVars
  <2> QED BY <1>1, <2>1, DeliveredKept DEF Sent
<1>4. CASE ParseURI
  <2>1. /\ pc = "parse" /\ ~error
        /\ UNCHANGED <<kinds, received, outBuffer, answered, rst>>
    BY <1>0, <1>4 DEF ParseURI, Phases, replyVars, inVars, peerVars
  <2>2. req' \in Requests
    <3>1. Head(inBuffer) \in Tokens
      BY <1>4, <2>1, AtExpected DEF ParseURI, NextToken
    <3> QED BY <1>4, <3>1 DEF ParseURI, Tokens
  <2>3. HandleError(req') \/ UNCHANGED <<error, snd, pc>>
    BY <1>4 DEF ParseURI
  <2>4. CASE HandleError(req')
    BY <2>1, <2>2, <2>4, DeliveredError
  <2>5. CASE UNCHANGED <<error, snd, pc>>
    BY <1>1, <2>1, <2>5, DeliveredKept DEF Sent
  <2> QED BY <2>3, <2>4, <2>5
<1>5. CASE ParseHeaders \/ LackOfLength \/ AnalysisFails
  <2>1. /\ pc = "parse" /\ ~error /\ state # "uri"
        /\ UNCHANGED <<kinds, received, outBuffer, answered, rst>>
    BY <1>0, <1>5 DEF ParseHeaders, LackOfLength, AnalysisFails, Phases, replyVars,
                      inVars, peerVars
  <2>2. req \in Requests
    BY <2>1, ConnectionAssumption DEF IInv, ParsedSoFar, Sending, TypeOK, Requests
  <2>3. \/ HandleError(req)
        \/ UNCHANGED <<error, snd, pc>>
        \/ (error' /\ UNCHANGED snd)
    BY <1>5 DEF ParseHeaders, LackOfLength, AnalysisFails
  <2>4. CASE HandleError(req)
    BY <2>1, <2>2, <2>4, DeliveredError
  <2>5. CASE UNCHANGED <<error, snd, pc>> \/ (error' /\ UNCHANGED snd)
    BY <1>1, <2>1, <2>5, DeliveredKept DEF Sent
  <2> QED BY <2>3, <2>4, <2>5
<1>6. CASE Analysis
  <2>1. /\ pc = "parse" /\ ~error /\ state = "analysis"
        /\ answered' = Append(answered, req)
        /\ kinds[req] # "hello" => outBuffer' = outBuffer \o Response(req)
        /\ UNCHANGED <<kinds, received, snd, rst, error>>
    BY <1>0, <1>6 DEF Analysis, Phases, connVars, inVars, peerVars
  <2>2. req \in 1..Len(kinds) /\ req \in Requests /\ DOMAIN kinds = 1..Len(kinds)
    BY <2>1, ConnectionAssumption DEF IInv, ParsedSoFar, Sending, TypeOK, Requests
  <2>3. Answers' = Answers \o Response(req)
    BY <1>0, <2>1, <2>2, AnswersNext
  <2>4. /\ Response(req) \in Seq(Chunks) /\ Answers \in Seq(Chunks)
        /\ Sent \in Seq(Chunks) /\ Sent' = Sent
    BY <1>0, <2>1, <2>2, ResponseType, AnswersType, ConcatProperties DEF Sent
  <2>5. \A i \in DOMAIN Answers : i \in DOMAIN Answers' /\ Answers'[i] = Answers[i]
    <3>1. /\ Len(Answers) \in Nat /\ Len(Response(req)) \in Nat
          /\ DOMAIN Answers = 1..Len(Answers)
          /\ DOMAIN Answers' = 1..(Len(Answers) + Len(Response(req)))
          /\ \A i \in 1..(Len(Answers) + Len(Response(req))) :
               Answers'[i] = IF i <= Len(Answers) THEN Answers[i]
                                        ELSE Response(req)[i - Len(Answers)]
      BY <2>3, <2>4, ConcatProperties, LenProperties
    <3>2. \A i \in 1..Len(Answers) : i \in 1..(Len(Answers) + Len(Response(req)))
      BY <3>1
    <3> QED BY <3>1, <3>2
  <2> SUFFICES ASSUME WithoutHello'
               PROVE  /\ ~rst /\ pc' # "closed" => Sent' \o outBuffer' = Answers'
                      /\ \A i \in DOMAIN Sent :
                           IF Sent[i].n = 0 THEN error /\ i = Len(Sent)
                           ELSE i \in DOMAIN Answers' /\ Sent[i] = Answers'[i]
    BY <2>1, <2>4 DEF Delivered
  <2>6. WithoutHello /\ kinds[req] # "hello"
    BY <1>1, <2>1, <2>2 DEF WithoutHello
  <2>7. ~rst => Sent' \o outBuffer' = Answers'
    <3>1. ~rst => Sent \o outBuffer = Answers
      BY <2>1, <2>6 DEF IInv, Delivered
    <3>2. Sent \o (outBuffer \o Response(req)) = (Sent \o outBuffer) \o Response(req)
      <4> DEFINE s == Sent
                 o == outBuffer
                 r == Response(req)
      <4>1. s \in Seq(Chunks) /\ o \in Seq(Chunks) /\ r \in Seq(Chunks)
        BY <1>0, <2>4
      <4> HIDE DEF s, o, r
      <4>2. s \o (o \o r) = (s \o o) \o r
        BY <4>1, ConcatAssociative
      <4> QED BY <4>2 DEF s, o, r
    <3>3. Sent' \o outBuffer' = Sent \o (outBuffer \o Response(req))
      BY <2>1, <2>4, <2>6
    <3>4. ~rst => (Sent \o outBuffer) \o Response(req) = Answers'
      BY <2>3, <3>1
    <3> QED BY <3>2, <3>3, <3>4
  <2>8. \A i \in DOMAIN Sent : IF Sent[i].n = 0 THEN error /\ i = Len(Sent)
                               ELSE i \in DOMAIN Answers /\ Sent[i] = Answers[i]
    BY <2>6 DEF IInv, Delivered
  <2> QED BY <2>5, <2>7, <2>8
<1>7. CASE Flush
  <2>1. Writen /\ pc = "flush" /\ UNCHANGED <<kinds, received, answered, rst>>
    BY <1>7 DEF Flush, inVars, peerVars
  <2>2. ~error
    BY <1>0, <2>1 DEF Phases
  <2> QED BY <2>1, <2>2, DeliveredWriten
<1>8. CASE HandleWrite
  <2>1. pc = "write" /\ pc' = "conn" /\ UNCHANGED <<kinds, received, answered, rst>>
    BY <1>8 DEF HandleWrite, inVars, peerVars
  <2>2. CASE error
    BY <1>1, <1>8, <2>1, <2>2, DeliveredKept DEF HandleWrite, Sent
  <2>3. CASE ~error
    BY <1>8, <2>1, <2>3, DeliveredWriten DEF HandleWrite
  <2> QED BY <2>2, <2>3
<1>9. CASE Rearm \/ KeepHalfClosed
  <2>1. UNCHANGED <<kinds, received, snd, outBuffer, answered, error, rst>>
        /\ pc = "conn"
    BY <1>9 DEF Rearm, KeepHalfClosed, replyVars, connVars, inVars, peerVars
  <2> QED BY <1>1, <2>1, DeliveredKept DEF Sent
<1>10. CASE HandleClose \/ Expire
  <2>1. /\ UNCHANGED <<kinds, received, outBuffer, answered, error, rst>>
        /\ snd' \in {<<>>, snd} /\ pc' = "closed"
    BY <1>10 DEF HandleClose, Expire, Close, replyVars, inVars, peerVars
  <2>2. CASE snd' = snd
    BY <1>1, <2>1, <2>2, DeliveredKept DEF Sent
  <2>3. CASE snd' = <<>>
    BY <2>1, <2>3, DeliveredLost
  <2> QED BY <2>1, <2>2, <2>3
<1>11. CASE PeerBegins \/ PeerContinues
  <2>1. UNCHANGED <<received, snd, outBuffer, answered, error, rst, pc>>
    BY <1>11 DEF PeerBegins, PeerContinues, SendToken, replyVars, connVars
  <2>2. WithoutHello' => WithoutHello
    <3>1. CASE PeerContinues
      BY <1>1, <3>1 DEF PeerContinues
    <3>2. CASE PeerBegins
      <4>1. PICK k \in Kinds : kinds' = Append(kinds, k)
        BY <3>2 DEF PeerBegins
      <4>2. \A i \in DOMAIN kinds : i \in DOMAIN kinds' /\ kinds'[i] = kinds[i]
        BY <1>0, <4>1 DEF TypeOK
      <4> QED BY <4>2 DEF WithoutHello
    <3> QED BY <1>11, <3>1, <3>2
  <2> QED BY <2>1, <2>2, DeliveredKept DEF Sent
<1>12. CASE PeerFin
  <2>1. UNCHANGED <<kinds, received, snd, outBuffer, answered, error, rst, pc>>
    BY <1>12 DEF PeerFin, replyVars, connVars, peerVars
  <2> QED BY <1>1, <2>1, DeliveredKept DEF Sent
<1>13. CASE PeerReset
  <2>1. UNCHANGED <<kinds, received, answered, error>> /\ rst' /\ snd' = <<>>
    BY <1>13 DEF PeerReset, replyVars, connVars, peerVars
  <2> QED BY <2>1, DeliveredLost
<1>14. CASE PeerReceives
  <2>1. /\ UNCHANGED <<kinds, outBuffer, answered, error, rst, pc>> /\ snd # <<>>
        /\ received' = Append(received, Head(snd)) /\ snd' = Tail(snd)
    BY <1>14 DEF PeerReceives, replyVars, connVars, inVars
  <2>2. Sent' = Sent
    <3>1. /\ Head(snd) \in Chunks /\ Tail(snd) \in Seq(Chunks)
          /\ snd = <<Head(snd)>> \o Tail(snd)
      BY <1>0, <2>1
    <3>2. Append(received, Head(snd)) = received \o <<Head(snd)>>
          /\ <<Head(snd)>> \in Seq(Chunks)
      BY <1>0, <3>1, AppendIsConcat
    <3>3. (received \o <<Head(snd)>>) \o Tail(snd) = received \o (<<Head(snd)>> \o Tail(snd))
      BY <1>0, <3>1, <3>2, ConcatAssociative
    <3> QED BY <2>1, <3>1, <3>2, <3>3 DEF Sent
  <2> QED BY <1>1, <2>1, <2>2, DeliveredKept
<1> QED
  BY <1>2, <1>3, <1>4, <1>5, <1>6, <1>7, <1>8, <1>9, <1>10, <1>11, <1>12, <1>13,
     <1>14 DEF Next, LoopStep, ReadStep, ConnStep, Peer

----------------------------------------------------------------------------
(* The results. *)

LEMMA Stutter == ASSUME IInv, UNCHANGED vars PROVE IInv'
<1> USE DEF vars, chanVars, parseVars, replyVars, connVars, epollVars, inVars, peerVars
<1>1. TypeOK' /\ Phases' /\ UsedUp' /\ OpenMeansTimed'
  BY DEF IInv, TypeOK, Phases, UsedUp, OpenMeansTimed, Connected, Idle
<1>2. Sending' /\ ParsedSoFar' /\ InStream' /\ OneByOne' /\ AnsweredInOrder'
  BY StreamKept DEF Parsing
<1>3. Watching' /\ NoLostEdge'
  BY DEF IInv, Watching, NoLostEdge, Connected, Idle, Status, Readable, Writable
<1>4. Delivered'
  BY DeliveredKept DEF WithoutHello, Sent
<1> QED BY <1>1, <1>2, <1>3, <1>4 DEF IInv

(* The invariant by which the others hold.                                 *)
THEOREM Inductive == Spec => []IInv
<1>1. Init => IInv
  BY InitType, InitPhases, InitStream, InitWatching, InitDelivered DEF IInv
<1>2. IInv /\ [Next]_vars => IInv'
  <2>1. ASSUME IInv, Next PROVE IInv'
    BY <2>1, TypeNext, PhasesNext, StreamNext, WatchingNext, DeliveredNext DEF IInv
  <2> QED BY <2>1, Stutter
<1> QED BY <1>1, <1>2, PTL DEF Spec

(* Types: no handler leaves its part of the connection's state.            *)
THEOREM TypeCorrect == Spec => []TypeOK
<1>1. IInv => TypeOK
  BY DEF IInv
<1> QED BY <1>1, Inductive, PTL

(* handleRead and its recursion answer every request at most once, and     *)
(* none before an earlier one.                                             *)
THEOREM InOrder == Spec => []AnsweredInOrder
<1>1. IInv => AnsweredInOrder
  BY DEF IInv
<1> QED BY <1>1, Inductive, PTL

(* Output through outBuffer_, partial writes, error pages, FIN and reset:  *)
(* a peer that does not ask for /hello gets a beginning of the responses   *)
(* due, then at most one error page.                                       *)
THEOREM Intact == Spec => []ResponsesIntact
<1>1. ASSUME IInv PROVE ResponsesIntact
  <2>1. received \in Seq(Chunks) /\ snd \in Seq(Chunks)
    BY <1>1 DEF IInv, TypeOK
  <2>2. /\ Len(received) \in Nat /\ Len(snd) \in Nat
        /\ Len(Sent) = Len(received) + Len(snd)
        /\ DOMAIN received = 1..Len(received) /\ DOMAIN Sent = 1..Len(Sent)
        /\ \A i \in 1..Len(received) : Sent[i] = received[i]
    BY <2>1, SentParts, ZenonT(40)
  <2>3. ASSUME NEW i \in 1..Len(received)
        PROVE  i \in DOMAIN Sent /\ (i = Len(Sent) => i = Len(received))
    <3>1. /\ i \in 1..(Len(received) + Len(snd))
          /\ i = Len(received) + Len(snd) => i = Len(received)
      <4>1. Len(received) \in Nat /\ Len(snd) \in Nat
        BY <2>2
      <4> QED BY <4>1
    <3> QED BY <2>2, <3>1
  <2>4. ASSUME WithoutHello, NEW i \in DOMAIN received
        PROVE  IF received[i].n = 0
                 THEN i = Len(received)
                 ELSE i \in DOMAIN Answers /\ received[i] = Answers[i]
    <3>1. i \in DOMAIN Sent /\ Sent[i] = received[i]
      BY <2>2, <2>3, <2>4
    <3>2. IF Sent[i].n = 0 THEN i = Len(Sent)
          ELSE i \in DOMAIN Answers /\ Sent[i] = Answers[i]
      BY <1>1, <2>4, <3>1 DEF IInv, Delivered
    <3> QED BY <2>2, <2>3, <2>4, <3>1, <3>2
  <2> QED BY <1>1, <2>4 DEF ResponsesIntact, IInv, Delivered, Sent
<1> QED BY <1>1, Inductive, PTL

(* handleRead does not stop before it has parsed all it has read.          *)
THEOREM AllParsed == Spec => []NothingUnparsed
<1>1. IInv => NothingUnparsed
  BY DEF IInv, Phases, UsedUp, NothingUnparsed, Idle, Connected
<1> QED BY <1>1, Inductive, PTL

(* Edge-triggered epoll, ONESHOT and the lastEvents_ shortcut of epoll_mod *)
(* lose no event of a connection that waits for one.                       *)
THEOREM EdgesKept == Spec => []NoLostEdge
<1>1. IInv => NoLostEdge
  BY DEF IInv
<1> QED BY <1>1, Inductive, PTL

(* A connection in epoll_wait that is not half closed has a live timer.    *)
THEOREM Timed == Spec => []OpenMeansTimed
<1>1. IInv => OpenMeansTimed
  BY DEF IInv
<1> QED BY <1>1, Inductive, PTL
=============================================================================
