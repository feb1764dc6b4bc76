------------------------------ MODULE HttpParser ----------------------------
(***************************************************************************)
(* The text of the requests of one connection, read in arbitrary pieces:   *)
(* parseURI, parseHeaders, the body, and the answer of the gateway or of a *)
(* static file (HttpData.cpp, LightAgentGateway.cpp).  HttpConnection      *)
(* takes requests apart into whole tokens; here a token is a word or a     *)
(* single separator, and a piece may end between any two of them.          *)
(*                                                                         *)
(* The words of a body count one byte each.                                *)
(***************************************************************************)
EXTENDS Naturals, Sequences, SequencesExt, FiniteSetsExt

CONSTANTS
  Menu,         (* the requests a peer may send                            *)
  MaxRequests   (* bound: how many of them, one after the other            *)

Methods == {"GET", "HEAD", "POST"}

Versions == {"1.0", "1.1"}

Blank == " "
Slash == "/"
Mark  == "?"
Colon == ":"
CR    == "CR"
LF    == "LF"

Separators == {Blank, Slash, Mark, Colon, CR, LF}

HTTP      == "HTTP"
Arguments == "x=1"
NoValue   == ""

(* A word is never a separator, and a method's name only occurs as the     *)
(* method.                                                                 *)
Words == STRING \ ({NoValue} \cup Methods \cup Separators)

(* A request as its sender means it.                                       *)
(* Only a POST has a body, and its length is what content-length says.     *)
WellFormed(r) ==
  /\ r.method \in Methods /\ r.version \in Versions
  /\ r.path \in Seq(Words) /\ r.query \in BOOLEAN
  /\ r.headers \in Seq(Words \X (Words \cup {NoValue}))
  /\ \A i, j \in DOMAIN r.headers : r.headers[i][1] = r.headers[j][1] => i = j
  /\ r.body \in Seq(Words)
  /\ r.method # "POST" => r.body = <<>>
  /\ \A i \in DOMAIN r.headers :
       r.headers[i][1] = "content-length" /\ r.headers[i][2] # NoValue
         => \E n \in 0..2 : r.headers[i][2] = <<"0", "1", "2">>[n + 1] /\ Len(r.body) = n

ASSUME ParserAssumption ==
  /\ MaxRequests \in Nat
  /\ \A r \in Menu : WellFormed(r)

VARIABLES
  requests,  (* peer: what is being sent                                   *)
  sent,      (* network: the text that has not been read                   *)
  torn,      (* history: requests whose headers a read has cut             *)
  pc,        (* handleRead: "idle", "read", "parse"                        *)
  inBuffer,  (* inBuffer_                                                  *)
  state,     (* state_                                                     *)
  hState,    (* hState_                                                    *)
  method, fileName, headers,
  error,     (* error_                                                     *)
  answers    (* what has been queued in outBuffer_, in order               *)

lineVars == <<method, fileName>>
peerVars == <<requests, sent, torn>>
vars == <<peerVars, pc, inBuffer, state, hState, lineVars, headers, error,
          answers>>

----------------------------------------------------------------------------
(* The text of a request. *)

LineText(r) ==
  <<r.method, Blank, Slash>> \o r.path \o (IF r.query THEN <<Mark, Arguments>> ELSE <<>>)
  \o <<Blank, HTTP, Slash, r.version, CR, LF>>

HeaderText(h) ==
  <<h[1], Colon, Blank>> \o (IF h[2] = NoValue THEN <<>> ELSE <<h[2]>>) \o <<CR, LF>>

HeadersText(r) ==
  FlattenSeq([i \in DOMAIN r.headers |-> HeaderText(r.headers[i])])
  \o <<CR, LF>>

Text(r) == LineText(r) \o HeadersText(r) \o r.body

TextOf(rs) == FlattenSeq([i \in DOMAIN rs |-> Text(rs[i])])

Init ==
  /\ \E n \in 1..MaxRequests : requests \in [1..n -> Menu]
  /\ sent = TextOf(requests) /\ torn = {}
  /\ pc = "idle" /\ inBuffer = <<>>
  /\ state = "uri" /\ hState = "start"
  /\ method = "GET" /\ fileName = <<>> /\ headers = <<>>
  /\ error = FALSE /\ answers = <<>>

(* The requests in the middle of whose headers `left` begins. *)
TornAt(left) ==
  {j \in DOMAIN requests :
     LET after == Len(TextOf(SubSeq(requests, j + 1, Len(requests))))
                  + Len(requests[j].body)
     IN  /\ Len(left) > after
         /\ Len(left) < after + Len(HeadersText(requests[j]))}

(* readn: whatever has arrived.  Called for an event, and again, perhaps   *)
(* for nothing, when a request is done and input is left.                  *)
Read ==
  /\ ~error
  /\ \E k \in 0..Len(sent) :
       /\ pc = "read" \/ (pc = "idle" /\ k > 0)
       /\ inBuffer' = inBuffer \o SubSeq(sent, 1, k)
       /\ sent' = SubSeq(sent, k + 1, Len(sent))
  /\ torn' = torn \cup TornAt(sent')
  /\ pc' = "parse"
  /\ UNCHANGED <<requests, state, hState, lineVars, headers, error, answers>>

----------------------------------------------------------------------------
(* HttpData::parseURI *)

(* string::find: the first x at or after a position, 0 for npos. *)
Find(s, x, from) ==
  LET at == {i \in from..Len(s) : s[i] = x} IN IF at = {} THEN 0 ELSE Min(at)

MethodsIn(line) == {w \in Methods : Find(line, w, 1) # 0}

(* "GET" anywhere in the line wins over "POST", and that over "HEAD". *)
MethodIn(line) ==
  IF "GET" \in MethodsIn(line) THEN "GET"
  ELSE IF "POST" \in MethodsIn(line) THEN "POST" ELSE "HEAD"

(* What lies between the first "/" and the blank after it, less a query. *)
NameIn(line, slash, blank) ==
  LET name == SubSeq(line, slash + 1, blank - 1)
      mark == Find(name, Mark, 1)
  IN  IF name = <<>> THEN <<"index.html">>
      ELSE IF mark = 0 THEN name ELSE SubSeq(name, 1, mark - 1)

VersionOK(line, blank) ==
  LET slash == Find(line, Slash, blank)
  IN  slash # 0 /\ slash < Len(line) /\ line[slash + 1] \in Versions

Refuse ==
  /\ error' = TRUE
  /\ pc' = "idle"
  /\ UNCHANGED <<peerVars, state, answers>>

(* The parser runs out of input: handleRead is over. *)
Again == pc' = "idle" /\ UNCHANGED <<peerVars, error, answers>>

ParseURI ==
  /\ pc = "parse" /\ state = "uri"
  /\ UNCHANGED <<hState, headers>>
  /\ LET cr      == Find(inBuffer, CR, 1)
         line    == SubSeq(inBuffer, 1, cr - 1)
         slash   == Find(line, Slash, Find(line, MethodIn(line), 1))
         blank   == Find(line, Blank, slash)
     IN  IF cr = 0
           THEN Again /\ UNCHANGED <<inBuffer, state, lineVars>>
         ELSE IF MethodsIn(line) = {} \/ (slash # 0 /\ (blank = 0 \/ ~VersionOK(line, blank)))
           THEN Refuse /\ inBuffer' = <<>> /\ UNCHANGED lineVars
         ELSE /\ inBuffer' = SubSeq(inBuffer, cr + 1, Len(inBuffer))
              /\ method' = MethodIn(line)
              /\ fileName' = IF slash = 0 THEN <<"index.html">>
                                          ELSE NameIn(line, slash, blank)
              /\ state' = "headers"
              /\ UNCHANGED <<peerVars, pc, error, answers>>

----------------------------------------------------------------------------
(* HttpData::parseHeaders *)

(* [first, last) of a text whose byte 0 is whatever precedes the buffer:   *)
(* a position that a local still has from its initialisation to -1.        *)
Slice(s, first, last) ==
  IF first = 0 /\ last > 0 THEN <<"junk">> \o SubSeq(s, 1, last - 1)
                           ELSE SubSeq(s, first, last - 1)

Store(map, key, value) ==
  [k \in DOMAIN map \cup {key} |-> IF k = key THEN value ELSE map[k]]

(* One byte of the loop.  m.h is hState_, m.headers headers_, the rest the *)
(* locals; "error" is PARSE_HEADER_ERROR.                                  *)
HeaderStep(m, s, i) ==
  LET At(h) == [m EXCEPT !.h = h]
      Expect(ch, next) == IF s[i] = ch THEN next ELSE At("error")
  IN  CASE m.h = "start" ->
             IF s[i] \in {CR, LF} THEN m
             ELSE [At("key") EXCEPT !.keyStart = i, !.line = i]
        [] m.h = "key" ->
             IF s[i] = Colon /\ i > m.keyStart
               THEN [At("colon") EXCEPT !.keyEnd = i]
             ELSE IF s[i] \in {Colon, CR, LF} THEN At("error") ELSE m
        [] m.h = "colon" -> Expect(Blank, At("spaces"))
        [] m.h = "spaces" -> [At("value") EXCEPT !.valueStart = i]
        [] m.h = "value" ->
             IF s[i] # CR THEN m
             ELSE IF i > m.valueStart THEN [At("cr") EXCEPT !.valueEnd = i]
             ELSE At("error")
        [] m.h = "cr" ->
             Expect(LF, [At("lf") EXCEPT
                             !.line = i,
                             !.headers = Store(m.headers,
                                               Slice(s, m.keyStart, m.keyEnd),
                                               Slice(s, m.valueStart, m.valueEnd))])
        [] m.h = "lf" ->
             IF s[i] = CR THEN At("endcr") ELSE [At("key") EXCEPT !.keyStart = i]
        [] m.h = "endcr" -> Expect(LF, [At("endlf") EXCEPT !.body = i + 1])
        [] m.h \in {"endlf", "error"} -> m

(* Entered in "endlf" the loop stops at the byte it is at. *)
Scan(s, h, map) ==
  LET locals == [h |-> h, headers |-> map, keyStart |-> 0, keyEnd |-> 0,
                 valueStart |-> 0, valueEnd |-> 0, line |-> 1, body |-> 1]
      m[i \in 0..Len(s)] == IF i = 0 THEN locals ELSE HeaderStep(m[i - 1], s, i)
  IN  m[Len(s)]

(* On running out of input the text is kept from the start of the line, or *)
(* the LF before it, while hState_ stays where the scan got to.            *)
ParseHeaders ==
  /\ pc = "parse" /\ state = "headers"
  /\ UNCHANGED lineVars
  /\ LET m == Scan(inBuffer, hState, headers)
     IN  /\ hState' = m.h /\ headers' = m.headers
         /\ CASE m.h = "error" -> Refuse /\ UNCHANGED inBuffer
              [] m.h = "endlf" ->
                   /\ inBuffer' = SubSeq(inBuffer, m.body, Len(inBuffer))
                   /\ state' = IF method = "POST" THEN "body" ELSE "analysis"
                   /\ UNCHANGED <<peerVars, pc, error, answers>>
              [] OTHER ->
                   /\ inBuffer' = SubSeq(inBuffer, m.line, Len(inBuffer))
                   /\ Again /\ UNCHANGED state

----------------------------------------------------------------------------
(* getContentLength, STATE_RECV_BODY *)

Number(digit) == CASE digit = <<"0">> -> 0 [] digit = <<"1">> -> 1 [] digit = <<"2">> -> 2

HasLength(map) ==
  /\ <<"content-length">> \in DOMAIN map
  /\ map[<<"content-length">>] \in {<<"0">>, <<"1">>, <<"2">>}

ContentLength(map) == Number(map[<<"content-length">>])

(* Mutant: a body that has just arrived in full is waited for. *)
BodyHasMore == Len(inBuffer) > ContentLength(headers)

BodyIsHere == Len(inBuffer) >= ContentLength(headers)

RecvBody ==
  /\ pc = "parse" /\ state = "body"
  /\ UNCHANGED <<inBuffer, hState, lineVars, headers>>
  /\ IF ~HasLength(headers) THEN Refuse
     ELSE IF ~BodyIsHere THEN Again /\ UNCHANGED state
     ELSE state' = "analysis" /\ UNCHANGED <<peerVars, pc, error, answers>>

----------------------------------------------------------------------------
(* analysisRequest, analysisApiRequest, LightAgentGateway::handle *)

ApiPaths == {<<"api/health">>, <<"api/metrics">>, <<"api/chat">>, <<"api/rag">>}

(* Files below the working directory, and names with a branch of their own. *)
StaticPaths == {<<"index.html">>, <<"hello">>, <<"favicon.ico">>}

(* The gateway's routes. *)
ApiStatus(how, path) ==
  CASE path \in {<<"api/health">>, <<"api/metrics">>} ->
         IF how \in {"GET", "HEAD"} THEN 200 ELSE 405
    [] path = <<"api/chat">> -> IF how = "POST" THEN 200 ELSE 405
    [] OTHER -> 404

KeepAliveRequested(map) ==
  <<"connection">> \in DOMAIN map /\ map[<<"connection">>] = <<"keep-alive">>

(* /hello answers with a text of its own, /favicon.ico sends its picture   *)
(* even to a HEAD.                                                         *)
Answer(how, path, map, body) ==
  [path     |-> path,
   status   |-> IF path \in ApiPaths THEN ApiStatus(how, path) ELSE 200,
   content  |-> how # "HEAD" \/ path \in {<<"hello">>, <<"favicon.ico">>},
   keep     |-> KeepAliveRequested(map) /\ path # <<"hello">>,
   received |-> body]

Answerable(how, path) ==
  path \in ApiPaths \/ (how # "POST" /\ path \in StaticPaths)

(* Mutant: headers_ survives reset(). *)
ResetKeepsHeaders ==
  /\ state' = "uri" /\ hState' = "start"
  /\ fileName' = <<>>
  /\ UNCHANGED <<method, headers>>

(* reset() *)
Reset ==
  /\ state' = "uri" /\ hState' = "start"
  /\ fileName' = <<>> /\ headers' = <<>>
  /\ UNCHANGED method

(* The request is answered; with input left handleRead calls itself. *)
Analysis ==
  /\ pc = "parse" /\ state = "analysis"
  /\ Answerable(method, fileName)
  /\ LET length == IF method = "POST" THEN ContentLength(headers) ELSE 0
     IN  /\ answers' = Append(answers, Answer(method, fileName, headers,
                                              SubSeq(inBuffer, 1, length)))
         /\ inBuffer' = SubSeq(inBuffer, length + 1, Len(inBuffer))
  /\ Reset
  /\ pc' = IF inBuffer' = <<>> THEN "idle" ELSE "read"
  /\ UNCHANGED <<peerVars, error>>

AnalysisFails ==
  /\ pc = "parse" /\ state = "analysis"
  /\ ~Answerable(method, fileName)
  /\ Refuse
  /\ UNCHANGED <<inBuffer, hState, lineVars, headers>>

Next ==
  Read \/ ParseURI \/ ParseHeaders \/ RecvBody \/ Analysis \/ AnalysisFails

Spec == Init /\ [][Next]_vars

----------------------------------------------------------------------------
(* What the parser does not understand, however it arrives: a request with *)
(* no header at all, and a header without a value.                         *)
Understood(r) ==
  r.headers # <<>> /\ \A i \in DOMAIN r.headers : r.headers[i][2] # NoValue

Name(r) == IF r.path = <<>> THEN <<"index.html">> ELSE r.path

AsSent(r) ==
  Answer(r.method, Name(r),
         [k \in {<<r.headers[i][1]>> : i \in DOMAIN r.headers} |->
            <<r.headers[CHOOSE i \in DOMAIN r.headers : <<r.headers[i][1]>> = k][2]>>],
         r.body)

(* Up to request n the headers of each arrived in one read. *)
Untorn(n) ==
  \A j \in 1..n : j \in DOMAIN requests => j \notin torn /\ Understood(requests[j])

(* Nothing answers it; or its path is empty and has a query, so that what  *)
(* is left of the name is "" and not "index.html".                         *)
Refusable(r) ==
  \/ ~Answerable(r.method, Name(r))
  \/ r.path = <<>> /\ r.query
  \/ r.method = "POST" /\ \A i \in DOMAIN r.headers : r.headers[i][1] # "content-length"

(* An answer to that very request, though its keep-alive and the words of  *)
(* the body may not be what was sent.                                      *)
AnswerTo(r, answer) ==
  /\ answer.path = AsSent(r).path /\ answer.status = AsSent(r).status
  /\ answer.content = AsSent(r).content
  /\ Len(answer.received) = Len(AsSent(r).received)

(* As long as no read ends inside the headers of a request, the requests   *)
(* are answered as they were meant: each with its own method, path, body   *)
(* and keep-alive, nothing of one passing to the next, wherever else the   *)
(* text is cut and however much of it arrives at once; and none is refused *)
(* but those that nothing answers.  Between two calls parseHeaders keeps   *)
(* hState_ and forgets its positions: torn headers are refused, stored     *)
(* under no key, or leave their last CR LF in front of the body.  Even so  *)
(* every answer is the answer to its own request, with as much of a body,  *)
(* and neither it nor what follows is taken for another request.           *)
ParsedAsSent ==
  /\ \A i \in DOMAIN answers :
       Untorn(i) => i \in DOMAIN requests /\ answers[i] = AsSent(requests[i])
  /\ LET i == Len(answers) + 1
     IN  error /\ Untorn(i) => i \in DOMAIN requests /\ Refusable(requests[i])
  /\ (\A j \in DOMAIN requests : Understood(requests[j]))
       => \A i \in DOMAIN answers :
            i \in DOMAIN requests /\ AnswerTo(requests[i], answers[i])

(* However the text is cut, headers included: when all of it has been read *)
(* the parser does not wait for more.  Every request is answered, or the   *)
(* connection refused.                                                     *)
NeverWaitsInVain ==
  pc = "idle" /\ sent = <<>> /\ ~error
    /\ (\A j \in DOMAIN requests : Understood(requests[j]))
    => Len(answers) >= Len(requests)
=============================================================================
