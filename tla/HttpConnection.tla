-------------------------- MODULE HttpConnection ---------------------------
(***************************************************************************)
(* One accepted connection: its HttpData and Channel (HttpData.cpp,        *)
(* Channel.h), its registration in Epoll (Epoll.cpp), the kernel's socket  *)
(* and edge-triggered readiness, and the peer.                             *)
(*                                                                         *)
(* The handlers run on one loop thread, cut into steps at their system     *)
(* calls: the peer and the kernel interleave with them.                    *)
(*                                                                         *)
(* Bytes are abstracted to tokens.  A request is a line, headers and, for  *)
(* a POST, a body; each token arrives whole, in any grouping.  A response  *)
(* is ResponseSize chunks, an error page is chunk 0.  Timeouts have no     *)
(* length: a timer is armed or not.                                        *)
(***************************************************************************)
EXTENDS Naturals, Sequences, SequencesExt

CONSTANTS
  Kinds,         (* the kinds of request the peer sends                    *)
  MaxRequests,   (* bound: how many of them                                *)
  ResponseSize,  (* chunks of a response                                   *)
  SendBuffer     (* chunks the kernel's send buffer takes                  *)

ASSUME ConnectionAssumption ==
  /\ Kinds \subseteq {"get", "hello", "missing", "post", "form", "nolength",
                      "badline", "badheader"}
  /\ MaxRequests \in Nat /\ ResponseSize \in Nat \ {0}
  /\ SendBuffer \in Nat \ {0}

VARIABLES
  pc,              (* where the loop thread is in this connection's code   *)
  revents,         (* revents_ of the Channel                              *)
  events,          (* events_: what the handlers ask to be watched         *)
  lastEvents,      (* lastEvents_: what epoll_ctl was last told            *)
  inBuffer,        (* inBuffer_: tokens                                    *)
  outBuffer,       (* outBuffer_: chunks                                   *)
  error,           (* error_                                               *)
  connectionState, (* connectionState_                                     *)
  state,           (* state_                                               *)
  req,             (* method_, fileName_ and headers_: the request's number*)
  timer,           (* the connection's TimerNode is live                   *)
  interest,        (* kernel: events epoll watches; {} once a ONESHOT fired*)
  ready,           (* kernel: the descriptor is on epoll's ready list      *)
  rcv,             (* kernel: tokens received, not read                    *)
  snd,             (* kernel: chunks written, not acknowledged             *)
  fin,             (* kernel: the peer has closed its side                 *)
  rst,             (* kernel: the peer has reset the connection            *)
  kinds,           (* peer: the kinds of the requests sent                 *)
  parts,           (* peer: how many tokens of the last one are sent       *)
  received,        (* peer: chunks                                         *)
  answered         (* history: requests answered into outBuffer_           *)

chanVars   == <<revents, events, lastEvents>>
parseVars  == <<inBuffer, state, req>>
replyVars  == <<outBuffer, answered>>
connVars   == <<error, connectionState>>
epollVars  == <<interest, ready>>
inVars     == <<rcv, fin, rst>>
peerVars   == <<kinds, parts, received>>
vars == <<pc, chanVars, parseVars, replyVars, connVars, timer, epollVars,
          inVars, snd, peerVars>>

Requests == 1..MaxRequests

PartsOf(kind) ==
  CASE kind = "badline"          -> <<"line">>
    [] kind \in {"post", "form"} -> <<"line", "headers", "body">>
    [] OTHER                     -> <<"line", "headers">>

Tokens == [req : Requests, part : {"line", "headers", "body"}]
Chunks == [req : Requests, n : 0..ResponseSize]

Response(r) == [i \in 1..ResponseSize |-> [req |-> r, n |-> i]]
ErrorPage(r) == [req |-> r, n |-> 0]

TypeOK ==
  /\ pc \in {"accepted", "idle", "read", "parse", "flush", "write", "conn",
             "closed"}
  /\ revents \subseteq {"IN", "OUT"}
  /\ events \subseteq {"IN", "OUT", "ONESHOT"}
  /\ lastEvents \in {{}, {"IN", "ONESHOT"}, {"IN"}, {"OUT"}}
  /\ interest \in {{}, lastEvents \ {"ONESHOT"}}
  /\ inBuffer \in Seq(Tokens) /\ rcv \in Seq(Tokens)
  /\ outBuffer \in Seq(Chunks)
  /\ snd \in Seq(Chunks) /\ Len(snd) <= SendBuffer
  /\ error \in BOOLEAN
  /\ connectionState \in {"connected", "disconnecting", "disconnected"}
  /\ state \in {"uri", "headers", "body", "analysis", "finish"}
  /\ req \in 0..MaxRequests
  /\ timer \in BOOLEAN /\ ready \in BOOLEAN
  /\ fin \in BOOLEAN /\ rst \in BOOLEAN
  /\ kinds \in Seq(Kinds) /\ parts \in 0..3
  /\ received \in Seq(Chunks)
  /\ answered \in Seq(Requests)

(* handNewConn has built the HttpData and queued newEvent; the peer may be *)
(* sending already.                                                        *)
Init ==
  /\ pc = "accepted"
  /\ revents = {} /\ events = {} /\ lastEvents = {}
  /\ inBuffer = <<>> /\ state = "uri" /\ req = 0
  /\ outBuffer = <<>> /\ answered = <<>>
  /\ error = FALSE /\ connectionState = "connected"
  /\ timer = FALSE
  /\ interest = {} /\ ready = FALSE
  /\ rcv = <<>> /\ fin = FALSE /\ rst = FALSE
  /\ snd = <<>>
  /\ kinds = <<>> /\ parts = 0 /\ received = <<>>

----------------------------------------------------------------------------
(* The kernel's part of epoll, and Epoll's calls. *)

(* What a look at the socket would report. *)
Readable == rcv # <<>> \/ fin \/ rst
Writable == rst \/ Len(snd) < SendBuffer
Status ==
  {e \in {"IN", "OUT"} : IF e = "IN" THEN Readable ELSE Writable}

(* An edge concerning e: it counts only while e is watched. *)
Edge(e) == ready' = (ready \/ e \in interest)

(* FIN and RST are reported to anyone who watches anything. *)
EdgeForAll == ready' = (ready \/ interest # {})

(* EPOLL_CTL_ADD and EPOLL_CTL_MOD look at the socket afresh. *)
Watch(w) ==
  /\ lastEvents' = w
  /\ interest' = w \ {"ONESHOT"}
  /\ ready' = (ready \/ Status \cap w # {})

(* Mutant: the comparison overlooks that a ONESHOT has to be re-armed. *)
EpollModKeepsOneshot(w) ==
  IF w = lastEvents \ {"ONESHOT"}
    THEN UNCHANGED <<lastEvents, interest, ready>> ELSE Watch(w)

(* Epoll::epoll_mod: no call when the events are those of the last time. *)
EpollMod(w) ==
  IF w = lastEvents THEN UNCHANGED <<lastEvents, interest, ready>>
                    ELSE Watch(w)

(* HttpData::newEvent, run by the loop as a callback. *)
NewEvent ==
  /\ pc = "accepted"
  /\ timer' = TRUE
  /\ events' = {"IN", "ONESHOT"}
  /\ Watch({"IN", "ONESHOT"})
  /\ pc' = "idle"
  /\ UNCHANGED <<revents, parseVars, replyVars, connVars, inVars, snd, peerVars>>

(* epoll_wait reports the descriptor: getEventsRequest clears events_,     *)
(* and a ONESHOT registration watches nothing any more.                    *)
Report ==
  /\ pc = "idle" /\ ready
  /\ ready' = FALSE
  /\ events' = {}
  /\ interest' = IF "ONESHOT" \in lastEvents THEN {} ELSE interest

(* handleEvents of a live connection: the read handler comes first. *)
HandleEvents ==
  /\ Report
  /\ ~rst
  /\ revents' = Status \cap interest
  /\ revents' # {}
  /\ pc' = IF "IN" \in revents' THEN "read" ELSE "write"
  /\ UNCHANGED <<lastEvents, parseVars, replyVars, connVars, timer, inVars,
                 snd, peerVars>>

(* A reset is reported as EPOLLHUP or EPOLLERR, whatever is watched:       *)
(* handleEvents returns without calling any handler, handleConn included.  *)
IgnoreReset ==
  /\ Report
  /\ rst
  /\ UNCHANGED <<pc, revents, lastEvents, parseVars, replyVars, connVars,
                 timer, inVars, snd, peerVars>>

----------------------------------------------------------------------------
(* HttpData::handleRead *)

(* Back in Channel::handleEvents, after handleRead. *)
AfterRead == IF "OUT" \in revents THEN "write" ELSE "conn"

(* HttpData::handleError writes past outBuffer_, and drops what the socket *)
(* does not take at once.                                                  *)
HandleError(r) ==
  /\ error' = TRUE
  /\ snd' = IF ~rst /\ Len(snd) < SendBuffer THEN Append(snd, ErrorPage(r))
                                             ELSE snd
  /\ pc' = AfterRead

(* readn up to EAGAIN or the end of the stream, which the kernel goes on   *)
(* to report after a FIN whatever else arrives.  In a connection already   *)
(* half closed what is read is thrown away.                                *)
Read ==
  /\ pc = "read"
  /\ rst => fin
  /\ rcv' = <<>>
  /\ IF connectionState = "disconnecting"
       THEN /\ inBuffer' = <<>>
            /\ pc' = "flush"
            /\ UNCHANGED connectionState
       ELSE /\ inBuffer' = inBuffer \o rcv
            /\ connectionState' = IF fin THEN "disconnecting" ELSE "connected"
            /\ pc' = IF fin /\ rcv = <<>> THEN "flush" ELSE "parse"
  /\ UNCHANGED <<chanVars, state, req, replyVars, error, timer, epollVars,
                 fin, rst, snd, peerVars>>

(* A reset before the end of the stream: read() fails, and so do the       *)
(* writes of handleError.                                                  *)
ReadFails ==
  /\ pc = "read"
  /\ rst /\ ~fin
  /\ rcv' = <<>>
  /\ inBuffer' = inBuffer \o rcv
  /\ HandleError(req)
  /\ UNCHANGED <<chanVars, state, req, replyVars, connectionState, timer,
                 epollVars, fin, rst, peerVars>>

(* The parser runs out of input. *)
NeedMore ==
  /\ pc = "parse"
  /\ state \in {"uri", "headers", "body"}
  /\ inBuffer = <<>>
  /\ state = "body" => kinds[req] # "nolength"
  /\ pc' = "flush"
  /\ UNCHANGED <<chanVars, parseVars, replyVars, connVars, timer, epollVars,
                 inVars, snd, peerVars>>

(* The next token is at the head of inBuffer_ and is of the part expected. *)
NextToken(part) == inBuffer # <<>> /\ Head(inBuffer).part = part

ParseURI ==
  /\ pc = "parse" /\ state = "uri" /\ NextToken("line")
  /\ req' = Head(inBuffer).req
  /\ IF kinds[req'] = "badline"
       THEN /\ inBuffer' = <<>>
            /\ HandleError(req')
            /\ UNCHANGED state
       ELSE /\ inBuffer' = Tail(inBuffer)
            /\ state' = "headers"
            /\ UNCHANGED <<pc, error, snd>>
  /\ UNCHANGED <<chanVars, replyVars, connectionState, timer, epollVars,
                 inVars, peerVars>>

ParseHeaders ==
  /\ pc = "parse" /\ state = "headers" /\ NextToken("headers")
  /\ IF kinds[req] = "badheader"
       THEN /\ HandleError(req)
            /\ UNCHANGED <<inBuffer, state>>
       ELSE /\ inBuffer' = Tail(inBuffer)
            /\ state' = IF kinds[req] \in {"post", "form", "nolength"}
                          THEN "body" ELSE "analysis"
            /\ UNCHANGED <<pc, error, snd>>
  /\ UNCHANGED <<chanVars, req, replyVars, connectionState, timer, epollVars,
                 inVars, peerVars>>

(* STATE_RECV_BODY: a body without Content-Length is an error. *)
LackOfLength ==
  /\ pc = "parse" /\ state = "body" /\ kinds[req] = "nolength"
  /\ HandleError(req)
  /\ UNCHANGED <<chanVars, parseVars, replyVars, connectionState, timer,
                 epollVars, inVars, peerVars>>

RecvBody ==
  /\ pc = "parse" /\ state = "body" /\ NextToken("body")
  /\ state' = "analysis"
  /\ UNCHANGED <<pc, chanVars, inBuffer, req, replyVars, connVars, timer,
                 epollVars, inVars, snd, peerVars>>

(* Mutant: the request is answered but not marked as finished. *)
AnalysisUnfinished ==
  /\ pc = "parse" /\ state = "analysis"
  /\ kinds[req] \in {"get", "hello", "post"}
  /\ outBuffer' = outBuffer \o Response(req)
  /\ answered' = Append(answered, req)
  /\ pc' = "flush"
  /\ UNCHANGED <<chanVars, parseVars, connVars, timer, epollVars, inVars, snd,
                 peerVars>>

(* analysisRequest succeeds: the response is queued and, for a POST, the   *)
(* body taken off inBuffer_.  /hello ASSIGNS outBuffer_ where the others   *)
(* append to it.                                                           *)
Analysis ==
  /\ pc = "parse" /\ state = "analysis"
  /\ kinds[req] \in {"get", "hello", "post"}
  /\ outBuffer' = IF kinds[req] = "hello" THEN Response(req)
                                          ELSE outBuffer \o Response(req)
  /\ answered' = Append(answered, req)
  /\ inBuffer' = IF kinds[req] = "post" THEN Tail(inBuffer) ELSE inBuffer
  /\ state' = "finish"
  /\ pc' = "flush"
  /\ UNCHANGED <<chanVars, req, connVars, timer, epollVars, inVars, snd,
                 peerVars>>

(* analysisRequest fails: a 404 page for a GET, nothing for a POST.  (A    *)
(* file that is there and cannot be opened or mapped also clears           *)
(* outBuffer_: nothing of it is sent any more once error_ is set.)         *)
AnalysisFails ==
  /\ pc = "parse" /\ state = "analysis"
  /\ IF kinds[req] = "missing"
       THEN HandleError(req)
       ELSE /\ kinds[req] = "form"
            /\ error' = TRUE
            /\ pc' = AfterRead
            /\ UNCHANGED snd
  /\ UNCHANGED <<chanVars, parseVars, replyVars, connectionState, timer,
                 epollVars, inVars, peerVars>>

(* Mutant: writen clears the buffer even when EAGAIN stopped it. *)
WritenClears ==
  LET free == SendBuffer - Len(snd)
      k == IF Len(outBuffer) < free THEN Len(outBuffer) ELSE free
  IN  IF rst /\ outBuffer # <<>>
        THEN error' = TRUE /\ UNCHANGED <<outBuffer, snd>>
        ELSE /\ snd' = snd \o SubSeq(outBuffer, 1, k)
             /\ outBuffer' = <<>>
             /\ UNCHANGED error

(* writen: what fits goes to the socket; EAGAIN keeps the rest.  A reset   *)
(* makes it fail.                                                          *)
Writen ==
  LET free == SendBuffer - Len(snd)
      k == IF Len(outBuffer) < free THEN Len(outBuffer) ELSE free
  IN  IF rst /\ outBuffer # <<>>
        THEN error' = TRUE /\ UNCHANGED <<outBuffer, snd>>
        ELSE /\ snd' = snd \o SubSeq(outBuffer, 1, k)
             /\ outBuffer' = SubSeq(outBuffer, k + 1, Len(outBuffer))
             /\ UNCHANGED error

(* Mutant: the rest is kept but not watched for. *)
AfterWriteForgets(w) == IF error' THEN {} ELSE w

(* What handleWrite asks to be watched. *)
AfterWrite(w) ==
  (IF error' THEN {} ELSE w) \cup (IF outBuffer' # <<>> THEN {"OUT"} ELSE {})

(* Mutant: input left over waits for the next event. *)
FlushOnce ==
  /\ pc = "flush"
  /\ Writen
  /\ events' = AfterWrite(events)
               \cup (IF ~error' /\ state # "finish" THEN {"IN"} ELSE {})
  /\ IF ~error' /\ state = "finish" THEN state' = "uri" /\ timer' = FALSE
                                    ELSE UNCHANGED <<state, timer>>
  /\ pc' = AfterRead
  /\ UNCHANGED <<revents, lastEvents, inBuffer, req, answered,
                 connectionState, epollVars, inVars, peerVars>>

(* The end of handleRead.  After a whole request it resets the parser and  *)
(* the timer and, with input left over, starts again.                      *)
Flush ==
  /\ pc = "flush"
  /\ Writen
  /\ events' = AfterWrite(events)
               \cup (IF ~error' /\ state # "finish" THEN {"IN"} ELSE {})
  /\ IF ~error' /\ state = "finish"
       THEN /\ state' = "uri"
            /\ timer' = FALSE
            /\ pc' = IF inBuffer # <<>> /\ connectionState # "disconnecting"
                       THEN "read" ELSE AfterRead
       ELSE /\ pc' = AfterRead
            /\ UNCHANGED <<state, timer>>
  /\ UNCHANGED <<revents, lastEvents, inBuffer, req, answered,
                 connectionState, epollVars, inVars, peerVars>>

(* HttpData::handleWrite called by handleEvents. *)
HandleWrite ==
  /\ pc = "write"
  /\ IF error THEN UNCHANGED <<events, outBuffer, snd, error>>
              ELSE Writen /\ events' = AfterWrite(events)
  /\ pc' = "conn"
  /\ UNCHANGED <<revents, lastEvents, parseVars, answered, connectionState,
                 timer, epollVars, inVars, peerVars>>

----------------------------------------------------------------------------
(* HttpData::handleConn *)

(* Mutant: input and output are watched together. *)
RearmBoth ==
  /\ pc = "conn" /\ ~error /\ connectionState = "connected"
  /\ events' = events \cup {"IN"}
  /\ EpollMod(events')
  /\ timer' = TRUE
  /\ pc' = "idle"
  /\ UNCHANGED <<revents, parseVars, replyVars, connVars, inVars, snd, peerVars>>

(* Mutant: no timer for a connection with nothing to do. *)
RearmUntimed ==
  /\ pc = "conn" /\ ~error /\ connectionState = "connected"
  /\ events' = IF "OUT" \in events THEN {"OUT"} ELSE {"IN"}
  /\ EpollMod(events')
  /\ timer' = (events # {})
  /\ pc' = "idle"
  /\ UNCHANGED <<revents, parseVars, replyVars, connVars, inVars, snd, peerVars>>

(* Still connected: watch for output if any is pending, else for input. *)
Rearm ==
  /\ pc = "conn" /\ ~error /\ connectionState = "connected"
  /\ events' = IF "OUT" \in events THEN {"OUT"} ELSE {"IN"}
  /\ EpollMod(events')
  /\ timer' = TRUE
  /\ pc' = "idle"
  /\ UNCHANGED <<revents, parseVars, replyVars, connVars, inVars, snd, peerVars>>

HalfClosed == connectionState = "disconnecting" /\ "OUT" \in events

(* Half closed with output pending: the timer is detached, events_ is set, *)
(* and neither epoll nor the timer queue is told.                          *)
KeepHalfClosed ==
  /\ pc = "conn" /\ ~error /\ HalfClosed
  /\ events' = {"OUT"}
  /\ timer' = FALSE
  /\ pc' = "idle"
  /\ UNCHANGED <<revents, lastEvents, parseVars, replyVars, connVars,
                 epollVars, inVars, snd, peerVars>>

(* handleClose, and with the last reference ~HttpData: close().  A socket  *)
(* closed with unread input resets the connection, and what was in flight  *)
(* is lost.                                                                *)
Close ==
  /\ connectionState' = "disconnected"
  /\ interest' = {} /\ ready' = FALSE
  /\ timer' = FALSE
  /\ snd' = IF rcv # <<>> THEN <<>> ELSE snd
  /\ pc' = "closed"
  /\ UNCHANGED <<chanVars, parseVars, replyVars, error, inVars, peerVars>>

HandleClose ==
  /\ pc = "conn"
  /\ error \/ (connectionState = "disconnecting" /\ ~HalfClosed)
  /\ Close

(* The timer of this connection expires.  handleExpired runs after each    *)
(* return of epoll_wait, whichever descriptor of the loop caused it.       *)
Expire == pc = "idle" /\ timer /\ Close

----------------------------------------------------------------------------
(* The peer and the network. *)

SendToken(r, part) ==
  /\ rcv' = Append(rcv, [req |-> r, part |-> part])
  /\ Edge("IN")
  /\ UNCHANGED <<pc, chanVars, parseVars, replyVars, connVars, timer,
                 interest, fin, rst, snd, received>>

PeerMaySend == pc # "closed" /\ ~fin /\ ~rst

(* The last request begun has been sent in full. *)
SentWhole == kinds # <<>> => parts = Len(PartsOf(Last(kinds)))

PeerBegins ==
  /\ PeerMaySend
  /\ SentWhole
  /\ Len(kinds) < MaxRequests
  /\ \E kind \in Kinds : kinds' = Append(kinds, kind)
  /\ parts' = 1
  /\ SendToken(Len(kinds'), "line")

PeerContinues ==
  /\ PeerMaySend
  /\ ~SentWhole
  /\ parts' = parts + 1
  /\ SendToken(Len(kinds), PartsOf(Last(kinds))[parts'])
  /\ UNCHANGED kinds

PeerFin ==
  /\ PeerMaySend
  /\ fin' = TRUE
  /\ EdgeForAll
  /\ UNCHANGED <<pc, chanVars, parseVars, replyVars, connVars, timer,
                 interest, rcv, rst, snd, peerVars>>

PeerReset ==
  /\ pc # "closed" /\ ~rst
  /\ rst' = TRUE
  /\ snd' = <<>>
  /\ EdgeForAll
  /\ UNCHANGED <<pc, chanVars, parseVars, replyVars, connVars, timer,
                 interest, rcv, fin, peerVars>>

(* A chunk is delivered and acknowledged: there is room in the socket. *)
PeerReceives ==
  /\ snd # <<>>
  /\ received' = Append(received, Head(snd))
  /\ snd' = Tail(snd)
  /\ Edge("OUT")
  /\ UNCHANGED <<pc, chanVars, parseVars, replyVars, connVars, timer,
                 interest, inVars, kinds, parts>>

----------------------------------------------------------------------------
ReadStep ==
  \/ Read \/ ReadFails \/ NeedMore \/ ParseURI \/ ParseHeaders
  \/ LackOfLength \/ RecvBody \/ Analysis \/ AnalysisFails \/ Flush

ConnStep == Rearm \/ KeepHalfClosed \/ HandleClose

LoopStep ==
  NewEvent \/ HandleEvents \/ IgnoreReset \/ ReadStep \/ HandleWrite \/ ConnStep

Peer == PeerBegins \/ PeerContinues \/ PeerFin \/ PeerReset \/ PeerReceives

Next == LoopStep \/ Expire \/ Peer

Spec == Init /\ [][Next]_vars

(* The loop thread is scheduled and the network delivers what was sent.    *)
(* The peer need not send or close anything, and no timer need ever fire:  *)
(* an idle loop does not look at its timers.                               *)
FairSpec == Spec /\ WF_vars(LoopStep) /\ WF_vars(PeerReceives)

----------------------------------------------------------------------------
Idle == pc = "idle" /\ connectionState = "connected"

(* What the answered requests are due, in order. *)
Answers == FlattenSeq([i \in DOMAIN answered |-> Response(answered[i])])

WithoutHello == \A i \in DOMAIN kinds : kinds[i] # "hello"

(* Every request is answered at most once, none before an earlier one:     *)
(* reset() and the recursion of handleRead do not lose or repeat any.      *)
AnsweredInOrder == answered = [i \in DOMAIN answered |-> i]

(* Of a peer that does not ask for /hello, which assigns outBuffer_: while *)
(* nothing has failed, what it has, what is in flight and outBuffer_ are   *)
(* together exactly the responses due, in order; whatever happens, it gets *)
(* a beginning of them, and after that at most one error page.             *)
ResponsesIntact ==
  WithoutHello =>
    /\ ~error /\ ~rst /\ pc # "closed" => received \o snd \o outBuffer = Answers
    /\ \A i \in DOMAIN received :
         IF received[i].n = 0
           THEN i = Len(received)
           ELSE i \in DOMAIN Answers /\ received[i] = Answers[i]

(* A connection does not go back to epoll_wait with a request it has read  *)
(* and not looked at: no event would bring it back to it.                  *)
NothingUnparsed == Idle => inBuffer = <<>>

(* Edge-triggered epoll reports a condition once: a connection waiting in  *)
(* epoll_wait watches for something, for output alone while some is        *)
(* pending, and what it watches for is going to be reported if it is there *)
(* already.                                                                *)
NoLostEdge ==
  Idle /\ ~rst =>
    /\ interest # {}
    /\ outBuffer # <<>> => interest = {"OUT"}
    /\ Status \cap interest # {} => ready

(* Between two events a connection has a live timer, the only thing that   *)
(* ends it when the peer goes away or resets it (see IgnoreReset).  Not so *)
(* once it is half closed: see HalfClosedIsClosed.                         *)
OpenMeansTimed == Idle => timer

(* A request received whole is answered, unless the connection ends. *)
EveryRequestAnswered ==
  \A r \in Requests :
    (Len(kinds) >= r /\ (Len(kinds) = r => SentWhole))
      ~> \/ \E i \in DOMAIN answered : answered[i] = r
         \/ fin \/ rst \/ pc = "closed"

(* Output that did not fit into the socket is written once it does. *)
OutputDrains ==
  outBuffer # <<>> ~> outBuffer = <<>> \/ fin \/ rst \/ pc = "closed"

(* HttpData.cpp:205-207 says of the end of the stream that it is handled   *)
(* as the peer having closed: a connection that has read it gets closed.   *)
HalfClosedIsClosed ==
  connectionState = "disconnecting" ~> pc = "closed" \/ rst

(* README.md:13 and :260 say that /favicon.ico and the static files stay   *)
(* available beside /hello: a response once queued stays queued until it   *)
(* has been written to the socket.                                         *)
AnswersKept ==
  ~error /\ ~rst /\ pc # "closed" => received \o snd \o outBuffer = Answers
============================================================================
