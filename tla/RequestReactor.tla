--------------------------- MODULE RequestReactor ---------------------------
(***************************************************************************)
(* The inbound loop of a connector's reactor thread,                       *)
(* SocketConnectorBase::handleReactorInboundMessages: it reads requests    *)
(* frame by frame from a ZMQ socket, calls the gateway's API and, on a     *)
(* ZMQ_REP socket, replies with a response code.  SocketConnector.tla      *)
(* models when the thread enters this loop.                                *)
(*                                                                         *)
(* A request is a sequence of frames.  What matters of a frame is whether  *)
(* it names a message type the application supports, one that              *)
(* ZmqMessage::createMessage knows, a body that parses, or nothing at all. *)
(***************************************************************************)
EXTENDS Naturals, Sequences

CONSTANTS Supported,    \* frames that Application::IsMessageSupported accepts
          Mapped,       \* frames that are keys of createMessage's handler map
          Shapes,       \* the requests clients send, as sequences of frames
          MaxRequests,  \* bound: how many requests arrive
          BlockingModes \* TRUE: built with a ZMQ_REP socket, FALSE: with ZMQ_PULL

\* Message types, then bodies: one the API takes, one it cannot be called with
\* (a contract or an order that does not convert), one that is not a message.
Frames == {"order", "unknown", "other", "good", "refused", "bad", "empty"}
Codes  == {200, 400, 404, 412, 500, 502, 503}

ASSUME RequestReactorAssumption ==
  /\ Supported \subseteq Frames \ {"empty"}
  /\ Mapped \subseteq Frames \ {"empty"}
  /\ Shapes \subseteq Seq(Frames) \ {<< >>}
  /\ MaxRequests \in Nat \ {0}
  /\ BlockingModes \subseteq BOOLEAN

VARIABLES
  blocking,   \* the socket is a ZMQ_REP one, which the build decides
  requests,   \* the requests sent so far, in the order the socket queues them
  reading,    \* the number of the request whose frames are being read
  rest,       \* the frames of it that are not read yet
  replying,   \* the ZMQ_REP socket has read a whole request
  pc,         \* where the loop is
  key,        \* the number of the request messageKeyFrame came from
  body,       \* the frame parsed into inboundMessage
  code,       \* responseCode
  responses,  \* responses[n]: codes of the calls of afterMessage for request n
  calls       \* calls of the gateway's API: where key and body came from

vars == <<blocking, requests, reading, rest, replying, pc, key, body, code, responses, calls>>

Numbers == 1..MaxRequests

TypeOK ==
  /\ blocking \in BOOLEAN
  /\ requests \in Seq(Shapes)
  /\ Len(requests) <= MaxRequests
  /\ reading \in 0..Len(requests)
  /\ rest \in Seq(Frames)
  /\ replying \in BOOLEAN
  /\ pc \in {"key", "extra", "body", "call", "reply", "stopped"}
  /\ key \in 0..MaxRequests
  /\ body \in Frames
  /\ code \in Codes
  /\ responses \in [Numbers -> Seq(Codes)]
  /\ calls \in Seq([key : 0..MaxRequests, body : 0..MaxRequests])

Init ==
  /\ blocking \in BlockingModes
  /\ requests = << >>
  /\ reading = 0
  /\ rest = << >>
  /\ replying = FALSE
  /\ pc = "key"
  /\ key = 0
  /\ body = "empty"
  /\ code = 500
  /\ responses = [n \in Numbers |-> << >>]
  /\ calls = << >>
-----------------------------------------------------------------------------
(***************************************************************************)
(* Clients and the socket                                                  *)
(***************************************************************************)

SendRequest(s) ==
  /\ Len(requests) < MaxRequests
  /\ requests' = Append(requests, s)
  /\ UNCHANGED <<blocking, reading, rest, replying, pc, key, body, code, responses, calls>>

\* The loop is in atp::zmq::receive.
InReceive == pc \in {"key", "extra", "body"}

\* A ZMQ_REP socket that owes a reply refuses to receive.
MayReceive == ~(blocking /\ replying)

\* recv blocks until the socket hands it the next request.
Deliver ==
  /\ InReceive /\ MayReceive
  /\ rest = << >>
  /\ reading < Len(requests)
  /\ reading' = reading + 1
  /\ rest' = requests[reading + 1]
  /\ UNCHANGED <<blocking, requests, replying, pc, key, body, code, responses, calls>>

\* recv returns the frame f; with the last frame of a request a ZMQ_REP socket
\* turns to sending.
Take(f) ==
  /\ InReceive /\ MayReceive
  /\ rest # << >>
  /\ f = Head(rest)
  /\ rest' = Tail(rest)
  /\ replying' = (blocking /\ Len(rest) = 1)

\* ZMQ_RCVMORE after the frame that Take reads.
More == Len(rest) > 1

\* atp::zmq::receive calls itself on an empty frame, without looking at RCVMORE.
SkipEmpty ==
  /\ Take("empty")
  /\ UNCHANGED <<blocking, requests, reading, pc, key, body, code, responses, calls>>

\* recv on a socket that owes a reply throws, and respond() returns false.
ReceiveThrows ==
  /\ InReceive /\ ~MayReceive
  /\ pc' = "stopped"
  /\ UNCHANGED <<blocking, requests, reading, rest, replying, key, body, code, responses, calls>>
-----------------------------------------------------------------------------
(***************************************************************************)
(* The loop                                                                *)
(***************************************************************************)

\* Mutant: extra frames of an unsupported message are left in the socket.
KeepExtraFrames(f) ==
  IF f \in Supported
    THEN IF More /\ f \in Mapped
           THEN pc' = "body" /\ code' = 500
           ELSE pc' = "reply" /\ code' = IF More THEN 503 ELSE 500
    ELSE pc' = "reply" /\ code' = 404

\* Mutant: a body is read although there is none.
ReadAbsentBody(f) ==
  IF f \in Supported
    THEN IF f \in Mapped
           THEN pc' = "body" /\ code' = 500
           ELSE pc' = "reply" /\ code' = IF More THEN 503 ELSE 500
    ELSE pc' = (IF More THEN "extra" ELSE "reply") /\ code' = 404

\* What follows from the key frame: an unsupported message is read to its end,
\* a supported one is created if it has a body.
OnKey(f) ==
  IF f \in Supported
    THEN IF More /\ f \in Mapped
           THEN pc' = "body" /\ code' = 500
           ELSE pc' = "reply" /\ code' = IF More THEN 503 ELSE 500
    ELSE pc' = (IF More THEN "extra" ELSE "reply") /\ code' = 404

ReadKey(f) ==
  /\ pc = "key" /\ f # "empty"
  /\ Take(f)
  /\ key' = reading
  /\ OnKey(f)
  /\ UNCHANGED <<blocking, requests, reading, body, responses, calls>>

\* keep reading to consume the extra frames
ReadExtra(f) ==
  /\ pc = "extra" /\ f # "empty"
  /\ Take(f)
  /\ pc' = IF More THEN "extra" ELSE "reply"
  /\ UNCHANGED <<blocking, requests, reading, key, body, code, responses, calls>>

\* atp::receive<P>: exactly one frame, and it parses as an initialized message.
ReadBody(f) ==
  /\ pc = "body" /\ f # "empty"
  /\ Take(f)
  /\ body' = f
  /\ IF ~More /\ f \in {"good", "refused"}
       THEN pc' = "call" /\ UNCHANGED code
       ELSE pc' = "reply" /\ code' = 400
  /\ UNCHANGED <<blocking, requests, reading, key, responses, calls>>

\* validate() looks at IsInitialized() once more, then callApi.
CallApi ==
  /\ pc = "call"
  /\ IF body = "good"
       THEN /\ calls' = Append(calls, [key |-> key, body |-> reading])
            /\ code' = 200
       ELSE /\ UNCHANGED calls
            /\ code' = 502
  /\ pc' = "reply"
  /\ UNCHANGED <<blocking, requests, reading, rest, replying, key, body, responses>>

\* Mutant: every request that could not be served is answered with 500.
AnswerInternalError ==
  /\ responses' = [responses EXCEPT ![key] = Append(@, IF code = 200 THEN 200 ELSE 500)]
  /\ replying' = FALSE
  /\ pc' = "key"

\* afterMessage: the reply, if the socket is a ZMQ_REP one.
Answer ==
  /\ responses' = [responses EXCEPT ![key] = Append(@, code)]
  /\ replying' = FALSE
  /\ pc' = "key"

AfterMessage ==
  /\ pc = "reply"
  /\ blocking => replying
  /\ Answer
  /\ UNCHANGED <<blocking, requests, reading, rest, key, body, code, calls>>

\* A ZMQ_REP socket refuses to send before the whole request is read: the
\* exception ends respond() and with it the reactor.
ReplyThrows ==
  /\ pc = "reply"
  /\ blocking /\ ~replying
  /\ pc' = "stopped"
  /\ UNCHANGED <<blocking, requests, reading, rest, replying, key, body, code, responses, calls>>
-----------------------------------------------------------------------------
Loop ==
  \/ Deliver \/ SkipEmpty \/ ReceiveThrows
  \/ \E f \in Frames : ReadKey(f) \/ ReadExtra(f) \/ ReadBody(f)
  \/ CallApi \/ AfterMessage \/ ReplyThrows

Next == Loop \/ \E s \in Shapes : SendRequest(s)

Spec == Init /\ [][Next]_vars

\* The reactor's thread keeps running; clients owe nothing.
FairSpec == Spec /\ WF_vars(Loop)
-----------------------------------------------------------------------------
(***************************************************************************)
(* Properties                                                              *)
(***************************************************************************)

\* No request sent so far has an empty frame.
Full(s)  == \A i \in 1..Len(s) : s[i] # "empty"
FullSent == \A n \in 1..Len(requests) : Full(requests[n])

\* Requests that the loop reads to their end before it answers them.
Regular(s) ==
  /\ Full(s)
  /\ Len(s) > 1 /\ s[1] \in Supported => Len(s) = 2 /\ s[1] \in Mapped

\* The response such a request deserves.
Outcome(s) ==
  CASE s[1] \notin Supported                                    -> 404
    [] s[1] \in Supported /\ Len(s) = 1                         -> 500
    [] s[1] \in Supported /\ Len(s) > 1 /\ s[2] = "good"        -> 200
    [] s[1] \in Supported /\ Len(s) > 1 /\ s[2] = "refused"     -> 502
    [] OTHER                                                    -> 400

\* The loop has gone past request n.
Passed(n) == n < reading \/ (n = reading /\ pc = "key" /\ rest = << >>)

\* A regular request gets exactly one response and the right one, whatever
\* other clients sent before it, empty frames excepted: the unread frames of a
\* malformed request never swallow, shift or duplicate the next one.
EachAnsweredOnce ==
  FullSent =>
    \A n \in 1..Len(requests) :
      Regular(requests[n]) /\ Passed(n) => responses[n] = <<Outcome(requests[n])>>

AllCallsWhole == \A i \in 1..Len(calls) : calls[i].key = calls[i].body

\* As long as no client sent an empty frame, the API is called with the body
\* that came with the key.
CallsAreWhole == FullSent => AllCallsWhole

\* Only a malformed request can make the socket throw and stop the reactor.
StopsOnlyOnMalformed ==
  pc = "stopped" => \E n \in 1..Len(requests) : ~Regular(requests[n])

\* "keep reading to consume the extra frames": as long as no client sent an
\* empty frame, the frames thrown away with an unsupported message are its own.
ExtraFramesAreOwn ==
  [][FullSent /\ pc = "extra" /\ rest' # rest => key = reading /\ rest # << >>]_vars

\* "By definition, a reactor is required to send a reply to the client on
\* receiving the message": every request is answered in the end, unless some
\* client sends a malformed one.
EveryRequestAnswered ==
  \A n \in Numbers :
    n <= Len(requests)
      ~> \/ responses[n] # << >>
         \/ \E k \in 1..Len(requests) : ~Regular(requests[k])
=============================================================================
