------------------------ MODULE RequestReactorProofs ------------------------
(***************************************************************************)
(* Proofs about RequestReactor, for every set of requests clients may      *)
(* send, every application and both socket types.                          *)
(***************************************************************************)
EXTENDS MCRequestReactor, SequenceTheorems, TLAPS

USE RequestReactorAssumption

\* The loop leaves a request only between two messages of it, and what it has
\* in hand is of the request it reads.
Whole ==
  /\ Full(rest)
  /\ rest # << >> => reading > 0
  /\ pc \in {"extra", "body"} => rest # << >>
  /\ pc \in {"extra", "body", "call", "reply"} => reading > 0 /\ key = reading

\* Where the loop is in a regular request.
Current(s) ==
  \/ pc = "key" /\ rest = s /\ responses[reading] = << >>
  \/ pc = "key" /\ rest = << >> /\ responses[reading] = <<Outcome(s)>>
  \/ pc = "extra" /\ s[1] \notin Supported /\ code = 404 /\ responses[reading] = << >>
  \/ /\ pc = "body" /\ s[1] \in Supported /\ Len(s) = 2
     /\ rest = <<s[2]>> /\ responses[reading] = << >>
  \/ /\ pc = "call" /\ s[1] \in Supported /\ Len(s) = 2
     /\ body = s[2] /\ body \in {"good", "refused"}
     /\ rest = << >> /\ responses[reading] = << >>
  \/ pc = "reply" /\ code = Outcome(s) /\ rest = << >> /\ responses[reading] = << >>
  \/ pc = "stopped"

NotYet == \A n \in Numbers : n > reading => responses[n] = << >>

Before ==
  \A n \in 1..Len(requests) :
    n < reading /\ Regular(requests[n]) => responses[n] = <<Outcome(requests[n])>>

Now == reading > 0 /\ Regular(requests[reading]) => Current(requests[reading])

\* A ZMQ_REP socket owes a reply exactly while the loop has one to give for a
\* request it has read to the end.
Owes ==
  pc # "stopped" =>
    (replying <=> blocking /\ pc \in {"call", "reply"} /\ rest = << >>)

Answers == Whole /\ NotYet /\ Before /\ Now /\ Owes /\ AllCallsWhole

IInv == TypeOK /\ (FullSent => Answers) /\ StopsOnlyOnMalformed
-----------------------------------------------------------------------------
\* The loop's variables stay in their types from one step to the next.
LEMMA TypeStep == TypeOK /\ [Next]_vars => TypeOK'
<1> SUFFICES ASSUME TypeOK, [Next]_vars PROVE TypeOK'
  OBVIOUS
<1>0. requests \in Seq(Shapes) /\ requests \in Seq(Seq(Frames))
  BY DEF TypeOK
<1>1. ASSUME NEW s \in Shapes, SendRequest(s) PROVE TypeOK'
  <2>1. Len(requests') = Len(requests) + 1
    BY <1>1 DEF SendRequest, TypeOK
  <2> QED
    BY <1>1, <2>1 DEF SendRequest, TypeOK
<1>2. CASE Deliver
  <2>1. requests[reading + 1] \in Seq(Frames)
    BY <1>2, <1>0 DEF Deliver, TypeOK
  <2> QED
    BY <1>2, <2>1 DEF Deliver, TypeOK
<1>3. ASSUME NEW f \in Frames, Take(f)
      PROVE  rest' \in Seq(Frames) /\ replying' \in BOOLEAN
  <2>1. rest' \in Seq(Frames)
    BY <1>3 DEF Take, TypeOK
  <2>2. replying' \in BOOLEAN
    BY <1>3, Zenon DEF Take
  <2> QED
    BY <2>1, <2>2
<1>4. CASE SkipEmpty
  BY <1>4, <1>3 DEF SkipEmpty, TypeOK, Frames
<1>5. CASE ReceiveThrows
  BY <1>5 DEF ReceiveThrows, TypeOK
<1>6. ASSUME NEW f \in Frames, ReadKey(f) PROVE TypeOK'
  <2>1. rest' \in Seq(Frames) /\ replying' \in BOOLEAN
    BY <1>6, <1>3 DEF ReadKey
  <2>2. key' \in 0..MaxRequests
    BY <1>6 DEF ReadKey, TypeOK
  <2>3. pc' \in {"extra", "body", "reply"} /\ code' \in Codes
    BY <1>6 DEF ReadKey, OnKey, Codes
  <2> QED
    BY <1>6, <2>1, <2>2, <2>3 DEF ReadKey, TypeOK
<1>7. ASSUME NEW f \in Frames, ReadExtra(f) PROVE TypeOK'
  <2>1. rest' \in Seq(Frames) /\ replying' \in BOOLEAN
    BY <1>7, <1>3 DEF ReadExtra
  <2> QED
    BY <1>7, <2>1 DEF ReadExtra, TypeOK
<1>8. ASSUME NEW f \in Frames, ReadBody(f) PROVE TypeOK'
  <2>1. rest' \in Seq(Frames) /\ replying' \in BOOLEAN
    BY <1>8, <1>3 DEF ReadBody
  <2> QED
    BY <1>8, <2>1 DEF ReadBody, TypeOK, Codes
<1>9. CASE CallApi
  <2>1. [key |-> key, body |-> reading] \in [key : 0..MaxRequests, body : 0..MaxRequests]
    BY DEF TypeOK
  <2>2. calls' \in Seq([key : 0..MaxRequests, body : 0..MaxRequests])
    <3> DEFINE C == [key : 0..MaxRequests, body : 0..MaxRequests]
    <3>1. \A c \in C : Append(calls, c) \in Seq(C)
      BY DEF TypeOK
    <3>2. calls' = calls \/ calls' = Append(calls, [key |-> key, body |-> reading])
      BY <1>9 DEF CallApi
    <3> QED
      BY <2>1, <3>1, <3>2 DEF TypeOK
  <2> QED
    BY <1>9, <2>2 DEF CallApi, TypeOK, Codes
<1>10. CASE AfterMessage
  <2>1. responses' \in [Numbers -> Seq(Codes)]
    <3>1. \A n \in Numbers : Append(responses[n], code) \in Seq(Codes)
      BY DEF TypeOK
    <3>2. responses' = [responses EXCEPT ![key] = Append(responses[key], code)]
      BY <1>10 DEF AfterMessage, Answer
    <3> HIDE DEF Numbers, Codes
    <3> QED
      BY <3>1, <3>2 DEF TypeOK
  <2> QED
    BY <1>10, <2>1 DEF AfterMessage, Answer, TypeOK
<1>11. CASE ReplyThrows
  BY <1>11 DEF ReplyThrows, TypeOK
<1>12. CASE UNCHANGED vars
  BY <1>12 DEF vars, TypeOK
<1> QED
  BY <1>1, <1>2, <1>4, <1>5, <1>6, <1>7, <1>8, <1>9, <1>10, <1>11, <1>12 DEF Next, Loop

\* The loop starts in its types.
LEMMA InitType == Init => TypeOK
<1> SUFFICES ASSUME Init PROVE TypeOK
  OBVIOUS
<1>1. /\ requests \in Seq(Shapes) /\ Len(requests) = 0
      /\ calls \in Seq([key : 0..MaxRequests, body : 0..MaxRequests])
  BY DEF Init
<1>2. responses \in [Numbers -> Seq(Codes)] /\ rest \in Seq(Frames)
  BY DEF Init
<1>3. replying \in BOOLEAN
  BY Zenon DEF Init
<1> QED
  BY <1>1, <1>2, <1>3 DEF Init, TypeOK, Frames, Codes

\* The state of the loop always has its type: the response code is one of the
\* codes handleReactorInboundMessages sets, and no more requests are read than
\* were sent.
THEOREM TypeCorrect == Spec => []TypeOK
<1> QED
  BY InitType, TypeStep, PTL DEF Spec
-----------------------------------------------------------------------------
\* Sending a request leaves the earlier ones as they are; nothing else touches
\* the requests.
LEMMA RequestsGrow ==
  ASSUME TypeOK, [Next]_vars
  PROVE  /\ Len(requests') >= Len(requests)
         /\ \A n \in 1..Len(requests) : requests'[n] = requests[n]
<1>1. ASSUME NEW s \in Shapes, SendRequest(s)
      PROVE  /\ Len(requests') >= Len(requests)
             /\ \A n \in 1..Len(requests) : requests'[n] = requests[n]
  BY <1>1 DEF SendRequest, TypeOK
<1>2. requests' = requests \/ \E s \in Shapes : SendRequest(s)
  BY DEF Next, Loop, Deliver, SkipEmpty, ReceiveThrows, ReadKey, ReadExtra, ReadBody,
         CallApi, AfterMessage, ReplyThrows, vars
<1> QED
  BY <1>1, <1>2 DEF TypeOK

\* The tail of a sequence of one or of two frames.
LEMMA ShortTails ==
  ASSUME NEW s \in Seq(Frames)
  PROVE  /\ Len(s) = 1 => Tail(s) = << >>
         /\ Len(s) = 2 => Tail(s) = <<s[2]>>
         /\ s # << >> => Head(s) = s[1] /\ Len(s) > 0 /\ Len(Tail(s)) = Len(s) - 1
         /\ Full(s) /\ s # << >> => Full(Tail(s))
<1>1. ASSUME Len(s) = 1 PROVE Tail(s) = << >>
  <2>1. Tail(s) \in Seq(Frames) /\ Len(Tail(s)) = 0
    BY <1>1, HeadTailProperties
  <2> QED
    BY <2>1, EmptySeq
<1>2. ASSUME Len(s) = 2 PROVE Tail(s) = <<s[2]>>
  <2> DEFINE t == Tail(s)
             u == <<s[2]>>
  <2>1. s # << >> /\ s[2] \in Frames
    BY <1>2
  <2>2. t \in Seq(Frames) /\ Len(t) = 1 /\ t[1] = s[2]
    <3>1. /\ Tail(s) \in Seq(Frames) /\ Len(Tail(s)) = Len(s) - 1
          /\ \A i \in 1..Len(Tail(s)) : Tail(s)[i] = s[i + 1]
      BY <2>1, HeadTailProperties, Zenon
    <3>2. Len(Tail(s)) = 1
      BY <1>2, <3>1
    <3>3. 1 \in 1..Len(Tail(s)) /\ 1 + 1 = 2
      BY <3>2
    <3>4. Tail(s)[1] = s[1 + 1]
      BY <3>1, <3>3, Zenon
    <3> QED
      BY <3>1, <3>2, <3>3, <3>4, Zenon
  <2>3. u \in Seq(Frames) /\ Len(u) = 1 /\ u[1] = s[2]
    BY <2>1
  <2> HIDE DEF t, u
  <2>4. Len(t) = Len(u) /\ \A i \in 1..Len(t) : t[i] = u[i]
    BY <2>2, <2>3
  <2>5. t = u
    BY <2>2, <2>3, <2>4, SeqEqual
  <2> QED
    BY <2>5 DEF t, u
<1>3. s # << >> => Head(s) = s[1] /\ Len(s) > 0 /\ Len(Tail(s)) = Len(s) - 1
  OBVIOUS
<1>4. Full(s) /\ s # << >> => Full(Tail(s))
  BY DEF Full
<1> QED
  BY <1>1, <1>2, <1>3, <1>4

\* The request being read is a non-empty sequence of frames.
LEMMA RequestIsFrames ==
  ASSUME TypeOK, NEW n \in 1..Len(requests)
  PROVE  requests[n] \in Seq(Frames) /\ requests[n] # << >> /\ n \in Numbers
<1>1. requests[n] \in Shapes
  BY DEF TypeOK
<1>2. n \in Numbers
  BY DEF TypeOK, Numbers
<1> QED
  BY <1>1, <1>2
-----------------------------------------------------------------------------
(***************************************************************************)
(* Each action preserves Answers.                                          *)
(***************************************************************************)

LEMMA SendAnswers ==
  ASSUME TypeOK, Answers, NEW s \in Shapes, SendRequest(s)
  PROVE  Answers'
<1>1. /\ Len(requests') = Len(requests) + 1
      /\ \A n \in 1..Len(requests) : requests'[n] = requests[n]
  BY DEF SendRequest, TypeOK
<1>2. /\ UNCHANGED <<blocking, reading, rest, replying, pc, key, body, code, responses, calls>>
      /\ reading \in 0..Len(requests) /\ Len(requests) \in Nat
  BY DEF SendRequest, TypeOK
<1>3. Whole' /\ NotYet' /\ Owes' /\ AllCallsWhole'
  BY <1>2 DEF Answers, Whole, Full, NotYet, Owes, AllCallsWhole
<1>4. Before'
  BY <1>1, <1>2 DEF Answers, Before
<1>5. Now'
  BY <1>1, <1>2 DEF Answers, Now, Current
<1> QED
  BY <1>3, <1>4, <1>5 DEF Answers

LEMMA DeliverAnswers ==
  ASSUME TypeOK, FullSent, Answers, Deliver
  PROVE  Answers'
<1>1. pc = "key" /\ rest = << >>
  BY DEF Deliver, InReceive, Answers, Whole
<1>2. /\ reading + 1 \in 1..Len(requests) /\ reading' = reading + 1
      /\ rest' = requests[reading + 1]
      /\ UNCHANGED <<blocking, requests, replying, pc, key, body, code, responses, calls>>
  BY DEF Deliver, TypeOK
<1>3. requests[reading + 1] # << >> /\ reading + 1 \in Numbers
  BY <1>2, RequestIsFrames
<1>4. Whole'
  <2>1. Full(rest')
    BY <1>2 DEF FullSent
  <2>2. reading' > 0 /\ pc' = "key"
    BY <1>1, <1>2 DEF TypeOK
  <2> QED
    BY <2>1, <2>2 DEF Whole, Full
<1>5. NotYet' /\ AllCallsWhole'
  BY <1>2 DEF Answers, NotYet, AllCallsWhole, TypeOK, Numbers
<1>6. Owes'
  BY <1>1, <1>2 DEF Answers, Owes
<1>7. Before'
  <2> SUFFICES ASSUME NEW n \in 1..Len(requests), n < reading + 1, Regular(requests[n])
               PROVE  responses[n] = <<Outcome(requests[n])>>
    BY <1>2 DEF Before
  <2>1. CASE n < reading
    BY <2>1 DEF Answers, Before
  <2>2. CASE n = reading
    <3>1. requests[n] # << >>
      BY RequestIsFrames
    <3> QED
      BY <1>1, <2>2, <3>1 DEF Answers, Now, Current, TypeOK
  <2> QED
    BY <2>1, <2>2 DEF TypeOK
<1>8. Now'
  <2>1. responses[reading + 1] = << >>
    BY <1>3 DEF Answers, NotYet, TypeOK
  <2> QED
    BY <1>1, <1>2, <2>1 DEF Now, Current
<1> QED
  BY <1>4, <1>5, <1>6, <1>7, <1>8 DEF Answers

\* What every action that reads a frame has in common.
LEMMA TakeAnswers ==
  ASSUME TypeOK, Answers, NEW f \in Frames, Take(f),
         UNCHANGED <<requests, reading, responses, calls>>
  PROVE  /\ reading \in 1..Len(requests) /\ reading \in Numbers
         /\ requests[reading] \in Seq(Frames) /\ requests[reading] # << >>
         /\ rest \in Seq(Frames) /\ rest # << >> /\ f = rest[1] /\ f # "empty"
         /\ rest' = Tail(rest) /\ Full(rest')
         /\ Len(rest) = 1 <=> rest' = << >>
         /\ Len(rest) > 1 <=> rest' # << >>
         /\ NotYet' /\ Before' /\ AllCallsWhole'
<1>1. rest \in Seq(Frames) /\ rest # << >> /\ f = Head(rest) /\ rest' = Tail(rest)
  BY DEF Take, TypeOK
<1>2. f = rest[1] /\ Len(rest) \in Nat /\ Len(rest) > 0 /\ Len(rest') = Len(rest) - 1
  BY <1>1, ShortTails
<1>3. f # "empty" /\ Full(rest')
  BY <1>1, <1>2, ShortTails DEF Answers, Whole, Full
<1>4. reading \in 1..Len(requests)
  BY <1>1 DEF Answers, Whole, TypeOK
<1>5. requests[reading] \in Seq(Frames) /\ requests[reading] # << >> /\ reading \in Numbers
  BY <1>4, RequestIsFrames
<1>6. NotYet' /\ Before' /\ AllCallsWhole'
  BY DEF Answers, NotYet, Before, AllCallsWhole
<1>7. rest' \in Seq(Frames)
  BY <1>1
<1>8. (Len(rest) = 1 <=> rest' = << >>) /\ (Len(rest) > 1 <=> rest' # << >>)
  BY <1>2, <1>7
<1> QED
  BY <1>1, <1>2, <1>3, <1>4, <1>5, <1>6, <1>8

LEMMA ReadKeyAnswers ==
  ASSUME TypeOK, Answers, NEW f \in Frames, ReadKey(f)
  PROVE  Answers'
<1>1. /\ pc = "key" /\ Take(f) /\ key' = reading /\ OnKey(f)
      /\ UNCHANGED <<requests, reading, responses, calls>>
  BY DEF ReadKey
<1> DEFINE s == requests[reading]
<1>2. /\ reading \in 1..Len(requests) /\ reading \in Numbers
      /\ s \in Seq(Frames) /\ s # << >>
      /\ rest \in Seq(Frames) /\ rest # << >> /\ f = rest[1] /\ f # "empty"
      /\ rest' = Tail(rest) /\ Full(rest')
      /\ Len(rest) = 1 <=> rest' = << >>
      /\ Len(rest) > 1 <=> rest' # << >>
      /\ NotYet' /\ Before' /\ AllCallsWhole'
  BY <1>1, TakeAnswers
<1>3. \/ f \in Supported /\ Len(rest) > 1 /\ f \in Mapped /\ pc' = "body"
      \/ f \in Supported /\ ~(Len(rest) > 1 /\ f \in Mapped) /\ pc' = "reply"
           /\ code' = IF Len(rest) > 1 THEN 503 ELSE 500
      \/ f \notin Supported /\ Len(rest) > 1 /\ pc' = "extra" /\ code' = 404
      \/ f \notin Supported /\ ~(Len(rest) > 1) /\ pc' = "reply" /\ code' = 404
  BY <1>1 DEF OnKey, More
<1>4. Whole'
  BY <1>1, <1>2, <1>3 DEF Whole
<1>5. Owes'
  <2>1. (replying' <=> blocking /\ Len(rest) = 1) /\ blocking' = blocking
    BY Zenon DEF ReadKey, Take
  <2> QED
    BY <1>2, <1>3, <2>1 DEF Owes
<1>6. Now'
  <2> SUFFICES ASSUME Regular(s) PROVE Current(s)'
    BY <1>1 DEF Now
  <2>1. rest = s /\ responses[reading] = << >>
    BY <1>1, <1>2 DEF Answers, Now, Current
  <2>2. Len(s) \in Nat /\ Len(s) > 0
    BY <1>2, EmptySeq
  <2>3. CASE f \in Supported /\ Len(s) > 1
    <3>1. Len(s) = 2 /\ f \in Mapped
      BY <1>2, <2>1, <2>3 DEF Regular
    <3>2. rest' = <<s[2]>>
      BY <1>2, <2>1, <3>1, ShortTails
    <3>3. pc' = "body"
      BY <1>3, <2>1, <2>3, <3>1
    <3> QED
      BY <1>1, <1>2, <2>1, <2>3, <3>1, <3>2, <3>3 DEF Current
  <2>4. CASE f \in Supported /\ ~(Len(s) > 1)
    <3>1. Len(s) = 1 /\ pc' = "reply" /\ code' = 500 /\ rest' = << >>
      BY <1>2, <1>3, <2>1, <2>2, <2>4
    <3>2. Outcome(s) = 500
      BY <1>2, <2>1, <2>4, <3>1 DEF Outcome
    <3> QED
      BY <1>1, <2>1, <3>1, <3>2 DEF Current
  <2>5. CASE f \notin Supported
    <3>1. Outcome(s) = 404
      BY <1>2, <2>1, <2>5 DEF Outcome
    <3>2. code' = 404 /\ (pc' = "extra" \/ (pc' = "reply" /\ ~(Len(rest) > 1)))
      BY <1>1, <1>2, <2>5 DEF OnKey, More
    <3>3. ~(Len(rest) > 1) => rest' = << >>
      BY <1>2
    <3> QED
      BY <1>1, <1>2, <2>1, <2>5, <3>1, <3>2, <3>3 DEF Current
  <2> QED
    BY <2>3, <2>4, <2>5
<1> QED
  BY <1>2, <1>4, <1>5, <1>6 DEF Answers

LEMMA ReadExtraAnswers ==
  ASSUME TypeOK, Answers, NEW f \in Frames, ReadExtra(f)
  PROVE  Answers'
<1>1. /\ pc = "extra" /\ Take(f) /\ pc' = (IF Len(rest) > 1 THEN "extra" ELSE "reply")
      /\ UNCHANGED <<requests, reading, key, code, responses, calls>>
  BY DEF ReadExtra, More
<1> DEFINE s == requests[reading]
<1>2. /\ reading \in 1..Len(requests) /\ reading \in Numbers
      /\ rest \in Seq(Frames) /\ rest # << >> /\ Full(rest')
      /\ Len(rest) = 1 <=> rest' = << >>
      /\ Len(rest) > 1 <=> rest' # << >>
      /\ NotYet' /\ Before' /\ AllCallsWhole'
  BY <1>1, TakeAnswers
<1>3. Len(rest) \in Nat /\ Len(rest) > 0
  BY <1>2, EmptySeq
<1>4. Whole'
  BY <1>1, <1>2, <1>3 DEF Answers, Whole
<1>5. Owes'
  <2>1. (replying' <=> blocking /\ Len(rest) = 1) /\ blocking' = blocking
    BY Zenon DEF ReadExtra, Take
  <2> QED
    BY <1>1, <1>2, <1>3, <2>1 DEF Owes
<1>6. Now'
  <2> SUFFICES ASSUME Regular(s) PROVE Current(s)'
    BY <1>1 DEF Now
  <2>1. s[1] \notin Supported /\ code = 404 /\ responses[reading] = << >>
    BY <1>1, <1>2 DEF Answers, Now, Current
  <2>2. Outcome(s) = 404
    BY <2>1 DEF Outcome
  <2> QED
    BY <1>1, <1>2, <1>3, <2>1, <2>2 DEF Current
<1> QED
  BY <1>2, <1>4, <1>5, <1>6 DEF Answers

LEMMA ReadBodyAnswers ==
  ASSUME TypeOK, Answers, NEW f \in Frames, ReadBody(f)
  PROVE  Answers'
<1>1. /\ pc = "body" /\ Take(f) /\ body' = f
      /\ UNCHANGED <<requests, reading, key, responses, calls>>
      /\ IF ~(Len(rest) > 1) /\ f \in {"good", "refused"}
           THEN pc' = "call" /\ code' = code
           ELSE pc' = "reply" /\ code' = 400
  BY DEF ReadBody, More
<1> DEFINE s == requests[reading]
<1>2. /\ reading \in 1..Len(requests) /\ reading \in Numbers
      /\ s \in Seq(Frames) /\ rest \in Seq(Frames) /\ rest # << >> /\ f = rest[1]
      /\ Full(rest')
      /\ Len(rest) = 1 <=> rest' = << >>
      /\ Len(rest) > 1 <=> rest' # << >>
      /\ NotYet' /\ Before' /\ AllCallsWhole'
  BY <1>1, TakeAnswers
<1>3. Len(rest) \in Nat /\ Len(rest) > 0
  BY <1>2, EmptySeq
<1>4. Whole'
  BY <1>1, <1>2, <1>3 DEF Answers, Whole
<1>5. Owes'
  <2>1. (replying' <=> blocking /\ Len(rest) = 1) /\ blocking' = blocking
    BY Zenon DEF ReadBody, Take
  <2> QED
    BY <1>1, <1>2, <1>3, <2>1 DEF Owes
<1>6. Now'
  <2> SUFFICES ASSUME Regular(s) PROVE Current(s)'
    BY <1>1 DEF Now
  <2>1. s[1] \in Supported /\ Len(s) = 2 /\ rest = <<s[2]>> /\ responses[reading] = << >>
    BY <1>1, <1>2 DEF Answers, Now, Current
  <2>2. Len(rest) = 1 /\ f = s[2] /\ rest' = << >>
    BY <1>2, <2>1
  <2>3. CASE f \in {"good", "refused"}
    BY <1>1, <2>1, <2>2, <2>3 DEF Current
  <2>4. CASE f \notin {"good", "refused"}
    <3>1. Outcome(s) = 400
      BY <2>1, <2>2, <2>4 DEF Outcome
    <3> QED
      BY <1>1, <2>1, <2>2, <2>4, <3>1 DEF Current
  <2> QED
    BY <2>3, <2>4
<1> QED
  BY <1>2, <1>4, <1>5, <1>6 DEF Answers

LEMMA CallApiAnswers ==
  ASSUME TypeOK, Answers, CallApi
  PROVE  Answers'
<1>1. /\ pc = "call" /\ pc' = "reply"
      /\ UNCHANGED <<blocking, requests, reading, rest, replying, key, body, responses>>
      /\ body = "good" => code' = 200
      /\ body # "good" => code' = 502
      /\ calls' = calls \/ calls' = Append(calls, [key |-> key, body |-> reading])
  BY DEF CallApi
<1>2. key = reading
  BY <1>1 DEF Answers, Whole
<1>3. AllCallsWhole'
  <2> DEFINE c == [key |-> key, body |-> reading]
  <2>1. calls \in Seq([key : 0..MaxRequests, body : 0..MaxRequests])
        /\ c \in [key : 0..MaxRequests, body : 0..MaxRequests] /\ c.key = c.body
    BY <1>2 DEF TypeOK
  <2>2. \A i \in 1..Len(calls) : calls[i].key = calls[i].body
    BY DEF Answers, AllCallsWhole
  <2> HIDE DEF c
  <2>3. CASE calls' = calls
    BY <2>2, <2>3 DEF AllCallsWhole
  <2>4. CASE calls' = Append(calls, c)
    <3>1. Len(calls') = Len(calls) + 1 /\ calls'[Len(calls) + 1] = c
          /\ \A i \in 1..Len(calls) : calls'[i] = calls[i]
      <4> DEFINE S == [key : 0..MaxRequests, body : 0..MaxRequests]
      <4>1. calls \in Seq(S) /\ c \in S
        BY <2>1
      <4> HIDE DEF S
      <4> QED
        BY <2>4, <4>1, AppendProperties
    <3>2. /\ Len(calls) \in Nat
          /\ \A i \in 1..(Len(calls) + 1) : i \in 1..Len(calls) \/ i = Len(calls) + 1
      BY <2>1
    <3>3. \A i \in 1..Len(calls') : i \in 1..Len(calls) \/ i = Len(calls) + 1
      BY <3>1, <3>2, Zenon
    <3>4. \A i \in 1..Len(calls') : calls'[i].key = calls'[i].body
      BY <2>1, <2>2, <3>1, <3>3, Zenon
    <3> QED
      BY <3>4 DEF AllCallsWhole
  <2> QED
    BY <1>1, <2>3, <2>4 DEF c
<1>4. Whole' /\ NotYet' /\ Before'
  BY <1>1 DEF Answers, Whole, Full, NotYet, Before
<1>5. Owes'
  BY <1>1 DEF Answers, Owes
<1>6. Now'
  <2> DEFINE s == requests[reading]
  <2> SUFFICES ASSUME reading > 0, Regular(s) PROVE Current(s)'
    BY <1>1 DEF Now
  <2>1. /\ s[1] \in Supported /\ Len(s) = 2 /\ body = s[2] /\ body \in {"good", "refused"}
        /\ rest = << >> /\ responses[reading] = << >>
    BY <1>1 DEF Answers, Now, Current
  <2>2. code' = Outcome(s)
    BY <1>1, <2>1 DEF Outcome
  <2> QED
    BY <1>1, <2>1, <2>2 DEF Current
<1> QED
  BY <1>3, <1>4, <1>5, <1>6 DEF Answers

LEMMA AfterMessageAnswers ==
  ASSUME TypeOK, Answers, AfterMessage
  PROVE  Answers'
<1>1. /\ pc = "reply" /\ pc' = "key" /\ (blocking => replying) /\ ~replying'
      /\ responses' = [responses EXCEPT ![key] = Append(responses[key], code)]
      /\ UNCHANGED <<requests, reading, rest, key, body, code, calls>>
  BY DEF AfterMessage, Answer
<1>2. reading > 0 /\ key = reading /\ reading \in Numbers /\ reading \in 1..Len(requests)
  BY <1>1 DEF Answers, Whole, TypeOK, Numbers
<1>3. /\ responses'[reading] = Append(responses[reading], code)
      /\ \A n \in Numbers : n # reading => responses'[n] = responses[n]
  BY <1>1, <1>2 DEF TypeOK
<1>4. Whole' /\ AllCallsWhole'
  BY <1>1 DEF Answers, Whole, Full, AllCallsWhole
<1>5. NotYet'
  BY <1>1, <1>2, <1>3 DEF Answers, NotYet, Numbers
<1>6. Before'
  <2> SUFFICES ASSUME NEW n \in 1..Len(requests), n < reading, Regular(requests[n])
               PROVE  responses'[n] = <<Outcome(requests[n])>>
    BY <1>1 DEF Before
  <2>1. n \in Numbers /\ n # reading
    BY DEF TypeOK, Numbers
  <2> QED
    BY <1>3, <2>1 DEF Answers, Before
<1>7. Owes'
  BY <1>1 DEF Owes
<1>8. Now'
  <2> DEFINE s == requests[reading]
  <2> SUFFICES ASSUME Regular(s) PROVE Current(s)'
    BY <1>1 DEF Now
  <2>1. code = Outcome(s) /\ rest = << >> /\ responses[reading] = << >>
    BY <1>1, <1>2 DEF Answers, Now, Current
  <2>2. responses'[reading] = <<Outcome(s)>>
    BY <1>3, <2>1
  <2> QED
    BY <1>1, <2>1, <2>2 DEF Current
<1> QED
  BY <1>4, <1>5, <1>6, <1>7, <1>8 DEF Answers

\* The two actions that stop the reactor.
LEMMA ThrowAnswers ==
  ASSUME TypeOK, Answers, ReceiveThrows \/ ReplyThrows
  PROVE  Answers'
<1>1. pc' = "stopped"
      /\ UNCHANGED <<blocking, requests, reading, rest, replying, key, body, code,
                     responses, calls>>
  BY DEF ReceiveThrows, ReplyThrows
<1>2. Whole' /\ NotYet' /\ Before' /\ AllCallsWhole'
  BY <1>1 DEF Answers, Whole, Full, NotYet, Before, AllCallsWhole
<1>3. Owes' /\ Now'
  BY <1>1 DEF Owes, Now, Current
<1> QED
  BY <1>2, <1>3 DEF Answers
-----------------------------------------------------------------------------
\* Every step preserves the inductive invariant.
LEMMA IInvStep == IInv /\ [Next]_vars => IInv'
<1> SUFFICES ASSUME IInv, [Next]_vars PROVE IInv'
  OBVIOUS
<1>1. TypeOK /\ TypeOK'
  BY TypeStep DEF IInv
<1>2. /\ Len(requests') >= Len(requests) /\ Len(requests) \in Nat /\ Len(requests') \in Nat
      /\ \A n \in 1..Len(requests) : requests'[n] = requests[n]
  <2>1. Len(requests) \in Nat /\ Len(requests') \in Nat
    BY <1>1 DEF TypeOK
  <2>2. /\ Len(requests') >= Len(requests)
        /\ \A n \in 1..Len(requests) : requests'[n] = requests[n]
    BY <1>1, RequestsGrow, Zenon
  <2> QED
    BY <2>1, <2>2, Zenon
<1>3. FullSent' => FullSent
  BY <1>2 DEF FullSent
<1>4. ASSUME FullSent' PROVE Answers'
  <2>1. FullSent /\ Answers
    BY <1>3, <1>4 DEF IInv
  <2>2. ASSUME NEW s \in Shapes, SendRequest(s) PROVE Answers'
    BY <1>1, <2>1, <2>2, SendAnswers
  <2>3. CASE Deliver
    BY <1>1, <2>1, <2>3, DeliverAnswers
  <2>4. CASE SkipEmpty
    <3>1. rest # << >> /\ Head(rest) = "empty" /\ rest \in Seq(Frames)
      BY <1>1, <2>4 DEF SkipEmpty, Take, TypeOK
    <3>2. rest[1] = "empty" /\ 1 \in 1..Len(rest)
      BY <3>1
    <3> QED
      BY <2>1, <3>2 DEF Answers, Whole, Full
  <2>5. ASSUME NEW f \in Frames, ReadKey(f) PROVE Answers'
    BY <1>1, <2>1, <2>5, ReadKeyAnswers
  <2>6. ASSUME NEW f \in Frames, ReadExtra(f) PROVE Answers'
    BY <1>1, <2>1, <2>6, ReadExtraAnswers
  <2>7. ASSUME NEW f \in Frames, ReadBody(f) PROVE Answers'
    BY <1>1, <2>1, <2>7, ReadBodyAnswers
  <2>8. CASE CallApi
    BY <1>1, <2>1, <2>8, CallApiAnswers
  <2>9. CASE AfterMessage
    BY <1>1, <2>1, <2>9, AfterMessageAnswers
  <2>10. CASE ReceiveThrows \/ ReplyThrows
    BY <1>1, <2>1, <2>10, ThrowAnswers
  <2>11. CASE UNCHANGED vars
    BY <2>1, <2>11 DEF vars, Answers, Whole, Full, NotYet, Before, Now, Current, Owes,
                       AllCallsWhole
  <2> QED
    BY <2>2, <2>3, <2>4, <2>5, <2>6, <2>7, <2>8, <2>9, <2>10, <2>11 DEF Next, Loop
<1>5. StopsOnlyOnMalformed'
  <2> SUFFICES ASSUME pc' = "stopped"
               PROVE  \E n \in 1..Len(requests') : ~Regular(requests'[n])
    BY DEF StopsOnlyOnMalformed
  <2> SUFFICES \E n \in 1..Len(requests) : ~Regular(requests[n])
    BY <1>2
  <2>1. CASE pc = "stopped"
    BY <2>1 DEF IInv, StopsOnlyOnMalformed
  <2>2. CASE pc # "stopped"
    <3>1. CASE ~FullSent
      BY <3>1 DEF FullSent, Full, Regular
    <3>2. CASE FullSent
      <4>1. Answers
        BY <3>2 DEF IInv
      <4>2. ~ReceiveThrows
        BY <2>2, <4>1 DEF ReceiveThrows, InReceive, MayReceive, Answers, Owes
      <4>3. ReplyThrows
        BY <2>2, <4>2 DEF Next, Loop, Deliver, SkipEmpty, ReadKey, OnKey, ReadExtra,
                 ReadBody, CallApi, AfterMessage, Answer, SendRequest, vars
      <4>4. pc = "reply" /\ rest # << >>
        BY <4>1, <4>3 DEF ReplyThrows, Answers, Owes
      <4>5. reading \in 1..Len(requests)
        BY <1>1, <4>1, <4>4 DEF Answers, Whole, TypeOK
      <4>6. ~Regular(requests[reading])
        BY <4>1, <4>4, <4>5 DEF Answers, Now, Current
      <4> QED
        BY <4>5, <4>6
    <3> QED
      BY <3>1, <3>2
  <2> QED
    BY <2>1, <2>2
<1> QED
  BY <1>1, <1>4, <1>5 DEF IInv

\* The inductive invariant holds of every behaviour of the loop.
LEMMA IInvHolds == Spec => []IInv
<1>1. Init => IInv
  <2> SUFFICES ASSUME Init PROVE IInv
    OBVIOUS
  <2>1. TypeOK
    BY InitType
  <2>2. Answers
    <3>1. Len(requests) = 0 /\ Len(rest) = 0 /\ Len(calls) = 0
      BY DEF Init
    <3>2. Whole /\ NotYet /\ Before /\ Now /\ AllCallsWhole
      BY <3>1 DEF Init, Whole, Full, NotYet, Before, Now, AllCallsWhole
    <3>3. Owes
      BY Zenon DEF Init, Owes
    <3> QED
      BY <3>2, <3>3 DEF Answers
  <2> QED
    BY <2>1, <2>2 DEF Init, IInv, StopsOnlyOnMalformed
<1> QED
  BY <1>1, IInvStep, PTL DEF Spec

\* As long as no client has sent an empty frame, every request that the loop
\* has gone past and that has the form the loop expects got exactly one
\* response, the one its content deserves, whatever malformed requests were
\* read before it.
THEOREM AnsweredOnce == Spec => []EachAnsweredOnce
<1>1. IInv => EachAnsweredOnce
  <2> SUFFICES ASSUME IInv, FullSent, NEW n \in 1..Len(requests),
                      Regular(requests[n]), Passed(n)
               PROVE  responses[n] = <<Outcome(requests[n])>>
    BY DEF EachAnsweredOnce
  <2>1. Before /\ Now /\ TypeOK
    BY DEF IInv, Answers
  <2>2. requests[n] # << >>
    BY <2>1, RequestIsFrames
  <2>3. CASE n < reading
    BY <2>1, <2>3 DEF Before
  <2>4. CASE n = reading /\ pc = "key" /\ rest = << >>
    BY <2>1, <2>2, <2>4 DEF Now, Current, TypeOK
  <2> QED
    BY <2>3, <2>4 DEF Passed
<1> QED
  BY <1>1, IInvHolds, PTL

\* As long as no client has sent an empty frame, callApi is only called with
\* the body of the request whose key frame selected the message type.
THEOREM WholeCalls == Spec => []CallsAreWhole
<1>1. IInv => CallsAreWhole
  BY DEF IInv, Answers, CallsAreWhole
<1> QED
  BY <1>1, IInvHolds, PTL

\* The reactor's loop ends only after a request that is malformed.
THEOREM StopIsDeserved == Spec => []StopsOnlyOnMalformed
<1>1. IInv => StopsOnlyOnMalformed
  BY DEF IInv
<1> QED
  BY <1>1, IInvHolds, PTL

\* As long as no client has sent an empty frame, the loop that consumes the
\* extra frames of an unsupported message never takes a frame of the next
\* request.
THEOREM OwnExtraFrames == Spec => ExtraFramesAreOwn
<1>1. IInv => [FullSent /\ pc = "extra" /\ rest' # rest => key = reading /\ rest # << >>]_vars
  BY DEF IInv, Answers, Whole
<1> QED
  BY <1>1, IInvHolds, PTL DEF ExtraFramesAreOwn
-----------------------------------------------------------------------------
(***************************************************************************)
(* The conversions of OrderMessages, for every order and message.          *)
(***************************************************************************)
HIDE RequestReactorAssumption

Fields == {"orderId", "action", "totalQuantity", "allOrNone", "minQty", "outsideRth", "tif",
           "lmtPrice", "auxPrice", "orderType"}

\* Any order of the gateway's library: whatever its numbers and words are.
IsOrder(o) ==
  /\ o = [f \in Fields |-> o[f]]
  /\ {o.allOrNone, o.outsideRth} \subseteq BOOLEAN

\* An order is what its fields are.
SameFields(p, q) ==
  /\ p.orderId = q.orderId /\ p.action = q.action /\ p.totalQuantity = q.totalQuantity
  /\ p.allOrNone = q.allOrNone /\ p.minQty = q.minQty /\ p.outsideRth = q.outsideRth
  /\ p.tif = q.tif /\ p.lmtPrice = q.lmtPrice /\ p.auxPrice = q.auxPrice
  /\ p.orderType = q.orderType

LEMMA OrderIsItsFields ==
  ASSUME NEW p, NEW q, p = [f \in Fields |-> p[f]], q = [f \in Fields |-> q[f]],
         SameFields(p, q)
  PROVE  p = q
<1>1. \A f \in Fields : p[f] = q[f]
  BY DEF Fields, SameFields
<1> HIDE DEF Fields
<1>2. [f \in Fields |-> p[f]] = [f \in Fields |-> q[f]]
  BY <1>1
<1> QED
  BY <1>2

\* The fields of a message that carry an order: m says of each what o has.
Carries(kind, o, m) ==
  /\ {"id", "quantity"} \subseteq DOMAIN m
  /\ m["id"] = o.orderId
  /\ m["quantity"] = o.totalQuantity
  /\ "action" \in DOMAIN m <=> o.action \in Actions
  /\ "action" \in DOMAIN m => m["action"] = o.action
  /\ Or(m, "all_or_none", FALSE) = o.allOrNone
  /\ Or(m, "min_quantity", 0) = o.minQty
  /\ Or(m, "outside_rth", FALSE) = o.outsideRth
  /\ Or(m, "time_in_force", "IOC") = IF o.tif \in TimeInForce THEN o.tif ELSE "IOC"
  /\ Prices(kind) \subseteq DOMAIN m
  /\ "limit_price" \in Prices(kind) => m["limit_price"] = o.lmtPrice
  /\ "stop_price" \in Prices(kind) => m["stop_price"] = o.auxPrice

\* What FromOrder sets the fields to, whatever the order.
FromOrderSet(kind, o, m) ==
  /\ m["all_or_none"] = o.allOrNone
  /\ m["min_quantity"] = o.minQty
  /\ m["outside_rth"] = o.outsideRth
  /\ m["id"] = o.orderId
  /\ m["quantity"] = o.totalQuantity
  /\ o.action \in Actions => m["action"] = o.action
  /\ o.tif \in TimeInForce => m["time_in_force"] = o.tif
  /\ "limit_price" \in Prices(kind) => m["limit_price"] = o.lmtPrice
  /\ "stop_price" \in Prices(kind) => m["stop_price"] = o.auxPrice

LEMMA FromOrderSets ==
  ASSUME NEW kind \in Kinds, NEW o
  PROVE  FromOrderSet(kind, o, FromOrder(kind, o))
<1> DEFINE m == FromOrder(kind, o)
<1>1. DOMAIN m = {"id", "action", "quantity", "all_or_none", "min_quantity", "outside_rth",
                  "time_in_force", "limit_price", "stop_price"} \
         ((IF o.action \in Actions THEN {} ELSE {"action"})
               \cup (IF o.tif \in TimeInForce THEN {} ELSE {"time_in_force"})
               \cup ({"limit_price", "stop_price"} \ Prices(kind)))
  BY DEF FromOrder, Restrict
<1>2. \A f \in DOMAIN m : m[f] =
        [id |-> o.orderId, action |-> o.action, quantity |-> o.totalQuantity,
                all_or_none |-> o.allOrNone, min_quantity |-> o.minQty,
                outside_rth |-> o.outsideRth, time_in_force |-> o.tif,
                limit_price |-> o.lmtPrice, stop_price |-> o.auxPrice][f]
  BY DEF FromOrder, Restrict
<1> HIDE DEF m
<1>3. /\ {"id", "quantity", "all_or_none", "min_quantity", "outside_rth"} \subseteq DOMAIN m
      /\ o.action \in Actions => "action" \in DOMAIN m
      /\ o.tif \in TimeInForce => "time_in_force" \in DOMAIN m
      /\ "limit_price" \in Prices(kind) => "limit_price" \in DOMAIN m
      /\ "stop_price" \in Prices(kind) => "stop_price" \in DOMAIN m
  BY <1>1
<1>4. /\ m["all_or_none"] = o.allOrNone
      /\ m["min_quantity"] = o.minQty
      /\ m["outside_rth"] = o.outsideRth
  BY <1>2, <1>3
<1>5. /\ m["id"] = o.orderId
      /\ m["quantity"] = o.totalQuantity
      /\ o.action \in Actions => m["action"] = o.action
  BY <1>2, <1>3
<1>6. /\ o.tif \in TimeInForce => m["time_in_force"] = o.tif
      /\ "limit_price" \in Prices(kind) => m["limit_price"] = o.lmtPrice
      /\ "stop_price" \in Prices(kind) => m["stop_price"] = o.auxPrice
  BY <1>2, <1>3
<1> QED
  BY <1>4, <1>5, <1>6 DEF m, FromOrderSet

\* The gateway's order to a message.
LEMMA FromOrderCarries ==
  ASSUME NEW kind \in Kinds, NEW o, IsOrder(o)
  PROVE  Carries(kind, o, FromOrder(kind, o))
<1> DEFINE m == FromOrder(kind, o)
<1>1. Prices(kind) \subseteq {"limit_price", "stop_price"}
  BY DEF Prices, Kinds, OrderType
<1>2. DOMAIN m = {"id", "action", "quantity", "all_or_none", "min_quantity", "outside_rth",
                  "time_in_force", "limit_price", "stop_price"} \
         ((IF o.action \in Actions THEN {} ELSE {"action"})
          \cup (IF o.tif \in TimeInForce THEN {} ELSE {"time_in_force"})
          \cup ({"limit_price", "stop_price"} \ Prices(kind)))
  BY DEF FromOrder, Restrict
<1>3. FromOrderSet(kind, o, m)
  BY FromOrderSets
<1> HIDE DEF m
<1>4. /\ {"id", "quantity"} \subseteq DOMAIN m
      /\ {"all_or_none", "min_quantity", "outside_rth"} \subseteq DOMAIN m
      /\ "action" \in DOMAIN m <=> o.action \in Actions
      /\ "time_in_force" \in DOMAIN m <=> o.tif \in TimeInForce
      /\ Prices(kind) \subseteq DOMAIN m
  BY <1>1, <1>2
<1>5. Carries(kind, o, m)
  BY <1>3, <1>4 DEF FromOrderSet, Carries, Or
<1> QED
  BY <1>5 DEF m

\* R's list leaves out the flags and the minimal quantity that are the default.
LEMMA FromListCarries ==
  ASSUME NEW kind \in Kinds, NEW o, IsOrder(o)
  PROVE  Carries(kind, o, FromList(kind, o))
<1> DEFINE m == FromOrder(kind, o)
           l == FromList(kind, o)
<1>1. Carries(kind, o, m)
  BY FromOrderCarries
<1>2. DOMAIN l = DOMAIN m \
         ((IF o.allOrNone THEN {} ELSE {"all_or_none"})
          \cup (IF o.minQty # 0 THEN {} ELSE {"min_quantity"})
          \cup (IF o.outsideRth THEN {} ELSE {"outside_rth"}))
  BY DEF FromList, Restrict
<1>3. \A f \in DOMAIN l : l[f] = m[f]
  BY DEF FromList, Restrict
<1>4. o.allOrNone \in BOOLEAN /\ o.outsideRth \in BOOLEAN
  BY DEF IsOrder, Fields
<1>5. Prices(kind) \subseteq {"limit_price", "stop_price"}
  BY DEF Prices, Kinds, OrderType
<1> HIDE DEF m, l
<1>6. /\ {"id", "quantity"} \subseteq DOMAIN l
      /\ "action" \in DOMAIN l <=> "action" \in DOMAIN m
      /\ "time_in_force" \in DOMAIN l <=> "time_in_force" \in DOMAIN m
      /\ Prices(kind) \subseteq DOMAIN l
      /\ "all_or_none" \in DOMAIN l => "all_or_none" \in DOMAIN m /\ o.allOrNone
      /\ "min_quantity" \in DOMAIN l => "min_quantity" \in DOMAIN m /\ o.minQty # 0
      /\ "outside_rth" \in DOMAIN l => "outside_rth" \in DOMAIN m /\ o.outsideRth
  BY <1>1, <1>2, <1>5 DEF Carries
<1>7. /\ "all_or_none" \in DOMAIN m /\ o.allOrNone => "all_or_none" \in DOMAIN l
      /\ "min_quantity" \in DOMAIN m /\ o.minQty # 0 => "min_quantity" \in DOMAIN l
      /\ "outside_rth" \in DOMAIN m /\ o.outsideRth => "outside_rth" \in DOMAIN l
  BY <1>2
<1>8. /\ l["id"] = o.orderId
      /\ l["quantity"] = o.totalQuantity
      /\ "action" \in DOMAIN l => l["action"] = o.action
      /\ "action" \in DOMAIN l <=> o.action \in Actions
  BY <1>1, <1>3, <1>6 DEF Carries
<1>9. Or(l, "all_or_none", FALSE) = o.allOrNone
  BY <1>1, <1>3, <1>4, <1>6, <1>7 DEF Carries, Or
<1>10. Or(l, "min_quantity", 0) = o.minQty
  BY <1>1, <1>3, <1>6, <1>7 DEF Carries, Or
<1>11. Or(l, "outside_rth", FALSE) = o.outsideRth
  BY <1>1, <1>3, <1>4, <1>6, <1>7 DEF Carries, Or
<1>12. Or(l, "time_in_force", "IOC") = IF o.tif \in TimeInForce THEN o.tif ELSE "IOC"
  BY <1>1, <1>3, <1>6 DEF Carries, Or
<1>13. /\ "limit_price" \in Prices(kind) => l["limit_price"] = o.lmtPrice
       /\ "stop_price" \in Prices(kind) => l["stop_price"] = o.auxPrice
  BY <1>1, <1>3, <1>6 DEF Carries
<1>14. Carries(kind, o, l)
  BY <1>6, <1>8, <1>9, <1>10, <1>11, <1>12, <1>13 DEF Carries
<1> QED
  BY <1>14 DEF l

\* A message that carries an order and has a contract is placed as that order.
LEMMA CarriedIsPlaced ==
  ASSUME NEW kind \in Kinds, NEW o, IsOrder(o), NEW m, Carries(kind, o, m),
         o.action \in Actions, "contract" \in DOMAIN m, m["contract"] = "stock"
  PROVE  Placed(kind, m) =
                 {[o EXCEPT !.orderType = OrderType[kind],
                            !.tif = IF @ \in TimeInForce THEN @ ELSE "IOC",
                            !.lmtPrice = IF kind = "MarketOrder" THEN 0 ELSE @,
                            !.auxPrice = IF kind = "StopLimitOrder" THEN @ ELSE 0]}
<1>1. IsInitialized(kind, m)
  <2>1. RequiredPrices[kind] = Prices(kind)
    BY DEF RequiredPrices, Prices, Kinds, OrderType
  <2> QED
    BY <2>1 DEF IsInitialized, Required, Carries
<1>2. Placed(kind, m) = {[ToOrder(kind, m) EXCEPT !.orderType = OrderType[kind]]}
  BY <1>1 DEF Placed, Converts
<1> DEFINE p == [ToOrder(kind, m) EXCEPT !.orderType = OrderType[kind]]
           q == [o EXCEPT !.orderType = OrderType[kind],
                            !.tif = IF @ \in TimeInForce THEN @ ELSE "IOC",
                            !.lmtPrice = IF kind = "MarketOrder" THEN 0 ELSE @,
                            !.auxPrice = IF kind = "StopLimitOrder" THEN @ ELSE 0]
<1>3. q = [f \in Fields |-> q[f]]
  BY DEF IsOrder, Fields
<1>4. p = [f \in Fields |-> p[f]]
  BY DEF ToOrder, NewOrder, Fields
<1>5. /\ "limit_price" \in Prices(kind) <=> kind # "MarketOrder"
      /\ "stop_price" \in Prices(kind) <=> kind = "StopLimitOrder"
  BY DEF Prices, Kinds, OrderType
<1>6. /\ p.orderId = m["id"] /\ p.action = m["action"] /\ p.totalQuantity = m["quantity"]
      /\ p.orderType = OrderType[kind]
  BY DEF ToOrder, NewOrder
<1>7. /\ p.allOrNone = Or(m, "all_or_none", FALSE) /\ p.minQty = Or(m, "min_quantity", 0)
      /\ p.outsideRth = Or(m, "outside_rth", FALSE) /\ p.tif = Or(m, "time_in_force", "IOC")
  BY DEF ToOrder, NewOrder
<1>8. /\ p.lmtPrice = IF "limit_price" \in Prices(kind) THEN m["limit_price"] ELSE 0
      /\ p.auxPrice = IF "stop_price" \in Prices(kind) THEN m["stop_price"] ELSE 0
  BY DEF ToOrder, NewOrder
<1>9. /\ q.orderId = o.orderId /\ q.action = o.action /\ q.totalQuantity = o.totalQuantity
      /\ q.orderType = OrderType[kind] /\ q.allOrNone = o.allOrNone
      /\ q.minQty = o.minQty /\ q.outsideRth = o.outsideRth
  BY DEF IsOrder, Fields
<1>10. /\ q.tif = IF o.tif \in TimeInForce THEN o.tif ELSE "IOC"
       /\ q.lmtPrice = IF kind = "MarketOrder" THEN 0 ELSE o.lmtPrice
       /\ q.auxPrice = IF kind = "StopLimitOrder" THEN o.auxPrice ELSE 0
  BY DEF IsOrder, Fields
<1> HIDE DEF p, q
<1>11. m["action"] = o.action
  BY DEF Carries
<1>12. SameFields(p, q)
  BY <1>5, <1>6, <1>7, <1>8, <1>9, <1>10, <1>11 DEF Carries, SameFields
<1>13. p = q
  BY <1>3, <1>4, <1>12, OrderIsItsFields
<1> QED
  BY <1>2, <1>13 DEF p, q

\* Any order, the gateway's or R's, that is converted to a message and placed is the
\* order it was, up to what OrderArrives says the message cannot carry
\* (marshall_order.cpp's operators << in both directions, callApi).
THEOREM AnyOrderArrives ==
  ASSUME NEW kind \in Kinds, NEW o, IsOrder(o)
  PROVE  OrderArrives(kind, o)
<1> SUFFICES ASSUME NEW converted, Carries(kind, o, converted)
             PROVE  LET m == [f \in DOMAIN converted \cup {"contract"} |->
                                IF f = "contract" THEN "stock" ELSE converted[f]]
                    IN  IF o.action \in Actions
                          THEN Placed(kind, m) =
                 {[o EXCEPT !.orderType = OrderType[kind],
                            !.tif = IF @ \in TimeInForce THEN @ ELSE "IOC",
                            !.lmtPrice = IF kind = "MarketOrder" THEN 0 ELSE @,
                            !.auxPrice = IF kind = "StopLimitOrder" THEN @ ELSE 0]}
                          ELSE Body(kind, m) = "bad"
  BY FromOrderCarries, FromListCarries DEF OrderArrives
<1> DEFINE m == [f \in DOMAIN converted \cup {"contract"} |->
                   IF f = "contract" THEN "stock" ELSE converted[f]]
<1>1. /\ DOMAIN m = DOMAIN converted \cup {"contract"}
      /\ m["contract"] = "stock"
      /\ \A f \in DOMAIN converted \ {"contract"} : m[f] = converted[f]
  OBVIOUS
<1>2. Prices(kind) \subseteq {"limit_price", "stop_price"}
  BY DEF Prices, Kinds, OrderType
<1> HIDE DEF m
<1>3. Carries(kind, o, m)
  BY <1>1, <1>2 DEF Carries, Or
<1>4. CASE o.action \in Actions
  BY <1>1, <1>3, <1>4, CarriedIsPlaced DEF m
<1>5. CASE o.action \notin Actions
  <2>1. "action" \notin DOMAIN m
    BY <1>3, <1>5 DEF Carries
  <2>2. Body(kind, m) = "bad"
    BY <2>1 DEF Body, IsInitialized, Required
  <2> QED
    BY <1>5, <2>2 DEF m
<1> QED
  BY <1>4, <1>5

\* Any message a client can build: an action and a time in force are words of the
\* message, and it has no price that its kind lacks.
IsMessage(kind, m) ==
  /\ DOMAIN m \subseteq Required(kind) \cup Optional
  /\ "action" \in DOMAIN m => m["action"] \in Actions
  /\ "time_in_force" \in DOMAIN m => m["time_in_force"] \in TimeInForce

\* Any message is placed with the fields it sets and the gateway's defaults for the
\* others (marshall_order.cpp's Order << proto::ib::Order, callApi).
THEOREM AnyMessageIsPlaced ==
  ASSUME NEW kind \in Kinds, NEW m, IsMessage(kind, m)
  PROVE  MessageIsPlaced(kind, m)
<1> SUFFICES ASSUME NEW o \in Placed(kind, m)
             PROVE  LET back    == FromOrder(kind, o)
                        default == FromOrder(kind, [NewOrder EXCEPT !.tif = "IOC"])
                    IN  /\ \A f \in DOMAIN m \ {"contract"} : back[f] = m[f]
                        /\ \A f \in Optional \ DOMAIN m : back[f] = default[f]
  BY DEF MessageIsPlaced
<1> DEFINE none    == [NewOrder EXCEPT !.tif = "IOC"]
           back    == FromOrder(kind, o)
           default == FromOrder(kind, none)
<1>1. /\ Required(kind) \subseteq DOMAIN m
      /\ o = [ToOrder(kind, m) EXCEPT !.orderType = OrderType[kind]]
  BY DEF Placed, IsInitialized
<1>2. /\ o.orderId = m["id"] /\ o.action = m["action"] /\ o.totalQuantity = m["quantity"]
  BY <1>1 DEF ToOrder, NewOrder
<1>3. /\ o.allOrNone = Or(m, "all_or_none", FALSE) /\ o.minQty = Or(m, "min_quantity", 0)
      /\ o.outsideRth = Or(m, "outside_rth", FALSE) /\ o.tif = Or(m, "time_in_force", "IOC")
  BY <1>1 DEF ToOrder, NewOrder
<1>4. /\ "limit_price" \in Prices(kind) => o.lmtPrice = m["limit_price"]
      /\ "stop_price" \in Prices(kind) => o.auxPrice = m["stop_price"]
  BY <1>1 DEF ToOrder, NewOrder
<1>5. /\ none.allOrNone = FALSE /\ none.minQty = 0 /\ none.outsideRth = FALSE
      /\ none.tif = "IOC"
  BY DEF NewOrder
<1>6. o.action \in Actions /\ o.tif \in TimeInForce
  BY <1>1, <1>2, <1>3 DEF IsMessage, Required, Or, TimeInForce
<1>7. /\ back["all_or_none"] = o.allOrNone
      /\ back["min_quantity"] = o.minQty
      /\ back["outside_rth"] = o.outsideRth
      /\ back["id"] = o.orderId
      /\ back["quantity"] = o.totalQuantity
      /\ back["action"] = o.action
      /\ back["time_in_force"] = o.tif
      /\ "limit_price" \in Prices(kind) => back["limit_price"] = o.lmtPrice
      /\ "stop_price" \in Prices(kind) => back["stop_price"] = o.auxPrice
  BY <1>6, FromOrderSets DEF FromOrderSet
<1>8. /\ default["all_or_none"] = FALSE
      /\ default["min_quantity"] = 0
      /\ default["outside_rth"] = FALSE
      /\ default["time_in_force"] = "IOC"
  <2> HIDE DEF none
  <2> QED
    BY <1>5, FromOrderSets DEF FromOrderSet, TimeInForce
<1> HIDE DEF none, back, default
<1>9. ASSUME NEW f \in DOMAIN m \ {"contract"}
      PROVE  back[f] = m[f]
  <2>1. RequiredPrices[kind] = Prices(kind)
    BY DEF RequiredPrices, Prices, Kinds, OrderType
  <2>2. Prices(kind) \subseteq {"limit_price", "stop_price"}
    BY DEF Prices, Kinds, OrderType
  <2>3. \/ f \in {"id", "action", "quantity"}
        \/ f \in {"limit_price", "stop_price"} /\ f \in Prices(kind)
        \/ f \in Optional
    BY <2>1, <2>2, <1>9 DEF IsMessage, Required
  <2>4. CASE f \in {"id", "action", "quantity"}
    BY <1>2, <1>7, <2>4
  <2>5. CASE f \in {"limit_price", "stop_price"} /\ f \in Prices(kind)
    BY <1>4, <1>7, <2>5
  <2>6. CASE f \in Optional
    BY <1>3, <1>7, <1>9, <2>6 DEF Optional, Or
  <2> QED
    BY <2>3, <2>4, <2>5, <2>6
<1>10. ASSUME NEW f \in Optional \ DOMAIN m
       PROVE  back[f] = default[f]
  BY <1>3, <1>7, <1>8, <1>10 DEF Optional, Or
<1> QED
  BY <1>9, <1>10 DEF none, back, default

\* The orders and messages of the model-checked instance are some of these.
LEMMA ConversionsAlwaysAgree == ConversionsAgree
<1>1. ASSUME NEW kind \in Kinds, NEW o \in Orders
      PROVE  OrderArrives(kind, o)
  <2>1. o = [f \in Fields |-> o[f]]
    BY DEF Orders, Fields
  <2>2. o.allOrNone \in BOOLEAN /\ o.outsideRth \in BOOLEAN
    BY DEF Orders
  <2> QED
    BY <2>1, <2>2, AnyOrderArrives DEF IsOrder
<1>2. ASSUME NEW kind \in Kinds, NEW m \in Messages(kind)
      PROVE  MessageIsPlaced(kind, m)
  <2> DEFINE full == [id |-> 1, action |-> "SELL", contract |-> "stock", quantity |-> 100,
               all_or_none |-> FALSE, min_quantity |-> 50, outside_rth |-> TRUE,
               time_in_force |-> "GTC", limit_price |-> 7, stop_price |-> 8]
             fields == Required(kind) \cup Optional
             left   == {fields \ S : S \in SUBSET Optional} \cup {fields \ {f} : f \in fields}
  <2>1. /\ full["action"] \in Actions
        /\ full["time_in_force"] \in TimeInForce
    BY DEF Actions, TimeInForce
  <2>2. \A D \in left : D \subseteq fields
    OBVIOUS
  <2>3. \/ \E D \in left : m = Restrict(full, D)
        \/ m = [Restrict(full, fields) EXCEPT !["contract"] = "bare_option"]
        \/ m = [Restrict(full, fields) EXCEPT !["all_or_none"] = TRUE]
        \/ m = [Restrict(full, fields) EXCEPT !["time_in_force"] = "DAY"]
    BY <1>2 DEF Messages
  <2> HIDE DEF full, fields, left
  <2>4. /\ DOMAIN m \subseteq fields
        /\ "action" \in DOMAIN m => m["action"] \in Actions
        /\ "time_in_force" \in DOMAIN m => m["time_in_force"] \in TimeInForce
    BY <2>1, <2>2, <2>3 DEF Restrict, TimeInForce
  <2> QED
    BY <2>4, AnyMessageIsPlaced DEF IsMessage, fields
<1> QED
  BY <1>1, <1>2 DEF ConversionsAgree

\* An order that the loop places is the one that was sent.
THEOREM OrdersAlwaysSurvive == Spec => []OrderSurvives
<1>1. OrderSurvives
  BY ConversionsAlwaysAgree DEF OrderSurvives
<1> QED
  BY <1>1, PTL
=============================================================================
