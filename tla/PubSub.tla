------------------------------- MODULE PubSub -------------------------------
(***************************************************************************)
(* The Publisher (PULL to PUB) and the pipes to its subscribers.           *)
(*                                                                         *)
(* 0MQ delivers the frames of a message together, so only a wait for the    *)
(* first frame can be interrupted by a signal.  A subscription matches the *)
(* topics it is a prefix of; topics are sequences of words here.           *)
(***************************************************************************)
EXTENDS Integers, FiniteSets, SequencesExt

CONSTANTS Listeners,   \* processes with a SUB socket
          Scenarios    \* what there is to run, with its bounds

ASSUME PubSubAssumption == \A s \in Scenarios : {s.maxTicks, s.maxInterrupts} \subseteq Nat

VARIABLES
  scenario,   \* which of them this is
  inbound,    \* messages in the publisher's PULL socket
  publisher,  \* "running", or "stopped" by an error
  pipes,      \* pipes[l]: messages that wait in the SUB socket of l
  part,       \* part[l]: the frames of the current message that l has not received
  subs,       \* subs[l]: its subscriptions
  taken,      \* taken[l]: the messages whose first frame l has received (history)
  interrupts  \* interrupts[x]: waits of x that a signal ended

pubVars == <<scenario, inbound, publisher, pipes, part, subs, taken, interrupts>>

Publisher == "publisher"
Waiters == Listeners \cup {Publisher}

\* A frame; n numbers the messages, and is known to the model only.
NoTick == [event |-> "none", type |-> "none", value |-> 0]
Frame(kind, topic, tick, n) == [kind |-> kind, topic |-> topic, tick |-> tick, n |-> n]
Empty == Frame("empty", << >>, NoTick, 0)

PubInit ==
  /\ scenario \in Scenarios
  /\ inbound = << >>
  /\ publisher = "running"
  /\ pipes = [l \in Listeners |-> << >>]
  /\ part = [l \in Listeners |-> << >>]
  /\ subs = [l \in Listeners |-> {}]
  /\ taken = [l \in Listeners |-> << >>]
  /\ interrupts = [x \in Waiters |-> 0]

Publish(queues, message) ==
  [l \in Listeners |-> IF \E s \in subs[l] : IsPrefix(s, message[1].topic)
                       THEN Append(queues[l], message) ELSE queues[l]]

\* Mutant: a message that nobody subscribes to is kept.
ForwardToSomeone ==
  /\ publisher = "running"
  /\ inbound # << >>
  /\ pipes' = Publish(pipes, Head(inbound))
  /\ inbound' = IF pipes' = pipes THEN inbound ELSE Tail(inbound)
  /\ UNCHANGED <<scenario, publisher, part, subs, taken, interrupts>>

Forward ==
  /\ publisher = "running"
  /\ inbound # << >>
  /\ pipes' = Publish(pipes, Head(inbound))
  /\ inbound' = Tail(inbound)
  /\ UNCHANGED <<scenario, publisher, part, subs, taken, interrupts>>

MayInterrupt(x) ==
  /\ interrupts[x] < scenario.maxInterrupts
  /\ interrupts' = [interrupts EXCEPT ![x] = @ + 1]

\* --publisherIgnoreSignalInterrupt says whether the loop goes on.
InterruptPublisher ==
  /\ publisher = "running"
  /\ inbound = << >>
  /\ MayInterrupt(Publisher)
  /\ publisher' = IF scenario.ignoreInterrupt THEN "running" ELSE "stopped"
  /\ UNCHANGED <<scenario, inbound, pipes, part, subs, taken>>

\* receive(): the frames of the current message, of the next one when it is done.
Incoming(l) ==
  IF part[l] # << >> THEN part[l]
  ELSE IF pipes[l] # << >> THEN Head(pipes[l]) ELSE << >>

CanReceive(l) == Incoming(l) # << >>

Receive(l, count) ==
  /\ part' = [part EXCEPT ![l] = SubSeq(Incoming(l), count + 1, Len(Incoming(l)))]
  /\ IF part[l] # << >> THEN UNCHANGED <<pipes, taken>>
     ELSE /\ pipes' = [pipes EXCEPT ![l] = Tail(@)]
          /\ taken' = [taken EXCEPT ![l] = Append(@, Head(pipes[l]))]
=============================================================================
