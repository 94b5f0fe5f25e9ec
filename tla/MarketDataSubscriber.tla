------------------------ MODULE MarketDataSubscriber ------------------------
(***************************************************************************)
(* MarketDataSubscriber, a ManagedAgent: the event loop that an R process  *)
(* runs (mds.cpp), and that the historian runs on its own market data.     *)
(* One SUB socket receives the data and the commands of a coordinator.     *)
(***************************************************************************)
EXTENDS PubSub

CONSTANTS Agents,   \* those of Listeners that are agents
          AgentId,  \* AgentId[a]: the topic that initialize() subscribes to
          Topics    \* what a process may subscribe to

\* The coordinator's verbs and their data are no topics of its commands.
ASSUME MarketDataSubscriberAssumption ==
  /\ Agents \subseteq Listeners
  /\ \A s \in Scenarios : \A c \in s.commands : \A i \in {2, 3} :
       c[i] # << >> => c[i][1] # "admin:"

VARIABLES
  agent,    \* agent[a]: [pc, frame1, more]; pc is "idle" outside of processInbound
  heard,    \* heard[a]: the pairs of frames that process() was called with (history)
  commands, \* commands sent by the coordinator
  obeyed    \* obeyed[a]: the numbers of the commands that a handler was called for

agentVars == <<agent, heard, commands, obeyed>>

Idle == [pc |-> "idle", frame1 |-> Empty, more |-> FALSE]

AgentInit ==
  /\ agent = [a \in Agents |-> Idle]
  /\ heard = [a \in Agents |-> << >>]
  /\ commands = 0
  /\ obeyed = [a \in Agents |-> {}]

\* The constructor subscribes to the agent's id: ManagedAgent::initialize.
Initialized(a) == AgentId[a] \in subs[a]

Initialize(a) ==
  /\ a \in scenario.listeners
  /\ ~Initialized(a)
  /\ subs' = [subs EXCEPT ![a] = @ \cup {AgentId[a]} \cup scenario.topics]
  /\ UNCHANGED <<scenario, inbound, publisher, pipes, part, taken, interrupts, agentVars>>

\* mds_subscribe and mds_unsubscribe, between two runs of the loop.
Subscribe(a, topic) ==
  /\ Initialized(a) /\ agent[a].pc = "idle"
  /\ scenario.changes
  /\ \/ topic \notin subs[a] /\ subs' = [subs EXCEPT ![a] = @ \cup {topic}]
     \/ topic \in subs[a] \ {AgentId[a]} /\ subs' = [subs EXCEPT ![a] = @ \ {topic}]
  /\ UNCHANGED <<scenario, inbound, publisher, pipes, part, taken, interrupts, agentVars>>

Start(a) ==
  /\ Initialized(a) /\ agent[a].pc = "idle"
  /\ agent' = [agent EXCEPT ![a].pc = "topic"]
  /\ UNCHANGED <<pubVars, heard, commands, obeyed>>

\* The coordinator (external) sends a verb and its data under a topic of three frames.
Command(topic, verb, data) ==
  /\ commands < scenario.maxCommands
  /\ commands' = commands + 1
  /\ LET n == scenario.maxTicks + 1 + commands'
     IN  pipes' = Publish(pipes, <<Frame("topic", topic, NoTick, n),
                                   Frame("word", verb, NoTick, n),
                                   Frame("word", data, NoTick, n)>>)
  /\ UNCHANGED <<scenario, inbound, publisher, part, subs, taken, interrupts, agent, heard,
                 obeyed>>

ReceiveTopic(a) ==
  /\ agent[a].pc = "topic"
  /\ CanReceive(a)
  /\ agent' = [agent EXCEPT ![a] = [pc |-> "body", frame1 |-> Head(Incoming(a)),
                                    more |-> Len(Incoming(a)) > 1]]
  /\ Receive(a, 1)
  /\ UNCHANGED <<scenario, inbound, publisher, subs, interrupts, heard, commands, obeyed>>

\* The exception leaves frame1 empty, and more as it was: 1.
InterruptTopic(a) ==
  /\ agent[a].pc = "topic"
  /\ ~CanReceive(a)
  /\ MayInterrupt(a)
  /\ agent' = [agent EXCEPT ![a] = [pc |-> "body", frame1 |-> Empty, more |-> TRUE]]
  /\ UNCHANGED <<scenario, inbound, publisher, pipes, part, subs, taken, heard, commands,
                 obeyed>>

IsDepth(a) == agent[a].frame1.topic # << >> /\ agent[a].frame1.topic[1] = "depth"
IsAdmin(a) == agent[a].frame1.topic # << >> /\ agent[a].frame1.topic[1] = "admin:"

\* A body parses as what it is; a topic, a word or nothing does not.
ParsesAs(frame, kind) == frame.kind = kind

\* The handlers that the constructors register: what they leave of the subscriptions, and
\* whether the loop goes on.  connect adds an endpoint, which is not modelled.
adminHandlers(a, data) ==
  [subscribe   |-> [subs |-> subs[a] \cup {data}, go |-> TRUE],
   unsubscribe |-> [subs |-> subs[a] \ {data}, go |-> TRUE],
   stop        |-> [subs |-> subs[a], go |-> FALSE]]

handleAdminMessage(a, verb, data) ==
  IF Len(verb) = 1 /\ verb[1] \in DOMAIN adminHandlers(a, data)
  THEN adminHandlers(a, data)[verb[1]] ELSE [subs |-> subs[a], go |-> TRUE]

After(a, go) == IF go THEN [Idle EXCEPT !.pc = "topic"] ELSE Idle

AdminMessage(a) ==
  /\ agent[a].pc = "body" /\ IsAdmin(a)
  /\ CanReceive(a)
  /\ LET result == handleAdminMessage(a, Incoming(a)[1].topic, Incoming(a)[2].topic)
     IN  /\ subs' = [subs EXCEPT ![a] = result.subs]
         /\ agent' = [agent EXCEPT ![a] = After(a, result.go)]
  /\ obeyed' = [obeyed EXCEPT ![a] = @ \cup {agent[a].frame1.n}]
  /\ Receive(a, 2)
  /\ UNCHANGED <<scenario, inbound, publisher, interrupts, heard, commands>>

Unparsed(a) == heard' = heard /\ agent' = [agent EXCEPT ![a] = After(a, TRUE)]

\* process() of mds.cpp, for a body that parses: R's callback says whether to go on, and an
\* exception means no; depth is taken and ignored.
Process(a, frame2, kind) ==
  IF ParsesAs(frame2, kind)
  THEN /\ heard' = [heard EXCEPT ![a] = Append(@, <<agent[a].frame1, frame2>>)]
       /\ \E go \in IF kind = "data" THEN {TRUE, scenario.callback} ELSE {TRUE} :
            agent' = [agent EXCEPT ![a] = After(a, go)]
  ELSE Unparsed(a)

Kind(a) == IF IsDepth(a) THEN "depth" ELSE "data"

\* Mutant: the second frame is awaited whether or not there is one.
BodyAlwaysReceived(a) ==
  /\ agent[a].pc = "body" /\ ~IsAdmin(a)
  /\ CanReceive(a) /\ Process(a, Head(Incoming(a)), Kind(a)) /\ Receive(a, 1)
  /\ UNCHANGED <<scenario, inbound, publisher, subs, interrupts, commands, obeyed>>

\* The second frame is received only if there is more of the message.
Body(a) ==
  /\ agent[a].pc = "body" /\ ~IsAdmin(a)
  /\ IF agent[a].more
     THEN CanReceive(a) /\ Process(a, Head(Incoming(a)), Kind(a)) /\ Receive(a, 1)
     ELSE Unparsed(a) /\ UNCHANGED <<part, pipes, taken>>
  /\ UNCHANGED <<scenario, inbound, publisher, subs, interrupts, commands, obeyed>>

\* After an interrupted first wait the second one waits for a message, too.
InterruptBody(a) ==
  /\ agent[a].pc = "body" /\ ~IsAdmin(a)
  /\ agent[a].more /\ ~CanReceive(a)
  /\ MayInterrupt(a)
  /\ Unparsed(a)
  /\ UNCHANGED <<scenario, inbound, publisher, pipes, part, subs, taken, commands, obeyed>>

-----------------------------------------------------------------------------
Numbers(messages) == {m[1].n : m \in Range(messages)}

\* Messages that the agent is in the middle of.
Current(a) == {agent[a].frame1.n} \cup {f.n : f \in Range(part[a])}

\* The frames that process() gets were published together
\* (MarketDataSubscriber.hpp:187-329): an interrupted wait, which shifts the frames, never
\* makes the body of one message be taken for another's.
DeliveredTogether ==
  \A a \in Agents : \A pair \in Range(heard[a]) :
     pair[1].kind = "topic" /\ pair[2].kind \in {"data", "depth"} /\ pair[1].n = pair[2].n

\* What the agent must not lose: data, depth, and the commands under a topic that begins
\* with "admin:".  A command under any other topic, the agent's id too, which the class
\* comment promises to listen to, is lost.
Expected(a) ==
  {m \in Range(taken[a]) : m[2].kind # "word"
                           \/ (m[1].topic # << >> /\ m[1].topic[1] = "admin:")}

\* Each interrupted wait costs at most one message: the frames are in step again after it
\* (MarketDataSubscriber.hpp:187-191, :275).
LossBounded ==
  \A a \in Agents :
     Cardinality((({m[1].n : m \in Expected(a)} \ Numbers(heard[a])) \ obeyed[a]) \ Current(a))
       <= interrupts[a]

\* When the loop has returned, to be started again, no frames of a message are left in the
\* socket that the next run would take for a topic (MarketDataSubscriber.hpp:339-343).
RestartsInStep == \A a \in Agents : agent[a].pc = "idle" => part[a] = << >>

\* The loop stays in step with the frames, or is so again after one message.
AgentInStep == DeliveredTogether /\ LossBounded /\ RestartsInStep
=============================================================================
