------------------------------- MODULE FanOut -------------------------------
(***************************************************************************)
(* One topic of the message bus (infrastructure/message_bus.py) with the   *)
(* in-memory backend.  Every agent that starts calls start_consuming, which*)
(* makes a new queue for the topic, with a pump task for every handler     *)
(* subscribed so far; the pumps of a queue compete for its messages.  A    *)
(* publication puts the message in one queue after the other and waits at  *)
(* a full one.                                                             *)
(***************************************************************************)
EXTENDS Naturals, Sequences, FiniteSets

CONSTANTS
  Publishers,  \* tasks that publish on the topic
  NAgents,     \* subscribers of the topic, started in the order 1, 2, ...
  QueueSize,   \* maxsize of a queue
  MaxMessages  \* bound: messages published

ASSUME FanOutAssumption == NAgents \in Nat /\ QueueSize \in Nat \ {0} /\ MaxMessages \in Nat

VARIABLES
  queues,      \* the queues, in the order they were made
  published,   \* messages published so far
  outgoing,    \* publisher -> the message under way and the queue it is at
  pumping,     \* <<queue, agent>> -> the message in the agent's handler
  handled      \* history: <<queue, agent, message>> handed to a handler

busVars == <<queues, published, outgoing, pumping, handled>>

Agents == 1 .. NAgents
Pumps == Agents \X Agents   \* <<queue, agent>>
NotPublishing == [message |-> 0, at |-> 0]

BusInit ==
  /\ queues = <<>> /\ published = 0 /\ outgoing = [b \in Publishers |-> NotPublishing]
  /\ pumping = [p \in Pumps |-> 0]
  /\ handled = {}

\* Agent Len(queues) + 1 subscribes and starts consuming.
StartConsuming ==
  /\ Len(queues) < NAgents
  /\ queues' = Append(queues, <<>>)
  /\ UNCHANGED <<published, outgoing, pumping, handled>>

BeginPublish(b) ==
  /\ outgoing[b] = NotPublishing /\ published < MaxMessages
  /\ published' = published + 1
  /\ outgoing' = [outgoing EXCEPT ![b] = [message |-> published', at |-> 1]]
  /\ UNCHANGED <<queues, pumping, handled>>

\* await q.put for the next queue; the list of queues is read as it grows.
PutInQueue(b) ==
  /\ outgoing[b] # NotPublishing
  /\ IF outgoing[b].at > Len(queues)
     THEN outgoing' = [outgoing EXCEPT ![b] = NotPublishing] /\ UNCHANGED queues
     ELSE /\ Len(queues[outgoing[b].at]) < QueueSize
          /\ queues' = [queues EXCEPT ![outgoing[b].at] = Append(@, outgoing[b].message)]
          /\ outgoing' = [outgoing EXCEPT ![b].at = @ + 1]
  /\ UNCHANGED <<published, pumping, handled>>

\* Mutant: the message stays for the next pump.
AfterTakeKept(queue) == queue

AfterTake(queue) == Tail(queue)

\* Mutant: all handlers of the topic are pumped from every queue.
ServesAll(queue, agent) == TRUE

\* start_consuming: the queue has the handlers subscribed when it was made.
Serves(queue, agent) == agent <= queue

\* _pump_in_memory.
Pump(p) ==
  /\ p[1] <= Len(queues) /\ p[2] <= Len(queues) /\ Serves(p[1], p[2])
  /\ pumping[p] = 0 /\ queues[p[1]] # <<>>
  /\ pumping' = [pumping EXCEPT ![p] = Head(queues[p[1]])]
  /\ handled' = handled \cup {<<p[1], p[2], Head(queues[p[1]])>>}
  /\ queues' = [queues EXCEPT ![p[1]] = AfterTake(@)]
  /\ UNCHANGED <<published, outgoing>>

\* The handler returns, or raises and the error is logged.
HandlerReturns(p) ==
  /\ pumping[p] # 0
  /\ pumping' = [pumping EXCEPT ![p] = 0]
  /\ UNCHANGED <<queues, published, outgoing, handled>>

BusNext ==
  \/ StartConsuming
  \/ \E b \in Publishers : BeginPublish(b) \/ PutInQueue(b)
  \/ \E p \in Pumps : Pump(p) \/ HandlerReturns(p)

BusSpec == BusInit /\ [][BusNext]_busVars

-----------------------------------------------------------------------------
(* Properties. *)

\* A queue hands each message to one handler only, so that an agent sees a
\* message at most as often as there are queues since its own start.
OneTakerPerQueue ==
  \A x, y \in handled : x[1] = y[1] /\ x[3] = y[3] => x = y

\* The agent that started first has a queue of its own: once it consumes, it
\* is handed everything that is published, however slow the others are.
FirstSeesAll ==
  \A m \in 1 .. MaxMessages :
    (Len(queues) > 0 /\ \E b \in Publishers : outgoing[b] = [message |-> m, at |-> 1])
      ~> <<1, 1, m>> \in handled

\* Queues do not double a message among their takers, and the first agent
\* misses none.
DeliveryIsSound == []OneTakerPerQueue /\ FirstSeesAll

=============================================================================
