------------------------------ MODULE RingBus -------------------------------
(***************************************************************************)
(* The two ring buffers that may stand in for the message bus: the         *)
(* Disruptor (infrastructure/disruptor.py) and the shared memory ring      *)
(* (infrastructure/shared_memory_bus.py).  Every agent that starts adds a  *)
(* consumer (MessageBus.start_consuming): another processor with a         *)
(* sequence of its own, or another poll loop on the sequence they share.   *)
(* A consumer passes a message to the handlers in turn and waits for each; *)
(* of a pass, in which a handler stands once for every start since its     *)
(* own, the beginning and the end are kept.  Within the event loop a       *)
(* publication is one step: no lock is contended, and the claim waits for  *)
(* the cursor of the publications, not for a consumer.  Message k is the   *)
(* k-th one published; 0 is no message.                                    *)
(***************************************************************************)
EXTENDS Naturals, Sequences, FiniteSetsExt, Functions

CONSTANTS
  RingSize,      \* slots of the ring
  Undecodable,   \* messages that do not survive the slot (too long for it)
  Starts,        \* agents that start, each adding a consumer
  MaxPublished   \* bound: messages published

ASSUME RingAssumption ==
  RingSize \in Nat \ {0} /\ Starts \in Nat \ {0} /\ MaxPublished \in Nat

VARIABLES
  backend,    \* "disruptor" or "shared_memory"
  started,    \* consumers so far
  slots,      \* slot -> the message in it
  cursor,     \* last message published
  consumed,   \* sequence -> the last message it is past
  handling,   \* consumer -> the message its handlers work on, 0 for none
  standing,   \* the event loop stands still
  dispatched  \* history: consumer -> messages it dispatched, in order

ringVars == <<backend, started, slots, cursor, consumed, handling, standing, dispatched>>

Loops == 1 .. Starts

Slot(k) == k % RingSize

RingInit ==
  /\ backend \in {"disruptor", "shared_memory"}
  /\ started = 0 /\ standing = FALSE
  /\ slots = [i \in 0 .. RingSize - 1 |-> 0]
  /\ cursor = 0 /\ consumed = [p \in Loops |-> 0] /\ handling = [p \in Loops |-> 0]
  /\ dispatched = [p \in Loops |-> <<>>]

\* The sequence a consumer goes by: its own in the Disruptor, one for all in
\* shared memory.
SequenceOf(p) == IF backend = "disruptor" THEN p ELSE 1

NextOf(p) == consumed[SequenceOf(p)] + 1

\* A consumer begins with the first message ever, or where the others are.
StartLoop ==
  /\ ~standing /\ started < Starts /\ started' = started + 1
  /\ UNCHANGED <<backend, slots, cursor, consumed, handling, standing, dispatched>>

\* SharedRingBuffer.write: the sequence number makes the slot readable, also
\* over one that was not read yet; the slots of the Disruptor are alike.
Written(k) == [slots EXCEPT ![Slot(k)] = k]

PublishToRing ==
  /\ ~standing /\ cursor < MaxPublished
  /\ cursor' = cursor + 1
  /\ slots' = Written(cursor')
  /\ UNCHANGED <<backend, started, consumed, handling, standing, dispatched>>

\* Mutant: whatever is in the slot is taken.
ReadyAnyway(k) == slots[Slot(k)] # 0

\* The slot holds the very message that is next.
Ready(k) == slots[Slot(k)] = k

\* EventProcessor.run finds its next message overwritten: it looks again
\* without ever yielding.
StandStill(p) ==
  /\ ~standing /\ p <= started /\ handling[p] = 0
  /\ backend = "disruptor" /\ NextOf(p) <= cursor /\ ~Ready(NextOf(p))
  /\ standing' = TRUE
  /\ UNCHANGED <<backend, started, slots, cursor, consumed, handling, dispatched>>

\* The next message is decoded and goes to its handlers; one that cannot be
\* decoded is dropped at once.
Dispatch(p) ==
  /\ ~standing /\ p <= started /\ handling[p] = 0 /\ Ready(NextOf(p))
  /\ LET k == slots[Slot(NextOf(p))] IN
       IF k \in Undecodable
       THEN consumed' = [consumed EXCEPT ![SequenceOf(p)] = @ + 1] /\ UNCHANGED <<handling, dispatched>>
       ELSE /\ handling' = [handling EXCEPT ![p] = k]
            /\ dispatched' = [dispatched EXCEPT ![p] = Append(@, k)]
            /\ UNCHANGED consumed
  /\ UNCHANGED <<backend, started, slots, cursor, standing>>

\* Where the sequence is after a pass: a processor sets its own to the message
\* it handled, a poll loop adds one to wherever the shared one has got to.
PastPass(p) == IF backend = "disruptor" THEN handling[p] ELSE consumed[1] + 1

\* The last handler is done, or one raised and the rest are skipped.
HandlersDone(p) ==
  /\ ~standing /\ handling[p] # 0
  /\ handling' = [handling EXCEPT ![p] = 0]
  /\ consumed' = [consumed EXCEPT ![SequenceOf(p)] = PastPass(p)]
  /\ UNCHANGED <<backend, started, slots, cursor, standing, dispatched>>

RingNext ==
  \/ StartLoop \/ PublishToRing
  \/ \E p \in Loops : Dispatch(p) \/ HandlersDone(p) \/ StandStill(p)

RingSpec == RingInit /\ [][RingNext]_ringVars

-----------------------------------------------------------------------------
(* Properties. *)

\* Producers may lap a slow consumer, yet no consumer dispatches a message
\* twice, after a later one or in place of one that was overwritten, also not
\* where another poll loop moves the sequence under its pass; and each
\* processor, or a poll loop that is alone, dispatched all that could be decoded,
\* from the first message on, so that it stops at a message it lost.
NoSilentGap ==
  /\ \A p \in Loops : \A i, j \in 1 .. Len(dispatched[p]) : i < j => dispatched[p][i] < dispatched[p][j]
  /\ \A p \in Loops : \A i \in 1 .. Len(dispatched[p]) : dispatched[p][i] \in 1 .. cursor \ Undecodable
  /\ backend = "disruptor" \/ started <= 1 =>
       \A p \in 1 .. started : \A k \in 1 .. consumed[p] :
         k \in Undecodable \/ \E i \in 1 .. Len(dispatched[p]) : dispatched[p][i] = k

\* Poll loops that share their sequence do skip messages: two that passed one
\* message at a time both count it.  For every message skipped another was passed
\* once too often.
SkippedForDoubled ==
  backend = "shared_memory" =>
    LET passed == UNION {Range(dispatched[p]) : p \in Loops}
        passes == MapThenSumSet(LAMBDA p : Len(dispatched[p]), Loops)
    IN  Cardinality(1 .. consumed[1] \ (passed \cup Undecodable)) <= passes - Cardinality(passed)

RingIsSound == NoSilentGap /\ SkippedForDoubled
=============================================================================
