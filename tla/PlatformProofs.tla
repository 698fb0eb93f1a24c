--------------------------- MODULE PlatformProofs ---------------------------
(***************************************************************************)
(* Proofs about the ways messages and orders travel: the ring buffers      *)
(* (RingBus), the dark pool (DarkPool), credit lines (PrimeBroker), parent *)
(* orders (AlgoExecution), the FIX session (FixSession), the topics of     *)
(* both backends (FanOut, RedisBus), the clock (GlobalClock) and the       *)
(* session life cycle (SessionPipeline), each for every size of its        *)
(* buffers, tables and populations.                                        *)
(***************************************************************************)
EXTENDS FanOut, RedisBus, RingBus, FixSession, GlobalClock, SessionPipeline,
        AlgoExecution, PrimeBroker, DarkPool, DataLemmas, FiniteSetTheorems, TLAPS

-----------------------------------------------------------------------------
(* The ring buffers. *)

RingTypes ==
  /\ cursor \in Nat /\ started \in 0 .. Starts
  /\ consumed \in [Loops -> Nat] /\ handling \in [Loops -> Nat]
  /\ dispatched \in [Loops -> Seq(Nat)]

\* A slot holds a message that was published.  A consumer that handles a message
\* dispatched it last; what it dispatched before is behind its sequence, and where
\* no other consumer moves the sequence nothing is between the two.
RingInv ==
  /\ RingTypes
  /\ \A i \in DOMAIN slots : slots[i] \in 0 .. cursor
  /\ DOMAIN slots = 0 .. RingSize - 1
  /\ \A p \in Loops :
       /\ handling[p] # 0 => p <= started
       /\ \A i \in 1 .. Len(dispatched[p]) :
            dispatched[p][i] <= consumed[SequenceOf(p)]
              \/ (handling[p] # 0 /\ dispatched[p][i] = handling[p])
       /\ handling[p] # 0 => /\ handling[p] <= consumed[SequenceOf(p)] + 1
                             /\ \E i \in 1 .. Len(dispatched[p]) : dispatched[p][i] = handling[p]
  /\ backend = "disruptor" \/ started <= 1 =>
       \A p \in 1 .. started : handling[p] # 0 => handling[p] = consumed[p] + 1
  /\ \A p \in Loops : p > started /\ (backend = "disruptor" \/ p = 1) => consumed[p] = 0
  /\ NoSilentGap

LEMMA SequenceOfLoop == ASSUME NEW p \in Loops PROVE SequenceOf(p) \in Loops
BY RingAssumption DEF SequenceOf, Loops

\* The slot looked at is one of the ring.
LEMMA SlotOfRing == ASSUME NEW k \in Nat PROVE Slot(k) \in 0 .. RingSize - 1
BY RingAssumption DEF Slot

\* Where a consumer goes by its own sequence.
LEMMA OwnSequence ==
  ASSUME backend = "disruptor" \/ started <= 1, RingTypes, NEW p \in Loops, p <= started
  PROVE  SequenceOf(p) = p
BY DEF SequenceOf, Loops, RingTypes

LEMMA StartedLoop == ASSUME RingTypes, NEW l \in 1 .. started PROVE l \in Loops
BY RingAssumption DEF Loops, RingTypes

\* A publication, or one consumer more, changes nothing of the others.
LEMMA RingMoves ==
  ASSUME RingInv, PublishToRing \/ StartLoop \/ (\E p \in Loops : StandStill(p)) \/ UNCHANGED ringVars
  PROVE  RingInv'
<1>1. CASE PublishToRing
  <2>1. /\ cursor' = cursor + 1 /\ cursor \in Nat
        /\ slots' = [slots EXCEPT ![Slot(cursor')] = cursor']
        /\ UNCHANGED <<backend, started, consumed, handling, standing, dispatched>>
    BY <1>1 DEF PublishToRing, RingInv, RingTypes, Written
  <2>2. DOMAIN slots' = DOMAIN slots /\ \A i \in DOMAIN slots : slots'[i] \in {slots[i], cursor + 1}
    BY <2>1
  <2>3. \A i \in DOMAIN slots' : slots'[i] \in 0 .. cursor'
    BY <2>1, <2>2 DEF RingInv
  <2>4. \A p \in Loops : SequenceOf(p)' = SequenceOf(p)
    BY <2>1 DEF SequenceOf
  <2>5. NoSilentGap'
    BY <2>1 DEF RingInv, NoSilentGap
  <2>6. RingTypes'
    BY <2>1 DEF RingInv, RingTypes
  <2>7. DOMAIN slots' = 0 .. RingSize - 1
    BY <2>2 DEF RingInv
  <2> QED BY <2>1, <2>3, <2>4, <2>5, <2>6, <2>7 DEF RingInv
<1>2. CASE StartLoop
  <2>1. /\ started' = started + 1 /\ started < Starts /\ started \in 0 .. Starts /\ Starts \in Nat
        /\ UNCHANGED <<backend, slots, cursor, consumed, handling, standing, dispatched>>
    BY <1>2, RingAssumption DEF StartLoop, RingInv, RingTypes
  <2>2. \A p \in Loops : SequenceOf(p)' = SequenceOf(p) /\ (p > started' => p > started)
    BY <2>1 DEF SequenceOf, Loops
  <2>3. RingTypes'
    BY <2>1 DEF RingInv, RingTypes
  <2>4. ASSUME backend = "disruptor" \/ started' <= 1, NEW p \in 1 .. started'
        PROVE  /\ handling[p] # 0 => handling[p] = consumed[p] + 1
               /\ \A k \in 1 .. consumed[p] :
                    k \in Undecodable \/ \E i \in 1 .. Len(dispatched[p]) : dispatched[p][i] = k
    <3>1. backend = "disruptor" \/ started <= 1
      BY <2>1, <2>4
    <3>2. CASE p \in 1 .. started
      BY <3>1, <3>2 DEF RingInv, NoSilentGap
    <3>3. CASE p \notin 1 .. started
      <4>1. p = started + 1 /\ p \in Loops /\ p > started /\ (backend = "disruptor" \/ p = 1)
        BY <2>1, <2>4, <3>3 DEF Loops
      <4>2. consumed[p] = 0 /\ handling[p] = 0
        BY <2>1, <4>1 DEF RingInv
      <4> QED BY <4>2
    <3> QED BY <3>2, <3>3
  <2>5. NoSilentGap'
    BY <2>1, <2>4 DEF RingInv, NoSilentGap
  <2>6. \A p \in Loops : handling[p] # 0 => p <= started'
    BY <2>1 DEF RingInv, Loops
  <2> QED BY <2>1, <2>2, <2>3, <2>4, <2>5, <2>6 DEF RingInv
<1>3. CASE (\E p \in Loops : StandStill(p)) \/ UNCHANGED ringVars
  <2>1. UNCHANGED <<backend, started, slots, cursor, consumed, handling, dispatched>>
    BY <1>3 DEF StandStill, ringVars
  <2> QED BY <2>1 DEF RingInv, RingTypes, SequenceOf, NoSilentGap
<1> QED BY <1>1, <1>2, <1>3

\* A message that cannot be decoded is stepped over.
LEMMA DropKeepsRing ==
  ASSUME RingInv, NEW p \in Loops, Dispatch(p), slots[Slot(NextOf(p))] \in Undecodable
  PROVE  RingInv'
<1> DEFINE q == SequenceOf(p)
<1>1. /\ p <= started /\ handling[p] = 0 /\ NextOf(p) \in Undecodable
      /\ consumed' = [consumed EXCEPT ![q] = @ + 1]
      /\ UNCHANGED <<backend, started, slots, cursor, standing, handling, dispatched>>
  BY DEF Dispatch, Ready
<1>2. q \in Loops /\ consumed[q] \in Nat /\ NextOf(p) = consumed[q] + 1
  BY SequenceOfLoop DEF RingInv, RingTypes, NextOf
<1>3. /\ consumed' \in [Loops -> Nat] /\ consumed'[q] = consumed[q] + 1
      /\ \A l \in Loops : consumed[l] \in Nat /\ consumed[l] <= consumed'[l] /\ (l # q => consumed'[l] = consumed[l])
  BY <1>1, <1>2 DEF RingInv, RingTypes
<1> HIDE DEF q
<1>4. \A l \in Loops : SequenceOf(l)' = SequenceOf(l) /\ SequenceOf(l) \in Loops
  BY <1>1, SequenceOfLoop DEF SequenceOf
<1>5. RingTypes'
  BY <1>1, <1>3 DEF RingInv, RingTypes
<1>6. ASSUME NEW l \in Loops
      PROVE  /\ \A i \in 1 .. Len(dispatched[l]) :
                  dispatched[l][i] <= consumed'[SequenceOf(l)]
                    \/ (handling[l] # 0 /\ dispatched[l][i] = handling[l])
             /\ handling[l] # 0 => handling[l] <= consumed'[SequenceOf(l)] + 1
  <2>1. /\ dispatched[l] \in Seq(Nat) /\ handling[l] \in Nat
        /\ consumed[SequenceOf(l)] <= consumed'[SequenceOf(l)]
        /\ consumed[SequenceOf(l)] \in Nat /\ consumed'[SequenceOf(l)] \in Nat
    BY <1>3, <1>4 DEF RingInv, RingTypes
  <2>2. \A i \in 1 .. Len(dispatched[l]) : dispatched[l][i] \in Nat
    BY <2>1
  <2>3. /\ \A i \in 1 .. Len(dispatched[l]) :
             dispatched[l][i] <= consumed[SequenceOf(l)]
               \/ (handling[l] # 0 /\ dispatched[l][i] = handling[l])
        /\ handling[l] # 0 => handling[l] <= consumed[SequenceOf(l)] + 1
    BY DEF RingInv
  <2> QED BY <2>1, <2>2, <2>3
<1>7. ASSUME backend = "disruptor" \/ started <= 1, NEW l \in 1 .. started
      PROVE  /\ handling[l] # 0 => handling[l] = consumed'[l] + 1
             /\ \A k \in 1 .. consumed'[l] :
                  k \in Undecodable \/ \E i \in 1 .. Len(dispatched[l]) : dispatched[l][i] = k
  <2>0. RingTypes /\ l \in Loops
    BY <1>7, StartedLoop DEF RingInv
  <2>1. q = p /\ l \in Loops
    BY <1>1, <1>7, <2>0, OwnSequence DEF q
  <2>2. /\ handling[l] # 0 => handling[l] = consumed[l] + 1
        /\ \A k \in 1 .. consumed[l] :
             k \in Undecodable \/ \E i \in 1 .. Len(dispatched[l]) : dispatched[l][i] = k
    BY <1>7 DEF RingInv, NoSilentGap
  <2>3. CASE l = p
    <3>1. \A k \in 1 .. consumed'[l] : k \in 1 .. consumed[l] \/ k = NextOf(p)
      BY <1>2, <1>3, <2>1, <2>3
    <3> QED BY <1>1, <2>2, <2>3, <3>1
  <2>4. CASE l # p
    <3>1. consumed'[l] = consumed[l]
      BY <1>3, <2>1, <2>4
    <3> QED BY <2>2, <3>1
  <2> QED BY <2>3, <2>4
<1>8. NoSilentGap'
  BY <1>1, <1>7 DEF RingInv, NoSilentGap
<1>9. ASSUME NEW l \in Loops, l > started, backend = "disruptor" \/ l = 1 PROVE consumed'[l] = 0
  <2>1. l # q
    BY <1>1, <1>9 DEF q, SequenceOf, Loops, RingInv, RingTypes
  <2> QED BY <1>3, <1>9, <2>1 DEF RingInv
<1> QED BY <1>1, <1>4, <1>5, <1>6, <1>7, <1>8, <1>9 DEF RingInv

\* A message that is dispatched comes behind all its consumer dispatched before.
LEMMA DispatchKeepsRing ==
  ASSUME RingInv, NEW p \in Loops, Dispatch(p), slots[Slot(NextOf(p))] \notin Undecodable
  PROVE  RingInv'
<1> DEFINE q == SequenceOf(p)
           k == consumed[q] + 1
           old == dispatched[p]
           new == dispatched'[p]
<1>1. q \in Loops /\ consumed[q] \in Nat /\ NextOf(p) = k /\ k \in Nat /\ k # 0
  BY SequenceOfLoop DEF RingInv, RingTypes, NextOf
<1>2. /\ p <= started /\ handling[p] = 0 /\ slots[Slot(k)] = k /\ k \notin Undecodable
      /\ handling' = [handling EXCEPT ![p] = k] /\ dispatched' = [dispatched EXCEPT ![p] = Append(@, k)]
      /\ UNCHANGED <<backend, started, slots, cursor, standing, consumed>>
  BY <1>1 DEF Dispatch, Ready
<1>3. k \in 1 .. cursor
  <2>1. Slot(k) \in DOMAIN slots
    BY <1>1, SlotOfRing DEF RingInv
  <2>2. slots[Slot(k)] \in 0 .. cursor
    BY <2>1 DEF RingInv
  <2> QED BY <1>1, <1>2, <2>2
<1>4. /\ handling'[p] = k /\ new = Append(old, k) /\ old \in Seq(Nat)
      /\ \A l \in Loops : l # p => handling'[l] = handling[l] /\ dispatched'[l] = dispatched[l]
      /\ handling' \in [Loops -> Nat] /\ dispatched' \in [Loops -> Seq(Nat)]
  BY <1>1, <1>2 DEF RingInv, RingTypes
<1>5. \A i \in 1 .. Len(old) : old[i] <= consumed[q]
  BY <1>2 DEF RingInv
<1> HIDE DEF q, old
<1>6. /\ Len(old) \in Nat /\ Len(new) = Len(old) + 1 /\ new[Len(new)] = k
      /\ \A i \in 1 .. Len(old) : new[i] = old[i] /\ old[i] < k /\ old[i] \in Nat
  BY <1>1, <1>4, <1>5
<1>7. \A i \in 1 .. Len(new) : i \in 1 .. Len(old) \/ i = Len(new)
  BY <1>6
<1> HIDE DEF new, k
<1>8. \A l \in Loops : SequenceOf(l)' = SequenceOf(l)
  BY <1>2 DEF SequenceOf
<1>9. \A i, j \in 1 .. Len(new) : i < j => new[i] < new[j]
  <2> SUFFICES ASSUME NEW i \in 1 .. Len(new), NEW j \in 1 .. Len(new), i < j PROVE new[i] < new[j]
    OBVIOUS
  <2>1. i \in 1 .. Len(old)
    BY <1>6
  <2>2. CASE j = Len(new)
    BY <1>6, <2>1, <2>2
  <2>3. CASE j \in 1 .. Len(old)
    <3>1. old[i] < old[j]
      BY <2>1, <2>3 DEF RingInv, NoSilentGap, old
    <3> QED BY <1>6, <2>1, <2>3, <3>1
  <2> QED BY <1>7, <2>2, <2>3
<1>10. \A i \in 1 .. Len(new) : new[i] \in 1 .. cursor \ Undecodable /\ (new[i] <= consumed[q] \/ new[i] = k)
  <2>1. \A i \in 1 .. Len(old) : old[i] \in 1 .. cursor \ Undecodable
    BY DEF RingInv, NoSilentGap, old
  <2> QED BY <1>2, <1>3, <1>5, <1>6, <1>7, <2>1
<1>11. \E i \in 1 .. Len(new) : new[i] = k
  BY <1>6
<1>12. RingTypes'
  BY <1>2, <1>4 DEF RingInv, RingTypes
<1>13. ASSUME backend = "disruptor" \/ started <= 1, NEW l \in 1 .. started
       PROVE  /\ handling'[l] # 0 => handling'[l] = consumed[l] + 1
              /\ \A n \in 1 .. consumed[l] :
                   n \in Undecodable \/ \E i \in 1 .. Len(dispatched'[l]) : dispatched'[l][i] = n
  <2>0. RingTypes /\ l \in Loops
    BY <1>13, StartedLoop DEF RingInv
  <2>1. q = p /\ l \in Loops
    BY <1>2, <1>13, <2>0, OwnSequence DEF q
  <2>2. /\ handling[l] # 0 => handling[l] = consumed[l] + 1
        /\ \A n \in 1 .. consumed[l] :
             n \in Undecodable \/ \E i \in 1 .. Len(dispatched[l]) : dispatched[l][i] = n
    BY <1>13 DEF RingInv, NoSilentGap
  <2>3. CASE l = p
    <3>1. \A n \in 1 .. consumed[l] : n \in Undecodable \/ \E i \in 1 .. Len(new) : new[i] = n
      BY <1>6, <2>2, <2>3 DEF old
    <3> QED BY <1>4, <2>1, <2>3, <3>1 DEF new, k
  <2>4. CASE l # p
    BY <1>4, <2>1, <2>2, <2>4
  <2> QED BY <2>3, <2>4
<1>14. NoSilentGap'
  <2>1. ASSUME NEW l \in Loops
        PROVE  /\ \A i, j \in 1 .. Len(dispatched'[l]) : i < j => dispatched'[l][i] < dispatched'[l][j]
               /\ \A i \in 1 .. Len(dispatched'[l]) : dispatched'[l][i] \in 1 .. cursor \ Undecodable
    <3>1. CASE l = p
      BY <1>9, <1>10, <3>1 DEF new
    <3>2. CASE l # p
      BY <1>4, <3>2 DEF RingInv, NoSilentGap
    <3> QED BY <3>1, <3>2
  <2> QED BY <1>2, <1>13, <2>1 DEF NoSilentGap
<1>15. ASSUME NEW l \in Loops
       PROVE  /\ handling'[l] # 0 => l <= started
              /\ \A i \in 1 .. Len(dispatched'[l]) :
                   dispatched'[l][i] <= consumed[SequenceOf(l)]
                     \/ (handling'[l] # 0 /\ dispatched'[l][i] = handling'[l])
              /\ handling'[l] # 0 => /\ handling'[l] <= consumed[SequenceOf(l)] + 1
                                     /\ \E i \in 1 .. Len(dispatched'[l]) : dispatched'[l][i] = handling'[l]
  <2>1. CASE l = p
    <3>1. handling'[p] = k /\ k # 0 /\ k = consumed[SequenceOf(p)] + 1 /\ k \in Nat
      BY <1>1, <1>4 DEF k, q
    <3>2. /\ \A i \in 1 .. Len(dispatched'[p]) :
               dispatched'[p][i] <= consumed[SequenceOf(p)] \/ dispatched'[p][i] = handling'[p]
          /\ \E i \in 1 .. Len(dispatched'[p]) : dispatched'[p][i] = handling'[p]
      BY <1>10, <1>11, <3>1 DEF new, q
    <3>3. consumed[SequenceOf(p)] \in Nat
      BY <1>1 DEF q
    <3> QED BY <1>2, <2>1, <3>1, <3>2, <3>3
  <2>2. CASE l # p
    BY <1>4, <2>2 DEF RingInv
  <2> QED BY <2>1, <2>2
<1> QED BY <1>2, <1>8, <1>12, <1>13, <1>14, <1>15 DEF RingInv

\* At the end of a pass the sequence has got past the message.
LEMMA DoneKeepsRing ==
  ASSUME RingInv, NEW p \in Loops, HandlersDone(p)
  PROVE  RingInv'
<1> DEFINE q == SequenceOf(p)
<1>1. /\ handling[p] # 0 /\ handling' = [handling EXCEPT ![p] = 0]
      /\ consumed' = [consumed EXCEPT ![q] = PastPass(p)]
      /\ UNCHANGED <<backend, started, slots, cursor, standing, dispatched>>
  BY DEF HandlersDone
<1>2. q \in Loops /\ consumed[q] \in Nat /\ p <= started /\ handling[p] \in Nat
      /\ handling[p] <= consumed[q] + 1
  BY <1>1, SequenceOfLoop DEF RingInv, RingTypes
<1>3. /\ backend = "disruptor" \/ started <= 1 => q = p /\ handling[p] = consumed[q] + 1
  BY <1>1, <1>2, OwnSequence DEF RingInv, Loops
<1>4. PastPass(p) = consumed[q] + 1
  <2>1. CASE backend = "disruptor"
    BY <1>3, <2>1 DEF PastPass
  <2>2. CASE backend # "disruptor"
    BY <2>2 DEF PastPass, SequenceOf
  <2> QED BY <2>1, <2>2
<1> HIDE DEF q
<1>5. /\ consumed' \in [Loops -> Nat] /\ consumed'[q] = consumed[q] + 1
      /\ \A l \in Loops : consumed[l] \in Nat /\ consumed[l] <= consumed'[l] /\ (l # q => consumed'[l] = consumed[l])
  BY <1>1, <1>2, <1>4 DEF RingInv, RingTypes
<1>6. /\ handling' \in [Loops -> Nat] /\ handling'[p] = 0
      /\ \A l \in Loops : l # p => handling'[l] = handling[l]
  BY <1>1 DEF RingInv, RingTypes
<1>7. \A l \in Loops : SequenceOf(l)' = SequenceOf(l) /\ SequenceOf(l) \in Loops
  BY <1>1, SequenceOfLoop DEF SequenceOf
<1>8. RingTypes'
  BY <1>1, <1>5, <1>6 DEF RingInv, RingTypes
<1>9. ASSUME NEW l \in Loops
      PROVE  /\ handling'[l] # 0 => l <= started
             /\ \A i \in 1 .. Len(dispatched[l]) :
                  dispatched[l][i] <= consumed'[SequenceOf(l)]
                    \/ (handling'[l] # 0 /\ dispatched[l][i] = handling'[l])
             /\ handling'[l] # 0 => /\ handling'[l] <= consumed'[SequenceOf(l)] + 1
                                    /\ \E i \in 1 .. Len(dispatched[l]) : dispatched[l][i] = handling'[l]
  <2>1. /\ dispatched[l] \in Seq(Nat) /\ handling[l] \in Nat
        /\ consumed[SequenceOf(l)] <= consumed'[SequenceOf(l)]
        /\ consumed[SequenceOf(l)] \in Nat /\ consumed'[SequenceOf(l)] \in Nat
    BY <1>5, <1>7 DEF RingInv, RingTypes
  <2>2. \A i \in 1 .. Len(dispatched[l]) : dispatched[l][i] \in Nat
    BY <2>1
  <2>3. CASE l = p
    <3>1. handling'[l] = 0 /\ handling[l] <= consumed'[SequenceOf(l)]
      BY <1>2, <1>5, <1>6, <2>3 DEF q
    <3>2. \A i \in 1 .. Len(dispatched[l]) :
            dispatched[l][i] <= consumed[SequenceOf(l)] \/ dispatched[l][i] = handling[l]
      BY DEF RingInv
    <3>3. \A i \in 1 .. Len(dispatched[l]) : dispatched[l][i] <= consumed'[SequenceOf(l)]
      BY <2>1, <2>2, <3>1, <3>2
    <3> QED BY <3>1, <3>3
  <2>4. CASE l # p
    <3>1. handling'[l] = handling[l]
      BY <1>6, <2>4
    <3> QED BY <2>1, <2>2, <3>1 DEF RingInv
  <2> QED BY <2>3, <2>4
<1>10. ASSUME backend = "disruptor" \/ started <= 1, NEW l \in 1 .. started
       PROVE  /\ handling'[l] # 0 => handling'[l] = consumed'[l] + 1
              /\ \A k \in 1 .. consumed'[l] :
                   k \in Undecodable \/ \E i \in 1 .. Len(dispatched[l]) : dispatched[l][i] = k
  <2>1. q = p /\ l \in Loops /\ handling[p] = consumed[q] + 1
    BY <1>3, <1>10, StartedLoop DEF RingInv
  <2>2. /\ handling[l] # 0 => handling[l] = consumed[l] + 1
        /\ \A k \in 1 .. consumed[l] :
             k \in Undecodable \/ \E i \in 1 .. Len(dispatched[l]) : dispatched[l][i] = k
    BY <1>10 DEF RingInv, NoSilentGap
  <2>3. CASE l = p
    <3>1. \A k \in 1 .. consumed'[l] : k \in 1 .. consumed[l] \/ k = handling[l]
      BY <1>2, <1>5, <2>1, <2>3
    <3>2. \E i \in 1 .. Len(dispatched[l]) : dispatched[l][i] = handling[l]
      BY <1>1, <2>3 DEF RingInv
    <3> QED BY <1>6, <2>2, <2>3, <3>1, <3>2
  <2>4. CASE l # p
    <3>1. consumed'[l] = consumed[l] /\ handling'[l] = handling[l]
      BY <1>5, <1>6, <2>1, <2>4
    <3> QED BY <2>2, <3>1
  <2> QED BY <2>3, <2>4
<1>11. NoSilentGap'
  BY <1>1, <1>10 DEF RingInv, NoSilentGap
<1>12. ASSUME NEW l \in Loops, l > started, backend = "disruptor" \/ l = 1 PROVE consumed'[l] = 0
  <2>1. l # q
    BY <1>2, <1>12 DEF q, SequenceOf, Loops, RingInv, RingTypes
  <2> QED BY <1>5, <1>12, <2>1 DEF RingInv
<1> QED BY <1>1, <1>7, <1>8, <1>9, <1>10, <1>11, <1>12 DEF RingInv

\* A producer that laps a consumer, or another consumer on its sequence, never makes it
\* deliver a message twice, out of order or in place of another, and a processor, or a
\* poll loop that is alone, skips nothing, in a ring of any size
\* (EventProcessor.run, SharedMemoryBus._poll_loop, MessageBus.start_consuming).
THEOREM RingHasNoGap == RingSpec => []NoSilentGap
<1>1. RingInit => RingInv
  <2> SUFFICES ASSUME RingInit PROVE RingInv
    OBVIOUS
  <2>1. /\ started = 0 /\ cursor = 0 /\ slots = [i \in 0 .. RingSize - 1 |-> 0]
        /\ consumed = [p \in Loops |-> 0] /\ handling = [p \in Loops |-> 0]
        /\ dispatched = [p \in Loops |-> <<>>]
    BY DEF RingInit
  <2>2. RingTypes
    BY <2>1, RingAssumption DEF RingTypes
  <2>3. NoSilentGap
    BY <2>1 DEF NoSilentGap
  <2> QED BY <2>1, <2>2, <2>3 DEF RingInv
<1>2. RingInv /\ [RingNext]_ringVars => RingInv'
  BY RingMoves, DropKeepsRing, DispatchKeepsRing, DoneKeepsRing DEF RingNext
<1>3. RingInv => NoSilentGap
  BY DEF RingInv
<1> QED BY <1>1, <1>2, <1>3, PTL DEF RingSpec

-----------------------------------------------------------------------------
(* The dark pool. *)

\* What was crossed since the last report is missing from the inventory.
PoolInv ==
  /\ inventory \in [known : BOOLEAN, long : Nat, short : Nat]
  /\ snapshot \in Nat /\ crossed \in Nat
  /\ inventory.long + crossed = snapshot

\* Reports and orders keep the books of the pool.
LEMMA PoolStep == PoolInv /\ [PoolNext]_poolVars => PoolInv'
<1> SUFFICES ASSUME PoolInv, [PoolNext]_poolVars PROVE PoolInv'
  OBVIOUS
<1>1. ASSUME NEW long \in Quantities, NEW short \in Quantities, UpdateInventory(long, short)
      PROVE  PoolInv'
  <2>1. long \in Nat /\ short \in Nat
    BY PoolAssumption
  <2> QED BY <1>1, <2>1 DEF UpdateInventory, PoolInv
<1>2. ASSUME NEW order \in Incoming, NEW wide \in BOOLEAN, RouteInternally(order, wide)
      PROVE  PoolInv'
  <2>1. order.qty \in Nat /\ inventory.long >= order.qty
    BY <1>2, PoolAssumption DEF Incoming, RouteInternally, CanInternalize, Covers
  <2>2. inventory.long \in Nat /\ inventory.long - order.qty \in Nat
    BY <2>1 DEF PoolInv
  <2>3. /\ inventory' = [inventory EXCEPT !.long = inventory.long - order.qty]
        /\ crossed' = crossed + order.qty /\ snapshot' = snapshot
    BY <1>2 DEF RouteInternally, PoolInv
  <2>4. /\ inventory' \in [known : BOOLEAN, long : Nat, short : Nat]
        /\ inventory'.long = inventory.long - order.qty
    BY <2>2, <2>3 DEF PoolInv
  <2> QED BY <2>1, <2>2, <2>3, <2>4 DEF PoolInv
<1>3. ASSUME NEW order \in Incoming, NEW wide \in BOOLEAN, RouteToLit(order, wide)
      PROVE  PoolInv'
  BY <1>3 DEF RouteToLit, PoolInv
<1>4. CASE UNCHANGED poolVars
  BY <1>4 DEF poolVars, PoolInv
<1> QED BY <1>1, <1>2, <1>3, <1>4 DEF PoolNext

\* No series of orders crosses more than the market maker reported to hold
\* (CrossingEngine._can_internalize and update_inventory).
THEOREM PoolCrossesWhatItHolds == PoolSpec => []CrossesWhatItHolds
<1>1. PoolInit => PoolInv
  <2> SUFFICES ASSUME PoolInit PROVE PoolInv
    OBVIOUS
  <2>1. inventory \in [known : BOOLEAN, long : Nat, short : Nat]
    BY DEF PoolInit
  <2> QED BY <2>1 DEF PoolInit, PoolInv
<1>2. PoolInv => CrossesWhatItHolds
  BY DEF PoolInv, CrossesWhatItHolds
<1> QED BY <1>1, <1>2, PoolStep, PTL DEF PoolSpec

-----------------------------------------------------------------------------
(* The FIX session. *)

\* What is on the wire is the numbers below the next one; on an open connection all
\* is heard from the first message heard on.
WireInv ==
  /\ seqOut \in Nat \ {0} /\ link \in Nat /\ wire \in Seq([no : Nat, on : Nat])
  /\ Len(wire) = seqOut - 1 /\ NumbersAreConsecutive
  /\ socket = "open" => link # 0
  /\ \A i \in 1 .. Len(wire) : wire[i].on <= link
  /\ socket = "open" => \A i, j \in 1 .. Len(wire) : i < j /\ wire[i].on = link => wire[j].on = link

\* A pending entry belongs to a caller that sends or waits or whose send raised,
\* and there is one entry for each of them.
AckInv ==
  /\ acks \subseteq [order : ordered, done : BOOLEAN]
  /\ IsFiniteSet(ordered)
  /\ sending \subseteq ordered /\ waiting \subseteq ordered /\ raised \subseteq ordered
  /\ sending \cap waiting = {} /\ (sending \cup waiting) \cap raised = {}
  /\ \A a, b \in acks : a.order = b.order => a = b
  /\ \A c \in ordered : c \in sending \cup waiting \cup raised <=> \E a \in acks : a.order = c

\* The connection of a message is a number.
LEMMA MessageNumbers ==
  ASSUME WireInv, NEW i \in 1 .. Len(wire)
  PROVE  wire[i].on \in Nat
<1> DEFINE Message == [no : Nat, on : Nat]
<1>1. wire \in Seq(Message)
  BY DEF WireInv
<1>2. \A m \in Message : m.on \in Nat
  OBVIOUS
<1> HIDE DEF Message
<1> QED BY <1>1, <1>2

\* Any number of senders that overlap take numbers of their own, and are heard behind
\* what was heard on their connection.
LEMMA SentKeepsWire ==
  ASSUME WireInv, NEW n \in Nat, NEW on \in Nat, Sent(n, on), link' \in Nat, link <= link', on <= link',
         on # 0 => \A i, j \in 1 .. Len(wire) : i < j /\ wire[i].on = on => wire[j].on = on,
         socket' = "open" => on = link' /\ on # 0
  PROVE  WireInv'
<1> DEFINE new == [i \in 1 .. n |-> [no |-> seqOut + i - 1, on |-> on]]
           Message == [no : Nat, on : Nat]
           len == Len(wire)
<1>1. new \in Seq(Message) /\ Len(new) = n /\ \A i \in 1 .. n : new[i].no = seqOut + i - 1 /\ new[i].on = on
  <2>1. \A i \in 1 .. n : [no |-> seqOut + i - 1, on |-> on] \in Message
    BY DEF WireInv
  <2>2. new \in [1 .. n -> Message]
    BY <2>1
  <2>3. new \in Seq(Message) /\ Len(new) = n
    BY <2>2
  <2> QED BY <2>3
<1>2. wire' = wire \o new /\ seqOut' = seqOut + n
  BY DEF Sent
<1> HIDE DEF new
<1>0. wire \in Seq(Message) /\ len \in Nat /\ len = seqOut - 1 /\ seqOut \in Nat \ {0}
  BY DEF WireInv
<1> HIDE DEF Message
<1>3. wire' \in Seq(Message) /\ Len(wire') = len + n
  <2>1. wire \in Seq(Message) /\ new \in Seq(Message)
    BY <1>0, <1>1
  <2>2. wire \o new \in Seq(Message) /\ Len(wire \o new) = Len(wire) + Len(new)
    BY <2>1
  <2> QED BY <1>1, <1>2, <2>2
<1>4. /\ \A i \in 1 .. len : wire'[i] = wire[i]
      /\ \A i \in 1 .. Len(wire') : i \notin 1 .. len => wire'[i].no = i /\ wire'[i].on = on
  <2>1. ASSUME NEW i \in 1 .. len PROVE wire'[i] = wire[i]
    BY <1>0, <1>1, <1>2
  <2>2. ASSUME NEW i \in 1 .. Len(wire'), i \notin 1 .. len PROVE wire'[i].no = i /\ wire'[i].on = on
    <3>1. i - len \in 1 .. n
      BY <1>0, <1>3, <2>2
    <3>2. wire'[i] = new[i - len]
      <4>1. wire \in Seq(Message) /\ new \in Seq(Message) /\ wire' = wire \o new
        BY <1>0, <1>1, <1>2
      <4>2. i \in 1 .. Len(wire) + Len(new) /\ i > Len(wire)
        BY <1>0, <1>1, <1>3, <2>2
      <4> QED BY <4>1, <4>2
    <3>3. seqOut + (i - len) - 1 = i
      BY <1>0, <2>2
    <3> QED BY <1>1, <3>1, <3>2, <3>3
  <2> QED BY <2>1, <2>2
<1>5. \A i \in 1 .. len : wire[i].no = i /\ wire[i].on <= link /\ wire[i].on \in Nat
  <2> TAKE i \in 1 .. len
  <2>2. wire[i].no = i /\ wire[i].on <= link
    BY DEF WireInv, NumbersAreConsecutive
  <2>3. wire[i].on \in Nat
    BY MessageNumbers
  <2> QED BY <2>2, <2>3
<1>6. \A i \in 1 .. Len(wire') : wire'[i].no = i /\ wire'[i].on <= link'
  <2>1. link \in Nat
    BY DEF WireInv
  <2> HIDE DEF len
  <2> QED BY <1>4, <1>5, <2>1
<1>7. ASSUME NEW i \in 1 .. Len(wire'), NEW j \in 1 .. Len(wire'), i < j, wire'[i].on = on, on # 0
      PROVE  wire'[j].on = on
  <2>1. j \notin 1 .. len => wire'[j].on = on
    BY <1>4
  <2>2. j \in 1 .. len => i \in 1 .. len
    BY <1>0, <1>7
  <2> QED BY <1>4, <1>7, <2>1, <2>2
<1>8. ASSUME NEW i \in 1 .. Len(wire'), NEW j \in 1 .. Len(wire'), NEW k \in 1 .. Len(wire'),
             i < j, j < k, wire'[i].on = wire'[k].on, wire'[i].on # 0
      PROVE  wire'[j].on = wire'[i].on
  <2>1. CASE k \in 1 .. len
    <3>1. i \in 1 .. len /\ j \in 1 .. len
      BY <1>0, <1>8, <2>1
    <3>2. wire'[i] = wire[i] /\ wire'[j] = wire[j] /\ wire'[k] = wire[k]
      BY <1>4, <2>1, <3>1
    <3>3. \A a, b, c \in 1 .. len :
            a < b /\ b < c /\ wire[a].on = wire[c].on /\ wire[a].on # 0 => wire[b].on = wire[a].on
      BY DEF WireInv, NumbersAreConsecutive
    <3> HIDE DEF len
    <3> QED BY <1>8, <2>1, <3>1, <3>2, <3>3
  <2>2. CASE k \notin 1 .. len
    BY <1>4, <1>7, <1>8, <2>2
  <2> QED BY <2>1, <2>2
<1>9. NumbersAreConsecutive'
  BY <1>6, <1>8 DEF NumbersAreConsecutive
<1>10. seqOut' \in Nat \ {0} /\ Len(wire') = seqOut' - 1
  BY <1>0, <1>2, <1>3
<1> QED BY <1>3, <1>6, <1>7, <1>9, <1>10 DEF WireInv, Message

\* Every step of the session, its callers and the venue keeps the numbers.
LEMMA WireStep == WireInv /\ [FixNext]_fixVars => WireInv'
<1> SUFFICES ASSUME WireInv, [FixNext]_fixVars PROVE WireInv'
  OBVIOUS
<1>0. link \in Nat /\ (\A i \in 1 .. Len(wire) : wire[i].on <= link) /\ (socket = "open" => link # 0)
  BY DEF WireInv
<1>1. ASSUME NEW n \in Nat, Sent(n, HeardOn), UNCHANGED <<socket, link>>
      PROVE  WireInv'
  <2>1. /\ HeardOn \in Nat /\ HeardOn <= link' /\ link' \in Nat /\ link <= link'
        /\ socket' = "open" => HeardOn = link' /\ HeardOn # 0
        /\ HeardOn # 0 => HeardOn = link /\ socket = "open"
    BY <1>0, <1>1 DEF HeardOn
  <2>2. HeardOn # 0 => \A i, j \in 1 .. Len(wire) : i < j /\ wire[i].on = HeardOn => wire[j].on = HeardOn
    BY <2>1 DEF WireInv
  <2> QED BY <1>1, <2>1, <2>2, SentKeepsWire
<1>2. CASE LogonSent
  <2>1. link' = link + 1 /\ Sent(1, link')
    BY <1>2 DEF LogonSent
  <2>2. \A i \in 1 .. Len(wire) : wire[i].on # link'
    <3> TAKE i \in 1 .. Len(wire)
    <3>2. wire[i].on \in Nat
      BY MessageNumbers
    <3>3. link \in Nat /\ wire[i].on <= link
      BY <1>0
    <3>4. link' = link + 1
      BY <2>1
    <3> QED BY <3>2, <3>3, <3>4
  <2>3. link' \in Nat /\ link <= link' /\ link' <= link' /\ link' # 0
    BY <1>0, <2>1
  <2>4. \A i, j \in 1 .. Len(wire) : i < j /\ wire[i].on = link' => wire[j].on = link'
    BY <2>2
  <2> QED BY <2>1, <2>3, <2>4, SentKeepsWire
<1>3. ASSUME UNCHANGED <<seqOut, wire, link>>, socket' = "open" => socket = "open" PROVE WireInv'
  <2>1. NumbersAreConsecutive'
    BY <1>3 DEF WireInv, NumbersAreConsecutive
  <2> QED BY <1>3, <2>1 DEF WireInv
<1>4. ASSUME NEW c \in Callers, \/ NewOrder(c) \/ VenueReports(c) \/ NewOrderReturns(c)
                                \/ \E ok \in BOOLEAN : Drained(c, ok)
      PROVE  WireInv'
  <2>1. UNCHANGED <<socket, link>> /\ (UNCHANGED <<seqOut, wire>> \/ Sent(1, HeardOn))
    BY <1>4 DEF NewOrder, VenueReports, NewOrderReturns, Drained, fixLink, fixOut
  <2> QED BY <1>1, <1>3, <2>1
<1>5. CASE StartFix \/ StopFix \/ StopGoesOn
  <2>1. \/ UNCHANGED <<seqOut, wire, link>> /\ socket' \in {socket, "closed"}
        \/ Sent(1, HeardOn) /\ UNCHANGED <<socket, link>>
    BY <1>5 DEF StartFix, StopFix, StopGoesOn, Closed, fixOut
  <2> QED BY <1>1, <1>3, <2>1
<1>6. CASE ConnectFails \/ VenueGoes \/ ReadLoopEnds \/ ReceiveLogon \/ ReceiveLogout \/ ReceiveReport
  <2>1. UNCHANGED <<seqOut, wire, link>> /\ socket' \in {socket, "deaf", "closed"}
    BY <1>6 DEF ConnectFails, VenueGoes, ReadLoopEnds, ReceiveLogon, ReceiveLogout, ReceiveReport,
                LoopLost, fixLink, fixOut
  <2> QED BY <1>3, <2>1
<1>7. CASE \E n \in 1 .. 2 : SendOthers(n)
  <2>1. PICK n \in 1 .. 2 : SendOthers(n)
    BY <1>7
  <2>2. n \in Nat /\ Sent(n, HeardOn) /\ UNCHANGED <<socket, link>>
    BY <2>1 DEF SendOthers, fixLink
  <2> QED BY <1>1, <2>2
<1>8. CASE ConnectSucceeds \/ LogonFails
  BY <1>2, <1>8 DEF ConnectSucceeds, LogonFails
<1>9. CASE UNCHANGED fixVars
  BY <1>3, <1>9 DEF fixVars, fixLink, fixOut
<1> QED BY <1>4, <1>5, <1>6, <1>7, <1>8, <1>9 DEF FixNext

\* new_order enters one future under a fresh id.
LEMMA NewOrderKeepsAcks ==
  ASSUME AckInv, NEW c \in Callers, NewOrder(c)
  PROVE  AckInv'
<1> DEFINE a == [order |-> c, done |-> FALSE]
<1>1. /\ c \notin ordered /\ acks' = acks \cup {a} /\ ordered' = ordered \cup {c}
      /\ UNCHANGED waiting
  BY DEF NewOrder
<1>2. \/ sending' = sending \cup {c} /\ raised' = raised
      \/ sending' = sending /\ raised' = raised \cup {c}
  BY DEF NewOrder
<1>3. IsFiniteSet(ordered')
  BY <1>1, FS_AddElement DEF AckInv
<1>4. a.order = c /\ a \in [order : ordered', done : BOOLEAN]
  BY <1>1
<1> HIDE DEF a
<1>5. acks' \subseteq [order : ordered', done : BOOLEAN]
  BY <1>1, <1>4 DEF AckInv
<1>6. \A b \in acks : b.order \in ordered
  BY DEF AckInv
<1>7. \A b, d \in acks' : b.order = d.order => b = d
  BY <1>1, <1>4, <1>6 DEF AckInv
<1>8. \A k \in ordered' : k \in sending' \cup waiting' \cup raised' <=> \E b \in acks' : b.order = k
  BY <1>1, <1>2, <1>4, <1>6 DEF AckInv
<1>9. /\ sending' \subseteq ordered' /\ waiting' \subseteq ordered' /\ raised' \subseteq ordered'
      /\ sending' \cap waiting' = {} /\ (sending' \cup waiting') \cap raised' = {}
  BY <1>1, <1>2 DEF AckInv
<1> QED BY <1>3, <1>5, <1>7, <1>8, <1>9 DEF AckInv

\* A caller whose drain is over waits; one whose drain raised leaves its entry.
LEMMA DrainedKeepsAcks ==
  ASSUME AckInv, NEW c \in Callers, NEW ok \in BOOLEAN, Drained(c, ok)
  PROVE  AckInv'
<1>1. c \in sending /\ sending' = sending \ {c} /\ UNCHANGED <<acks, ordered>>
  BY DEF Drained
<1>2. \/ waiting' = waiting \cup {c} /\ raised' = raised
      \/ waiting' = waiting /\ raised' = raised \cup {c}
  BY DEF Drained
<1>3. c \notin waiting /\ c \notin raised /\ c \in ordered
  BY <1>1 DEF AckInv
<1>4. sending' \cup waiting' \cup raised' = sending \cup waiting \cup raised
  BY <1>1, <1>2
<1>5. sending' \cap waiting' = {} /\ (sending' \cup waiting') \cap raised' = {}
  BY <1>1, <1>2, <1>3 DEF AckInv
<1>6. sending' \subseteq ordered /\ waiting' \subseteq ordered /\ raised' \subseteq ordered
  BY <1>1, <1>2, <1>3 DEF AckInv
<1>7. \A k \in ordered' : k \in sending' \cup waiting' \cup raised' <=> \E b \in acks' : b.order = k
  BY <1>1, <1>4 DEF AckInv
<1> QED BY <1>1, <1>5, <1>6, <1>7 DEF AckInv

\* A caller that wakes up takes its own entry away.
LEMMA ReturnKeepsAcks ==
  ASSUME AckInv, NEW c \in Callers, NewOrderReturns(c)
  PROVE  AckInv'
<1>1. /\ c \in waiting /\ acks' = {a \in acks : a.order # c} /\ waiting' = waiting \ {c}
      /\ UNCHANGED <<ordered, sending, raised>>
  BY DEF NewOrderReturns, Forgotten
<1> QED BY <1>1 DEF AckInv

\* A report sets the future of its order, or finds nobody.
LEMMA ReportKeepsAcks ==
  ASSUME AckInv, ReceiveReport
  PROVE  AckInv'
<1> DEFINE c == Head(replies)
           new == [order |-> c, done |-> TRUE]
           F(a) == IF a.order = c THEN new ELSE a
<1>1. UNCHANGED <<sending, waiting, ordered, raised>> /\ acks' = {F(a) : a \in acks}
  BY DEF ReceiveReport
<1>2. \A a \in acks : F(a) \in [order : ordered, done : BOOLEAN] /\ F(a).order = a.order
  BY DEF AckInv
<1> HIDE DEF F
<1>3. acks' \subseteq [order : ordered', done : BOOLEAN]
  BY <1>1, <1>2
<1>4. \A a, b \in acks' : a.order = b.order => a = b
  BY <1>1, <1>2 DEF AckInv
<1>5. \A k \in ordered : (\E a \in acks' : a.order = k) <=> \E a \in acks : a.order = k
  BY <1>1, <1>2
<1> QED BY <1>1, <1>3, <1>4, <1>5 DEF AckInv

\* Every step keeps the table of pending reports in order.
LEMMA AckStep == AckInv /\ [FixNext]_fixVars => AckInv'
<1> SUFFICES ASSUME AckInv, [FixNext]_fixVars PROVE AckInv'
  OBVIOUS
<1>1. CASE UNCHANGED <<acks, sending, waiting, ordered, raised>>
  BY <1>1 DEF AckInv
<1>2. ASSUME NEW c \in Callers, VenueReports(c) PROVE UNCHANGED <<acks, sending, waiting, ordered, raised>>
  BY <1>2 DEF VenueReports
<1>3. CASE \/ StartFix \/ StopFix \/ StopGoesOn \/ ConnectFails \/ ConnectSucceeds \/ LogonFails
           \/ VenueGoes \/ ReceiveLogon \/ ReceiveLogout \/ (\E n \in 1 .. 2 : SendOthers(n))
           \/ UNCHANGED fixVars
  <2>1. UNCHANGED fixOrders
    BY <1>3 DEF StartFix, StopFix, StopGoesOn, Closed, ConnectFails, ConnectSucceeds, LogonFails,
                AttemptFails, VenueGoes, ReceiveLogon, ReceiveLogout, SendOthers, fixVars
  <2> QED BY <1>1, <2>1 DEF fixOrders
<1>4. CASE ReadLoopEnds
  BY <1>1, <1>4 DEF ReadLoopEnds
<1>5. CASE ReceiveReport
  BY <1>5, ReportKeepsAcks
<1> QED BY <1>1, <1>2, <1>3, <1>4, <1>5, NewOrderKeepsAcks, DrainedKeepsAcks, ReturnKeepsAcks DEF FixNext

\* Two disjoint finite sets are as many as both together.
LEMMA DisjointCount ==
  ASSUME NEW A, NEW B, IsFiniteSet(A), IsFiniteSet(B), A \cap B = {}
  PROVE  IsFiniteSet(A \cup B) /\ Cardinality(A \cup B) = Cardinality(A) + Cardinality(B)
<1>1. /\ IsFiniteSet(A \cup B)
      /\ Cardinality(A \cup B) = Cardinality(A) + Cardinality(B) - Cardinality(A \cap B)
  BY FS_Union
<1>2. Cardinality(A \cap B) = 0
  BY FS_EmptySet
<1>3. Cardinality(A) \in Nat /\ Cardinality(B) \in Nat
  BY FS_CardinalityType
<1> QED BY <1>1, <1>2, <1>3

\* One entry for each caller: the table and the callers are equally many.
LEMMA AcksAreCounted == AckInv => PendingIsAwaited
<1> SUFFICES ASSUME AckInv PROVE PendingIsAwaited
  OBVIOUS
<1> DEFINE S == (sending \cup waiting) \cup raised
           f == [c \in S |-> CHOOSE a \in acks : a.order = c]
<1>1. IsFiniteSet(sending) /\ IsFiniteSet(waiting) /\ IsFiniteSet(raised)
  BY FS_Subset DEF AckInv
<1>2. /\ IsFiniteSet(S)
      /\ Cardinality(S) = Cardinality(sending) + Cardinality(waiting) + Cardinality(raised)
  <2>1. sending \cap waiting = {} /\ (sending \cup waiting) \cap raised = {}
    BY DEF AckInv
  <2>2. /\ IsFiniteSet(sending \cup waiting)
        /\ Cardinality(sending \cup waiting) = Cardinality(sending) + Cardinality(waiting)
    BY <1>1, <2>1, DisjointCount
  <2>3. IsFiniteSet(S) /\ Cardinality(S) = Cardinality(sending \cup waiting) + Cardinality(raised)
    BY <1>1, <2>1, <2>2, DisjointCount
  <2> QED BY <2>2, <2>3
<1>3. \A c \in S : f[c] \in acks /\ f[c].order = c
  BY DEF AckInv
<1>4. \A a \in acks : a.order \in S
  BY DEF AckInv
<1> HIDE DEF f
<1>5. f \in Bijection(S, acks)
  <2>1. f \in [S -> acks]
    BY <1>3 DEF f
  <2>2. \A c, d \in S : f[c] = f[d] => c = d
    BY <1>3
  <2>3. \A a \in acks : \E c \in S : f[c] = a
    BY <1>3, <1>4 DEF AckInv
  <2> QED BY <2>1, <2>2, <2>3 DEF Bijection, Injection, Surjection, IsInjective
<1>6. Cardinality(acks) = Cardinality(S)
  <2>1. ExistsBijection(S, acks)
    BY <1>5 DEF ExistsBijection
  <2> HIDE DEF S
  <2> QED BY <1>2, <2>1, FS_Bijection
<1>7. {a.order : a \in acks} = S
  BY <1>3, <1>4
<1> QED BY <1>2, <1>6, <1>7 DEF PendingIsAwaited

\* Sequence numbers are consecutive, on every connection the venue hears a run of
\* them, and the table of pending reports holds the callers that send or wait and the
\* orders whose send raised, for any number of callers, connections, timeouts and late
\* or doubled reports (FIXSession._send, new_order and _dispatch).
THEOREM FixKeepsItsBooks == FixSpec => []FixIsSound
<1>1. FixInit => WireInv /\ AckInv
  <2> SUFFICES ASSUME FixInit PROVE WireInv /\ AckInv
    OBVIOUS
  <2>1. WireInv
    BY DEF FixInit, WireInv, NumbersAreConsecutive
  <2>2. IsFiniteSet(ordered)
    BY FS_EmptySet DEF FixInit
  <2> QED BY <2>1, <2>2 DEF FixInit, AckInv
<1>2. WireInv /\ AckInv => FixIsSound
  BY AcksAreCounted DEF WireInv, FixIsSound
<1> QED BY <1>1, <1>2, WireStep, AckStep, PTL DEF FixSpec

-----------------------------------------------------------------------------
(* A topic of the in-memory backend. *)

BusTypes ==
  /\ queues \in Seq(Seq(Nat)) /\ published \in Nat
  /\ outgoing \in [Publishers -> [message : Nat, at : Nat]]
  /\ handled \subseteq Nat \X Nat \X Nat

\* Messages are numbered, and every publisher has one of its own.
Numbered ==
  /\ \A b \in Publishers : /\ outgoing[b].message <= published
                           /\ outgoing[b].message = 0 <=> outgoing[b].at = 0
  /\ \A b, c \in Publishers : outgoing[b].message = outgoing[c].message => outgoing[b].message = 0 \/ b = c
  /\ \A q \in 1 .. Len(queues) : \A i \in 1 .. Len(queues[q]) : queues[q][i] \in 1 .. published
  /\ \A x \in handled : x[3] \in 1 .. published

\* A message passes a queue once: it is still to be put there, in it, or taken.
InQueueOnce ==
  \A q \in 1 .. Len(queues) : \A i, j \in 1 .. Len(queues[q]) : queues[q][i] = queues[q][j] => i = j

InQueueIsPut ==
  \A q \in 1 .. Len(queues) : \A i \in 1 .. Len(queues[q]) : \A b \in Publishers :
    outgoing[b].message = queues[q][i] => q < outgoing[b].at

InQueueNotTaken ==
  \A q \in 1 .. Len(queues) : \A i \in 1 .. Len(queues[q]) : \A x \in handled :
    x[1] = q => x[3] # queues[q][i]

TakenIsPut == \A x \in handled, b \in Publishers : outgoing[b].message = x[3] => x[1] < outgoing[b].at

PassesOnce == InQueueOnce /\ InQueueIsPut /\ InQueueNotTaken /\ TakenIsPut

\* Only queues that exist have been served.
TakenFromQueue == \A x \in handled : x[1] <= Len(queues)

BusInv == BusTypes /\ Numbered /\ PassesOnce /\ TakenFromQueue /\ OneTakerPerQueue

\* A new queue is empty, and its number is new.
LEMMA StartKeepsBus ==
  ASSUME BusInv, StartConsuming
  PROVE  BusInv'
<1>1. queues' = Append(queues, <<>>) /\ UNCHANGED <<published, outgoing, handled>>
  BY DEF StartConsuming
<1>2. /\ queues \in Seq(Seq(Nat)) /\ <<>> \in Seq(Nat) /\ Len(<<>>) = 0
  BY DEF BusInv, BusTypes
<1>3. /\ queues' \in Seq(Seq(Nat)) /\ Len(queues') = Len(queues) + 1 /\ Len(queues) \in Nat
      /\ \A q \in 1 .. Len(queues) : queues'[q] = queues[q]
      /\ queues'[Len(queues) + 1] = <<>>
  BY <1>1, <1>2
<1>4. \A q \in 1 .. Len(queues') : q \in 1 .. Len(queues) \/ Len(queues'[q]) = 0
  BY <1>2, <1>3
<1>5. \A q \in 1 .. Len(queues') : \A i \in 1 .. Len(queues'[q]) : q \in 1 .. Len(queues)
  BY <1>4
<1>6. Numbered' /\ BusTypes'
  BY <1>1, <1>3, <1>5 DEF BusInv, Numbered, BusTypes
<1>7. PassesOnce'
  BY <1>1, <1>3, <1>5 DEF BusInv, PassesOnce, InQueueOnce, InQueueIsPut, InQueueNotTaken, TakenIsPut
<1>8. TakenFromQueue' /\ OneTakerPerQueue'
  BY <1>1, <1>3 DEF BusInv, BusTypes, TakenFromQueue, OneTakerPerQueue
<1> QED BY <1>6, <1>7, <1>8 DEF BusInv

\* A new message has been in no queue.
LEMMA BeginKeepsBus ==
  ASSUME BusInv, NEW b \in Publishers, BeginPublish(b)
  PROVE  BusInv'
<1> DEFINE new == [message |-> published + 1, at |-> 1]
<1>1. /\ published' = published + 1 /\ outgoing' = [outgoing EXCEPT ![b] = new]
      /\ UNCHANGED <<queues, handled>>
  BY DEF BeginPublish
<1>2. new \in [message : Nat, at : Nat] /\ new.message = published + 1 /\ new.at = 1
  BY DEF BusInv, BusTypes
<1> HIDE DEF new
<1>3. /\ outgoing' \in [Publishers -> [message : Nat, at : Nat]] /\ outgoing'[b] = new
      /\ \A c \in Publishers : c # b => outgoing'[c] = outgoing[c]
      /\ \A c \in Publishers : outgoing[c].message \in Nat
  BY <1>1, <1>2 DEF BusInv, BusTypes
<1>4. BusTypes'
  BY <1>1, <1>3 DEF BusInv, BusTypes
<1>5. Numbered'
  BY <1>1, <1>2, <1>3 DEF BusInv, BusTypes, Numbered
<1>6. \A q \in 1 .. Len(queues) : \A i \in 1 .. Len(queues[q]) : queues[q][i] # published + 1
  BY DEF BusInv, BusTypes, Numbered
<1>7. \A x \in handled : x[3] # published + 1
  BY DEF BusInv, BusTypes, Numbered
<1>8. InQueueOnce' /\ InQueueNotTaken'
  BY <1>1 DEF BusInv, PassesOnce, InQueueOnce, InQueueNotTaken
<1>9. InQueueIsPut'
  BY <1>1, <1>2, <1>3, <1>6 DEF BusInv, PassesOnce, InQueueIsPut
<1>10. TakenIsPut'
  BY <1>1, <1>2, <1>3, <1>7 DEF BusInv, PassesOnce, TakenIsPut
<1> QED
  BY <1>1, <1>4, <1>5, <1>8, <1>9, <1>10 DEF BusInv, PassesOnce, TakenFromQueue, OneTakerPerQueue

\* A message that is put in a queue moves on to the next one.
LEMMA PutKeepsBus ==
  ASSUME BusInv, NEW b \in Publishers, PutInQueue(b)
  PROVE  BusInv'
<1> DEFINE m == outgoing[b].message
           k == outgoing[b].at
<1>0. /\ m \in Nat /\ k \in Nat /\ queues \in Seq(Seq(Nat)) /\ outgoing[b] \in [message : Nat, at : Nat]
      /\ UNCHANGED <<published, handled>>
  BY DEF BusInv, BusTypes, PutInQueue
<1>1. CASE k > Len(queues)
  <2>1. outgoing' = [outgoing EXCEPT ![b] = NotPublishing] /\ UNCHANGED queues
    BY <1>1 DEF PutInQueue
  <2>2. /\ outgoing' \in [Publishers -> [message : Nat, at : Nat]]
        /\ outgoing'[b].message = 0 /\ outgoing'[b].at = 0
        /\ \A c \in Publishers : c # b => outgoing'[c] = outgoing[c]
    BY <2>1 DEF BusInv, BusTypes, NotPublishing
  <2>3. BusTypes'
    BY <1>0, <2>1, <2>2 DEF BusInv, BusTypes
  <2>4. Numbered'
    BY <1>0, <2>1, <2>2 DEF BusInv, BusTypes, Numbered
  <2>5. PassesOnce'
    <3>1. InQueueOnce' /\ InQueueNotTaken'
      BY <1>0, <2>1 DEF BusInv, PassesOnce, InQueueOnce, InQueueNotTaken
    <3>2. InQueueIsPut'
      BY <1>0, <2>1, <2>2 DEF BusInv, BusTypes, Numbered, PassesOnce, InQueueIsPut
    <3>3. TakenIsPut'
      BY <1>0, <2>1, <2>2 DEF BusInv, BusTypes, Numbered, PassesOnce, TakenIsPut
    <3> QED BY <3>1, <3>2, <3>3 DEF PassesOnce
  <2> QED BY <1>0, <2>1, <2>3, <2>4, <2>5 DEF BusInv, TakenFromQueue, OneTakerPerQueue
<1>2. CASE ~(k > Len(queues))
  <2>0. m # 0 /\ k # 0
    <3>1. m = 0 /\ k = 0 => outgoing[b] = NotPublishing
      BY <1>0 DEF NotPublishing
    <3> QED BY <3>1 DEF PutInQueue, BusInv, Numbered
  <2> DEFINE new == [outgoing[b] EXCEPT !.at = k + 1]
             put == Append(queues[k], m)
  <2>1. k \in 1 .. Len(queues) /\ queues[k] \in Seq(Nat)
    BY <1>0, <1>2, <2>0
  <2>2. queues' = [queues EXCEPT ![k] = put] /\ outgoing' = [outgoing EXCEPT ![b] = new]
    BY <1>0, <1>2, <2>1 DEF PutInQueue, BusInv, BusTypes
  <2>3. new \in [message : Nat, at : Nat] /\ new.message = m /\ new.at = k + 1
    <3>1. k + 1 \in Nat
      BY <1>0
    <3> HIDE DEF k
    <3> QED BY <1>0, <3>1
  <2>4. /\ put \in Seq(Nat) /\ Len(put) = Len(queues[k]) + 1 /\ Len(queues[k]) \in Nat
        /\ \A i \in 1 .. Len(queues[k]) : put[i] = queues[k][i]
        /\ put[Len(queues[k]) + 1] = m
    BY <1>0, <2>1
  <2> HIDE DEF new, put
  <2>5. /\ outgoing' \in [Publishers -> [message : Nat, at : Nat]] /\ outgoing'[b] = new
        /\ \A c \in Publishers : c # b => outgoing'[c] = outgoing[c]
    BY <2>2, <2>3 DEF BusInv, BusTypes
  <2> HIDE DEF m, k
  <2>6. /\ queues' \in Seq(Seq(Nat)) /\ Len(queues') = Len(queues) /\ queues'[k] = put
        /\ \A q \in 1 .. Len(queues) : q # k => queues'[q] = queues[q]
    BY <1>0, <2>1, <2>2, <2>4
  <2>7. BusTypes' /\ TakenFromQueue' /\ OneTakerPerQueue'
    BY <1>0, <2>5, <2>6 DEF BusInv, BusTypes, TakenFromQueue, OneTakerPerQueue
  <2>8. m \in 1 .. published /\ \A i \in 1 .. Len(queues[k]) : queues[k][i] # m
    <3>1. m <= published /\ published \in Nat
      BY DEF BusInv, BusTypes, Numbered, m
    <3>2. ~(k < k)
      BY <1>0
    <3>3. \A i \in 1 .. Len(queues[k]) : queues[k][i] # m
      BY <2>1, <3>2 DEF BusInv, PassesOnce, InQueueIsPut, m, k
    <3>4. m \in 1 .. published
      BY <1>0, <2>0, <3>1
    <3> QED BY <3>3, <3>4
  <2>9. \A i \in 1 .. Len(put) : i \in 1 .. Len(queues[k]) \/ i = Len(queues[k]) + 1
    BY <2>4
  <2>10. Numbered'
    <3>1. \A c, d \in Publishers : outgoing'[c].message = outgoing'[d].message =>
            outgoing'[c].message = 0 \/ c = d
      BY <1>0, <2>3, <2>5 DEF BusInv, Numbered, m
    <3>2. \A c \in Publishers : /\ outgoing'[c].message <= published'
                                /\ outgoing'[c].message = 0 <=> outgoing'[c].at = 0
      <4>1. m <= published /\ k + 1 # 0
        BY <1>0 DEF BusInv, Numbered, m
      <4>2. \A c \in Publishers : c # b => /\ outgoing'[c].message <= published'
                                           /\ outgoing'[c].message = 0 <=> outgoing'[c].at = 0
        BY <1>0, <2>5 DEF BusInv, Numbered
      <4> QED BY <1>0, <2>0, <2>3, <2>5, <4>1, <4>2
    <3>3. \A q \in 1 .. Len(queues') : \A i \in 1 .. Len(queues'[q]) : queues'[q][i] \in 1 .. published'
      <4> SUFFICES ASSUME NEW q \in 1 .. Len(queues'), NEW i \in 1 .. Len(queues'[q])
                   PROVE  queues'[q][i] \in 1 .. published'
        OBVIOUS
      <4>1. CASE q = k
        BY <1>0, <2>1, <2>4, <2>6, <2>8, <2>9, <4>1 DEF BusInv, Numbered
      <4>2. CASE q # k
        BY <1>0, <2>6, <4>2 DEF BusInv, Numbered
      <4> QED BY <4>1, <4>2
    <3> QED BY <1>0, <3>1, <3>2, <3>3 DEF BusInv, Numbered
  <2>11. PassesOnce'
    <3>1. \A q \in 1 .. Len(queues') : \A i, j \in 1 .. Len(queues'[q]) :
            queues'[q][i] = queues'[q][j] => i = j
      <4> SUFFICES ASSUME NEW q \in 1 .. Len(queues'), NEW i \in 1 .. Len(queues'[q]),
                          NEW j \in 1 .. Len(queues'[q]), queues'[q][i] = queues'[q][j]
                   PROVE  i = j
        OBVIOUS
      <4>1. CASE q # k
        BY <2>6, <4>1 DEF BusInv, PassesOnce, InQueueOnce
      <4>2. CASE q = k
        <5>1. /\ i \in 1 .. Len(queues[k]) \/ i = Len(queues[k]) + 1
              /\ j \in 1 .. Len(queues[k]) \/ j = Len(queues[k]) + 1
              /\ put[i] = put[j]
          BY <2>6, <2>9, <4>2
        <5> QED BY <2>1, <2>4, <2>8, <5>1 DEF BusInv, PassesOnce, InQueueOnce
      <4> QED BY <4>1, <4>2
    <3>2. ASSUME NEW q \in 1 .. Len(queues'), NEW i \in 1 .. Len(queues'[q]), NEW c \in Publishers,
                 outgoing'[c].message = queues'[q][i]
          PROVE  q < outgoing'[c].at
      <4>1. CASE q = k /\ i \notin 1 .. Len(queues[k])
        <5>1. queues'[q][i] = m
          BY <2>4, <2>6, <2>9, <4>1
        <5>2. c = b
          BY <1>0, <2>0, <2>3, <2>5, <3>2, <5>1 DEF BusInv, Numbered, m
        <5> QED BY <1>0, <2>3, <2>5, <4>1, <5>2
      <4>2. CASE q # k \/ i \in 1 .. Len(queues[k])
        <5>1. i \in 1 .. Len(queues[q]) /\ queues'[q][i] = queues[q][i] /\ q \in 1 .. Len(queues)
          BY <2>1, <2>4, <2>6, <4>2
        <5>2. outgoing[c].message = queues[q][i]
          BY <2>3, <2>5, <3>2, <5>1 DEF m
        <5>3. q < outgoing[c].at
          BY <5>1, <5>2 DEF BusInv, PassesOnce, InQueueIsPut
        <5>4. outgoing'[c].at = outgoing[c].at \/ (outgoing[c].at = k /\ outgoing'[c].at = k + 1)
          BY <2>3, <2>5 DEF k
        <5> QED BY <1>0, <5>1, <5>3, <5>4
      <4> QED BY <4>1, <4>2
    <3>3. ASSUME NEW q \in 1 .. Len(queues'), NEW i \in 1 .. Len(queues'[q]), NEW x \in handled',
                 x[1] = q
          PROVE  x[3] # queues'[q][i]
      <4>1. CASE q = k /\ i \notin 1 .. Len(queues[k])
        <5>1. queues'[q][i] = m
          BY <2>4, <2>6, <2>9, <4>1
        <5>2. m = x[3] => x[1] < k
          BY <1>0 DEF BusInv, PassesOnce, TakenIsPut, m, k
        <5> QED BY <1>0, <3>3, <4>1, <5>1, <5>2
      <4>2. CASE q # k \/ i \in 1 .. Len(queues[k])
        <5>1. i \in 1 .. Len(queues[q]) /\ queues'[q][i] = queues[q][i] /\ q \in 1 .. Len(queues)
          BY <2>1, <2>4, <2>6, <4>2
        <5> QED BY <1>0, <3>3, <5>1 DEF BusInv, PassesOnce, InQueueNotTaken
      <4> QED BY <4>1, <4>2
    <3>4. \A x \in handled', c \in Publishers : outgoing'[c].message = x[3] => x[1] < outgoing'[c].at
      <4> SUFFICES ASSUME NEW x \in handled', NEW c \in Publishers, outgoing'[c].message = x[3]
                   PROVE  x[1] < outgoing'[c].at
        OBVIOUS
      <4>1. outgoing[c].message = x[3] /\ x \in handled /\ x[1] \in Nat
        BY <1>0, <2>3, <2>5 DEF m, BusInv, BusTypes
      <4>2. x[1] < outgoing[c].at
        BY <4>1 DEF BusInv, PassesOnce, TakenIsPut
      <4>3. outgoing'[c].at = outgoing[c].at \/ (outgoing[c].at = k /\ outgoing'[c].at = k + 1)
        BY <2>3, <2>5 DEF k
      <4> QED BY <1>0, <4>1, <4>2, <4>3
    <3> QED
      BY <3>1, <3>2, <3>3, <3>4 DEF PassesOnce, InQueueOnce, InQueueIsPut, InQueueNotTaken, TakenIsPut
  <2> QED BY <2>7, <2>10, <2>11 DEF BusInv
<1> QED BY <1>1, <1>2

\* A pump takes the oldest message, which nobody has taken from this queue.
LEMMA PumpKeepsBus ==
  ASSUME BusInv, NEW p \in Pumps, Pump(p)
  PROVE  BusInv'
<1> DEFINE k == p[1]
           m == Head(queues[k])
           rest == Tail(queues[k])
           x0 == <<k, p[2], m>>
<1>1. /\ k \in Nat /\ k # 0 /\ p[2] \in Nat /\ queues \in Seq(Seq(Nat))
      /\ handled' = handled \cup {x0} /\ queues[k] # <<>>
      /\ UNCHANGED <<published, outgoing>> /\ k <= Len(queues)
  BY FanOutAssumption DEF Pump, Pumps, Agents, BusInv, BusTypes
<1>2. k \in 1 .. Len(queues) /\ queues[k] \in Seq(Nat)
  BY <1>1
<1>3. queues' = [queues EXCEPT ![k] = rest]
  BY <1>2 DEF Pump, AfterTake, BusInv, BusTypes
<1>4. /\ m \in Nat /\ rest \in Seq(Nat) /\ Len(queues[k]) \in Nat /\ Len(queues[k]) > 0
      /\ m = queues[k][1] /\ Len(rest) = Len(queues[k]) - 1
      /\ \A i \in 1 .. Len(rest) : i + 1 \in 1 .. Len(queues[k]) /\ rest[i] = queues[k][i + 1]
  BY <1>1, <1>2
<1>5. x0[1] = k /\ x0[3] = m /\ x0 \in Nat \X Nat \X Nat
  BY <1>1, <1>4
<1> HIDE DEF x0, m, rest, k
<1>6. /\ queues' \in Seq(Seq(Nat)) /\ Len(queues') = Len(queues) /\ queues'[k] = rest
      /\ \A q \in 1 .. Len(queues) : q # k => queues'[q] = queues[q]
  BY <1>1, <1>2, <1>3, <1>4
<1>7. BusTypes' /\ TakenFromQueue'
  BY <1>1, <1>2, <1>5, <1>6 DEF BusInv, BusTypes, TakenFromQueue
<1>8. m \in 1 .. published
  BY <1>2, <1>4 DEF BusInv, Numbered
\* What is in a queue now was in it before, one place further back.
<1>9. ASSUME NEW q \in 1 .. Len(queues'), NEW i \in 1 .. Len(queues'[q])
      PROVE  \E j \in 1 .. Len(queues[q]) :
               /\ queues'[q][i] = queues[q][j]
               /\ j = (IF q = k THEN i + 1 ELSE i)
  BY <1>2, <1>4, <1>6
<1>10. Numbered'
  <2>1. \A q \in 1 .. Len(queues') : \A i \in 1 .. Len(queues'[q]) : queues'[q][i] \in 1 .. published'
    BY <1>1, <1>6, <1>9 DEF BusInv, Numbered
  <2> QED BY <1>1, <1>5, <1>8, <2>1 DEF BusInv, Numbered
<1>11. InQueueOnce'
  <2> SUFFICES ASSUME NEW q \in 1 .. Len(queues'), NEW i \in 1 .. Len(queues'[q]),
                      NEW j \in 1 .. Len(queues'[q]), queues'[q][i] = queues'[q][j]
               PROVE  i = j
    BY DEF InQueueOnce
  <2>1. PICK a \in 1 .. Len(queues[q]) : queues'[q][i] = queues[q][a] /\ a = (IF q = k THEN i + 1 ELSE i)
    BY <1>9
  <2>2. PICK c \in 1 .. Len(queues[q]) : queues'[q][j] = queues[q][c] /\ c = (IF q = k THEN j + 1 ELSE j)
    BY <1>9
  <2>3. a = c
    BY <1>6, <2>1, <2>2 DEF BusInv, PassesOnce, InQueueOnce
  <2> QED BY <2>1, <2>2, <2>3
<1>12. InQueueIsPut'
  <2> SUFFICES ASSUME NEW q \in 1 .. Len(queues'), NEW i \in 1 .. Len(queues'[q]), NEW b \in Publishers,
                      outgoing'[b].message = queues'[q][i]
               PROVE  q < outgoing'[b].at
    BY DEF InQueueIsPut
  <2>1. PICK j \in 1 .. Len(queues[q]) : queues'[q][i] = queues[q][j]
    BY <1>9
  <2> QED BY <1>1, <1>6, <2>1 DEF BusInv, PassesOnce, InQueueIsPut
<1>13. InQueueNotTaken'
  <2> SUFFICES ASSUME NEW q \in 1 .. Len(queues'), NEW i \in 1 .. Len(queues'[q]), NEW x \in handled',
                      x[1] = q
               PROVE  x[3] # queues'[q][i]
    BY DEF InQueueNotTaken
  <2>1. PICK j \in 1 .. Len(queues[q]) : queues'[q][i] = queues[q][j] /\ j = (IF q = k THEN i + 1 ELSE i)
    BY <1>9
  <2>2. CASE x \in handled
    BY <1>6, <2>1, <2>2 DEF BusInv, PassesOnce, InQueueNotTaken
  <2>3. CASE x = x0
    <3>1. q = k /\ j = i + 1 /\ j \in 1 .. Len(queues[k])
      BY <1>5, <2>1, <2>3
    <3>2. j # 1 /\ 1 \in 1 .. Len(queues[k])
      BY <1>4, <1>6, <3>1
    <3>3. queues[k][j] # queues[k][1]
      BY <1>2, <3>1, <3>2 DEF BusInv, PassesOnce, InQueueOnce
    <3> QED BY <1>4, <1>5, <2>1, <2>3, <3>1, <3>3
  <2> QED BY <1>1, <2>2, <2>3
<1>14. TakenIsPut'
  <2>1. 1 \in 1 .. Len(queues[k])
    BY <1>4
  <2>2. \A b \in Publishers : outgoing[b].message = m => k < outgoing[b].at
    BY <1>2, <1>4, <2>1 DEF BusInv, PassesOnce, InQueueIsPut
  <2> QED BY <1>1, <1>5, <2>2 DEF BusInv, PassesOnce, TakenIsPut
<1>15. OneTakerPerQueue'
  <2>1. \A x \in handled : x[1] = k => x[3] # m
    <3>1. 1 \in 1 .. Len(queues[k])
      BY <1>4
    <3> QED BY <1>2, <1>4, <3>1 DEF BusInv, PassesOnce, InQueueNotTaken
  <2> QED BY <1>1, <1>5, <2>1 DEF BusInv, OneTakerPerQueue
<1> QED BY <1>7, <1>10, <1>11, <1>12, <1>13, <1>14, <1>15 DEF BusInv, PassesOnce

\* However many agents share the topic's queues and whatever publishers wait at full
\* ones, a queue hands every message to one handler (InMemoryBus.publish and
\* _pump_in_memory).
THEOREM QueueHasOneTaker == BusSpec => []OneTakerPerQueue
<1>1. BusInit => BusInv
  <2> SUFFICES ASSUME BusInit PROVE BusInv
    OBVIOUS
  <2>1. BusTypes
    BY DEF BusInit, BusTypes, NotPublishing
  <2>2. \A b \in Publishers : outgoing[b].message = 0 /\ outgoing[b].at = 0
    BY DEF BusInit, NotPublishing
  <2>3. Len(queues) = 0 /\ handled = {} /\ published = 0
    BY DEF BusInit
  <2> QED
    BY <2>1, <2>2, <2>3 DEF BusInv, Numbered, PassesOnce, InQueueOnce, InQueueIsPut, InQueueNotTaken,
                            TakenIsPut, TakenFromQueue, OneTakerPerQueue
<1>2. BusInv /\ [BusNext]_busVars => BusInv'
  <2> SUFFICES ASSUME BusInv, [BusNext]_busVars PROVE BusInv'
    OBVIOUS
  <2>1. CASE UNCHANGED <<queues, published, outgoing, handled>>
    BY <2>1 DEF BusInv, BusTypes, Numbered, PassesOnce, InQueueOnce, InQueueIsPut, InQueueNotTaken,
                TakenIsPut, TakenFromQueue, OneTakerPerQueue
  <2>2. ASSUME NEW p \in Pumps, HandlerReturns(p) PROVE BusInv'
    BY <2>1, <2>2 DEF HandlerReturns
  <2>3. CASE UNCHANGED busVars
    BY <2>1, <2>3 DEF busVars
  <2> QED BY <2>2, <2>3, StartKeepsBus, BeginKeepsBus, PutKeepsBus, PumpKeepsBus DEF BusNext
<1>3. BusInv => OneTakerPerQueue
  BY DEF BusInv
<1> QED BY <1>1, <1>2, <1>3, PTL DEF BusSpec

-----------------------------------------------------------------------------
(* A topic of the Redis backend. *)

StreamTypes ==
  /\ entries \in Nat /\ trimmed \in 0 .. entries /\ delivered \in 0 .. entries
  /\ reading \in [Consumers -> Seq(Nat)]

\* What was read, is pending or acknowledged has been delivered.
OnlyDelivered ==
  /\ \A c \in Consumers : \A i \in 1 .. Len(reading[c]) : reading[c][i] \in 1 .. delivered
  /\ acked \subseteq 1 .. delivered /\ pendingEntries \subseteq 1 .. delivered

\* What is lost is what came before the group or was trimmed before it was read, and
\* nothing behind it; nobody has read it.
LostBehind ==
  /\ lostEntries \subseteq 1 .. entries
  /\ \A c \in Consumers : \A i \in 1 .. Len(reading[c]) : reading[c][i] \notin lostEntries
  /\ ~grouped => alive = {} /\ delivered = 0 /\ 1 .. entries \subseteq lostEntries
  /\ grouped => /\ \A e \in lostEntries : e <= delivered \/ e <= trimmed
                /\ \A e \in delivered + 1 .. trimmed : e \in lostEntries

StreamInv == StreamTypes /\ OnlyDelivered /\ LostBehind /\ NothingAckedUnhandled

\* No two consumers have read the same entry.
LEMMA OneReader ==
  ASSUME StreamInv, NEW c \in Consumers, NEW d \in Consumers, c # d,
         NEW i \in 1 .. Len(reading[c]), NEW j \in 1 .. Len(reading[d])
  PROVE  reading[c][i] # reading[d][j]
BY Zenon DEF StreamInv, NothingAckedUnhandled

\* A batch goes to one consumer and begins behind everything delivered and everything
\* trimmed.
LEMMA AssignedKeepsStream ==
  ASSUME StreamInv, NEW c \in Consumers, c \in alive, Assigned, NEW batch \in Seq(Nat),
         \A i \in 1 .. Len(batch) : batch[i] \in Unread + 1 .. LastOfBatch,
         reading' = [reading EXCEPT ![c] = batch], UNCHANGED <<entries, trimmed>>, alive' \subseteq alive
  PROVE  StreamInv'
<1> DEFINE last == LastOfBatch
           first == Unread
<1>1. /\ delivered < entries /\ delivered' = last
      /\ pendingEntries' = pendingEntries \cup (first + 1 .. last)
      /\ UNCHANGED <<entries, trimmed, grouped, acked, succeeded, lostEntries>>
  BY DEF Assigned
<1>2. /\ last \in Nat /\ delivered \in Nat /\ delivered < last /\ last <= entries /\ entries \in Nat
      /\ first \in Nat /\ delivered <= first /\ trimmed <= first /\ trimmed \in Nat
      /\ first = delivered \/ first = trimmed
  BY <1>1, RedisAssumption DEF StreamInv, StreamTypes, Unread, LastOfBatch
<1>3. grouped
  BY DEF StreamInv, LostBehind
<1>0. \A i \in 1 .. Len(batch) : batch[i] \in first + 1 .. last
  OBVIOUS
<1> HIDE DEF last, first
<1>4. /\ reading' \in [Consumers -> Seq(Nat)] /\ reading'[c] = batch
      /\ \A d \in Consumers : d # c => reading'[d] = reading[d]
  BY DEF StreamInv, StreamTypes
<1>5. StreamTypes'
  BY <1>1, <1>2, <1>4 DEF StreamInv, StreamTypes
<1>6. OnlyDelivered'
  <2>1. \A d \in Consumers : \A i \in 1 .. Len(reading'[d]) : reading'[d][i] \in 1 .. delivered'
    <3> SUFFICES ASSUME NEW d \in Consumers, NEW i \in 1 .. Len(reading'[d])
                 PROVE  reading'[d][i] \in 1 .. last
      BY <1>1
    <3>1. CASE d = c
      BY <1>0, <1>2, <1>4, <3>1
    <3>2. CASE d # c
      <4>1. reading'[d][i] \in 1 .. delivered
        BY <1>4, <3>2 DEF StreamInv, OnlyDelivered
      <4> QED BY <1>2, <4>1
    <3> QED BY <3>1, <3>2
  <2>2. acked' \subseteq 1 .. last
    BY <1>1, <1>2 DEF StreamInv, OnlyDelivered
  <2>3. pendingEntries' \subseteq 1 .. last
    BY <1>1, <1>2 DEF StreamInv, OnlyDelivered
  <2> QED BY <1>1, <2>1, <2>2, <2>3 DEF OnlyDelivered
<1>7. LostBehind'
  <2>1. \A e \in lostEntries : e \in 1 .. entries /\ (e <= last \/ e <= trimmed)
    BY <1>2, <1>3 DEF StreamInv, LostBehind
  <2>2. \A e \in last + 1 .. trimmed : e \in lostEntries
    BY <1>2, <1>3 DEF StreamInv, LostBehind
  <2>3. ASSUME NEW d \in Consumers, NEW i \in 1 .. Len(reading'[d]) PROVE reading'[d][i] \notin lostEntries
    <3>1. CASE d = c
      <4>1. \A e \in lostEntries : e \notin first + 1 .. last
        BY <1>2, <1>3 DEF StreamInv, LostBehind
      <4> QED BY <1>0, <1>4, <3>1, <4>1
    <3>2. CASE d # c
      BY <1>4, <3>2 DEF StreamInv, LostBehind
    <3> QED BY <3>1, <3>2
  <2> QED BY <1>1, <1>3, <2>1, <2>2, <2>3 DEF LostBehind
<1>8. acked' \subseteq succeeded' /\ acked' \cap pendingEntries' = {}
  BY <1>1, <1>2 DEF StreamInv, OnlyDelivered, NothingAckedUnhandled
<1>9. ASSUME NEW d \in Consumers, NEW e \in Consumers, d # e,
             NEW i \in 1 .. Len(reading'[d]), NEW j \in 1 .. Len(reading'[e])
      PROVE  reading'[d][i] # reading'[e][j]
  <2>1. CASE d = c
    <3>1. reading'[d][i] \in first + 1 .. last /\ reading'[e][j] \in 1 .. delivered
      BY <1>0, <1>4, <1>9, <2>1 DEF StreamInv, OnlyDelivered
    <3> QED BY <1>2, <3>1
  <2>2. CASE e = c
    <3>1. reading'[e][j] \in first + 1 .. last /\ reading'[d][i] \in 1 .. delivered
      BY <1>0, <1>4, <1>9, <2>2 DEF StreamInv, OnlyDelivered
    <3> QED BY <1>2, <3>1
  <2>3. CASE d # c /\ e # c
    <3>1. /\ reading'[d] = reading[d] /\ reading'[e] = reading[e]
          /\ i \in 1 .. Len(reading[d]) /\ j \in 1 .. Len(reading[e])
      BY <1>4, <2>3
    <3> QED BY <1>9, <3>1, OneReader
  <2> QED BY <2>1, <2>2, <2>3
<1>10. \A e \in 1 .. delivered' : e \in acked' \cup pendingEntries' \cup lostEntries'
  <2> SUFFICES ASSUME NEW e \in 1 .. last PROVE e \in acked' \cup pendingEntries' \cup lostEntries'
    BY <1>1
  <2>1. e \in 1 .. delivered \/ e \in delivered + 1 .. trimmed \/ e \in first + 1 .. last
    BY <1>2
  <2> QED BY <1>1, <1>3, <2>1 DEF StreamInv, LostBehind, NothingAckedUnhandled
<1>11. lostEntries' \cap (acked' \cup pendingEntries') = {}
  <2>1. \A e \in lostEntries : e \notin first + 1 .. last
    BY <1>2, <1>3 DEF StreamInv, LostBehind
  <2> QED BY <1>1, <2>1 DEF StreamInv, NothingAckedUnhandled
<1> QED BY <1>5, <1>6, <1>7, <1>8, <1>9, <1>10, <1>11 DEF StreamInv, NothingAckedUnhandled

\* Reading takes the batch; when the read fails the batch is assigned and nobody has it.
LEMMA ReadKeepsStream ==
  ASSUME StreamInv, NEW c \in Consumers, ReadEntries(c) \/ (ReadFails(c) /\ Assigned)
  PROVE  StreamInv'
<1> DEFINE batch == [i \in 1 .. LastOfBatch - Unread |-> Unread + i]
<1>1. CASE ReadEntries(c)
  <2>1. /\ Assigned /\ c \in alive /\ reading' = [reading EXCEPT ![c] = batch]
        /\ UNCHANGED <<entries, trimmed, alive>>
    BY <1>1 DEF ReadEntries
  <2>2. Unread \in Nat /\ LastOfBatch \in Nat /\ Unread <= LastOfBatch
    BY <2>1, RedisAssumption DEF Assigned, StreamInv, StreamTypes, Unread, LastOfBatch
  <2>3. batch \in Seq(Nat) /\ \A i \in 1 .. Len(batch) : batch[i] \in Unread + 1 .. LastOfBatch
    <3>1. LastOfBatch - Unread \in Nat /\ \A i \in 1 .. LastOfBatch - Unread : Unread + i \in Nat
      BY <2>2
    <3>2. batch \in Seq(Nat) /\ Len(batch) = LastOfBatch - Unread
      BY <3>1
    <3> QED BY <2>2, <3>1, <3>2
  <2> HIDE DEF batch
  <2> QED BY <2>1, <2>3, AssignedKeepsStream
<1>2. CASE ReadFails(c) /\ Assigned
  <2>1. c \in alive /\ reading[c] = <<>> /\ UNCHANGED <<entries, trimmed, reading>> /\ alive' \subseteq alive
    BY <1>2 DEF ReadFails
  <2>2. reading' = [reading EXCEPT ![c] = <<>>]
    BY <2>1 DEF StreamInv, StreamTypes
  <2>3. <<>> \in Seq(Nat) /\ Len(<<>>) = 0
    OBVIOUS
  <2>4. \A i \in 1 .. Len(<<>>) : <<>>[i] \in Unread + 1 .. LastOfBatch
    BY <2>3
  <2> QED BY <1>2, <2>1, <2>2, <2>3, <2>4, AssignedKeepsStream
<1> QED BY <1>1, <1>2

\* The entry a handler is done with leaves its batch, and is acknowledged or stays
\* pending.
LEMMA HandlerKeepsStream ==
  ASSUME StreamInv, NEW c \in Consumers, NEW result \in Results, HandlerDone(c, result)
  PROVE  StreamInv'
<1> DEFINE e == Head(reading[c])
           rest == Tail(reading[c])
<1>1. /\ reading[c] # <<>> /\ reading' = [reading EXCEPT ![c] = rest]
      /\ UNCHANGED <<entries, trimmed, grouped, delivered, lostEntries, alive>>
      /\ reading[c] \in Seq(Nat)
  BY DEF HandlerDone, AliveAfter, StreamInv, StreamTypes
<1>2. \/ /\ acked' = acked \cup {e} /\ pendingEntries' = pendingEntries \ {e}
         /\ succeeded' = succeeded \cup {e}
      \/ UNCHANGED <<acked, pendingEntries>> /\ succeeded \subseteq succeeded'
  BY DEF HandlerDone, Acked
<1>3. /\ rest \in Seq(Nat) /\ Len(rest) = Len(reading[c]) - 1 /\ Len(reading[c]) \in Nat \ {0}
      /\ e = reading[c][1] /\ 1 \in 1 .. Len(reading[c])
      /\ \A i \in 1 .. Len(rest) : i + 1 \in 1 .. Len(reading[c]) /\ rest[i] = reading[c][i + 1]
  BY <1>1
<1> HIDE DEF e, rest
<1>4. /\ reading' \in [Consumers -> Seq(Nat)] /\ reading'[c] = rest
      /\ \A d \in Consumers : d # c => reading'[d] = reading[d]
  BY <1>1, <1>3 DEF StreamInv, StreamTypes
<1>5. ASSUME NEW d \in Consumers, NEW i \in 1 .. Len(reading'[d])
      PROVE  \E j \in 1 .. Len(reading[d]) : reading'[d][i] = reading[d][j]
  BY <1>3, <1>4
<1>6. e \in 1 .. delivered
  BY <1>3 DEF StreamInv, OnlyDelivered
<1>7. StreamTypes' /\ LostBehind'
  <2>1. StreamTypes'
    BY <1>1, <1>4 DEF StreamInv, StreamTypes
  <2>2. \A d \in Consumers : \A i \in 1 .. Len(reading'[d]) : reading'[d][i] \notin lostEntries
    BY <1>5 DEF StreamInv, LostBehind
  <2> QED BY <1>1, <2>1, <2>2 DEF StreamInv, LostBehind
<1>8. OnlyDelivered'
  <2>1. \A d \in Consumers : \A i \in 1 .. Len(reading'[d]) : reading'[d][i] \in 1 .. delivered
    BY <1>5 DEF StreamInv, OnlyDelivered
  <2>2. acked' \subseteq 1 .. delivered /\ pendingEntries' \subseteq 1 .. delivered
    BY <1>2, <1>6 DEF StreamInv, OnlyDelivered
  <2> QED BY <1>1, <2>1, <2>2 DEF OnlyDelivered
<1>9. ASSUME NEW d \in Consumers, NEW g \in Consumers, d # g,
             NEW i \in 1 .. Len(reading'[d]), NEW j \in 1 .. Len(reading'[g])
      PROVE  reading'[d][i] # reading'[g][j]
  <2>1. PICK k \in 1 .. Len(reading[d]) : reading'[d][i] = reading[d][k]
    BY <1>5
  <2>2. PICK l \in 1 .. Len(reading[g]) : reading'[g][j] = reading[g][l]
    BY <1>5
  <2> QED BY <1>9, <2>1, <2>2, OneReader
<1>10. acked' \subseteq succeeded' /\ acked' \cap pendingEntries' = {}
  BY <1>2 DEF StreamInv, NothingAckedUnhandled
<1>12. lostEntries' \cap (acked' \cup pendingEntries') = {}
  <2>1. e \notin lostEntries
    BY <1>3 DEF StreamInv, LostBehind
  <2> QED BY <1>1, <1>2, <2>1 DEF StreamInv, NothingAckedUnhandled
<1>11. \A k \in 1 .. delivered' : k \in acked' \cup pendingEntries' \cup lostEntries'
  BY <1>1, <1>2 DEF StreamInv, NothingAckedUnhandled
<1> QED BY <1>7, <1>8, <1>9, <1>10, <1>11, <1>12 DEF StreamInv, NothingAckedUnhandled

\* Publishing and starting a consumer: what comes before the group or is trimmed unread
\* is lost.
LEMMA GroupKeepsStream ==
  ASSUME StreamInv, PublishEntry \/ \E c \in Consumers : StartConsumer(c)
  PROVE  StreamInv'
<1>1. UNCHANGED <<reading, pendingEntries, acked, succeeded>>
  BY DEF PublishEntry, StartConsumer
<1>2. CASE PublishEntry
  <2>1. /\ UNCHANGED <<grouped, delivered, alive>> /\ entries' = entries + 1
        /\ trimmed' \in {trimmed} \cup (trimmed .. entries' - MaxLen)
        /\ lostEntries' = lostEntries \cup (IF grouped THEN delivered + 1 .. trimmed' ELSE {entries'})
    BY <1>2 DEF PublishEntry
  <2>2. /\ entries \in Nat /\ delivered \in 0 .. entries /\ trimmed \in 0 .. entries
        /\ trimmed' \in 0 .. entries + 1 /\ trimmed <= trimmed'
    BY <2>1, RedisAssumption DEF StreamInv, StreamTypes
  <2>3. \A e \in lostEntries' : e \in lostEntries \/ (e > delivered /\ e \in 1 .. entries + 1)
    <3>1. CASE grouped
      BY <2>1, <2>2, <3>1
    <3>2. CASE ~grouped
      BY <2>1, <2>2, <3>2
    <3> QED BY <3>1, <3>2
  <2>4. StreamTypes' /\ OnlyDelivered'
    BY <1>1, <2>1, <2>2 DEF StreamInv, StreamTypes, OnlyDelivered
  <2>5. LostBehind'
    <3>1. lostEntries' \subseteq 1 .. entries + 1
      <4>1. \A e \in lostEntries : e \in 1 .. entries
        BY DEF StreamInv, LostBehind
      <4>2. \A e \in 1 .. entries : e \in 1 .. entries + 1
        BY <2>2
      <4> QED BY <2>3, <4>1, <4>2
    <3>2. \A c \in Consumers : \A i \in 1 .. Len(reading[c]) : reading[c][i] \notin lostEntries'
      BY <2>2, <2>3 DEF StreamInv, LostBehind, OnlyDelivered
    <3>3. ASSUME ~grouped PROVE alive = {} /\ delivered = 0 /\ 1 .. entries + 1 \subseteq lostEntries'
      BY <2>1, <2>2, <3>3 DEF StreamInv, LostBehind
    <3>4. ASSUME grouped
          PROVE  /\ \A e \in lostEntries' : e <= delivered \/ e <= trimmed'
                 /\ \A e \in delivered + 1 .. trimmed' : e \in lostEntries'
      BY <2>1, <2>2, <3>4 DEF StreamInv, LostBehind
    <3> QED BY <1>1, <2>1, <3>1, <3>2, <3>3, <3>4 DEF LostBehind
  <2>6. lostEntries' \cap (acked \cup pendingEntries) = {}
    BY <2>2, <2>3 DEF StreamInv, OnlyDelivered, NothingAckedUnhandled
  <2>7. NothingAckedUnhandled'
    BY <1>1, <2>1, <2>6 DEF StreamInv, NothingAckedUnhandled
  <2> QED BY <2>4, <2>5, <2>7 DEF StreamInv
<1>3. CASE \E c \in Consumers : StartConsumer(c)
  <2>1. /\ UNCHANGED <<entries, trimmed, lostEntries>> /\ grouped' = TRUE
        /\ delivered' = IF grouped THEN delivered ELSE entries
    BY <1>3 DEF StartConsumer
  <2>2. /\ entries \in Nat /\ delivered \in 0 .. entries /\ trimmed \in 0 .. entries
        /\ delivered' \in 0 .. entries /\ delivered <= delivered'
        /\ grouped => delivered' = delivered
        /\ ~grouped => delivered' = entries /\ 1 .. entries \subseteq lostEntries
    BY <2>1 DEF StreamInv, StreamTypes, LostBehind
  <2>3. StreamTypes'
    BY <1>1, <2>1, <2>2 DEF StreamInv, StreamTypes
  <2>4. OnlyDelivered'
    <3>1. \A i \in 1 .. delivered : i \in 1 .. delivered'
      BY <2>2
    <3> QED BY <1>1, <3>1 DEF StreamInv, OnlyDelivered
  <2>5. LostBehind'
    <3>1. \A e \in lostEntries : e <= delivered' \/ e <= trimmed
      BY <2>2 DEF StreamInv, LostBehind
    <3>2. \A e \in delivered' + 1 .. trimmed : e \in lostEntries
      <4>1. CASE grouped
        BY <2>2, <4>1 DEF StreamInv, LostBehind
      <4>2. CASE ~grouped
        BY <2>2, <4>2
      <4> QED BY <4>1, <4>2
    <3> QED BY <1>1, <2>1, <3>1, <3>2 DEF StreamInv, LostBehind
  <2>6. NothingAckedUnhandled'
    BY <1>1, <2>1, <2>2 DEF StreamInv, NothingAckedUnhandled
  <2> QED BY <2>3, <2>4, <2>5, <2>6 DEF StreamInv
<1> QED BY <1>2, <1>3

\* A restarted process has read nothing.
LEMMA RestartKeepsStream ==
  ASSUME StreamInv, ProcessRestarts
  PROVE  StreamInv'
<1>1. /\ UNCHANGED <<entries, trimmed, groupVars>> /\ alive' = {}
      /\ reading' = [c \in Consumers |-> <<>>]
  BY DEF ProcessRestarts
<1>2. \A c \in Consumers : reading'[c] = <<>> /\ Len(reading'[c]) = 0
  BY <1>1
<1>3. reading' \in [Consumers -> Seq(Nat)]
  BY <1>1
<1>4. StreamTypes' /\ OnlyDelivered' /\ LostBehind'
  BY <1>1, <1>2, <1>3 DEF groupVars, StreamInv, StreamTypes, OnlyDelivered, LostBehind
<1>5. NothingAckedUnhandled'
  BY <1>1, <1>2 DEF groupVars, StreamInv, NothingAckedUnhandled
<1> QED BY <1>4, <1>5 DEF StreamInv

\* For any number of consumers, any size of the batches and of the stream, errors and
\* restarts: an entry has one consumer, is acknowledged only when its handler returned,
\* and is otherwise still pending, unless it came before the group or was trimmed
\* before it was read (RedisStreamBus.subscribe, _ensure_group and publish).
THEOREM StreamIsAccountedFor == RedisSpec => []NothingAckedUnhandled
<1>1. RedisInit => StreamInv
  <2> SUFFICES ASSUME RedisInit PROVE StreamInv
    OBVIOUS
  <2>1. /\ entries = 0 /\ trimmed = 0 /\ delivered = 0 /\ reading \in [Consumers -> Seq(Nat)]
        /\ \A c \in Consumers : Len(reading[c]) = 0
        /\ alive = {} /\ grouped = FALSE /\ lostEntries = {}
        /\ pendingEntries = {} /\ acked = {} /\ succeeded = {}
    BY DEF RedisInit
  <2> QED BY <2>1 DEF StreamInv, StreamTypes, OnlyDelivered, LostBehind, NothingAckedUnhandled
<1>2. StreamInv /\ [RedisNext]_redisVars => StreamInv'
  <2> SUFFICES ASSUME StreamInv, [RedisNext]_redisVars PROVE StreamInv'
    OBVIOUS
  <2>1. CASE UNCHANGED <<entries, trimmed, reading, groupVars>> /\ alive' \subseteq alive
    BY <2>1 DEF groupVars, StreamInv, StreamTypes, OnlyDelivered, LostBehind, NothingAckedUnhandled
  <2>2. ASSUME NEW c \in Consumers, ReadFails(c) \/ LoopEnds(c)
        PROVE  StreamInv'
    <3>1. CASE ReadFails(c) /\ Assigned
      BY <3>1, ReadKeepsStream
    <3>2. CASE UNCHANGED <<entries, trimmed, reading, groupVars>> /\ alive' \subseteq alive
      BY <2>1, <3>2
    <3> QED BY <2>2, <3>1, <3>2 DEF ReadFails, LoopEnds
  <2>3. CASE Ping \/ UNCHANGED redisVars
    BY <2>1, <2>3 DEF Ping, redisVars, groupVars
  <2> QED BY <2>1, <2>2, <2>3, GroupKeepsStream, ReadKeepsStream, HandlerKeepsStream, RestartKeepsStream
          DEF RedisNext
<1>3. StreamInv => NothingAckedUnhandled
  BY DEF StreamInv
<1> QED BY <1>1, <1>2, <1>3, PTL DEF RedisSpec

-----------------------------------------------------------------------------
(* Credit lines. *)

\* The library's sum of the orders' sizes is the sum the lemmas are about.
LEMMA MapThenSumIsTotal ==
  ASSUME NEW h, NEW D, NEW S \in SUBSET D, IsFiniteSet(S)
  PROVE  MapThenSumSet(LAMBDA d : h[d].notional, S) = SetTotal([d \in D |-> h[d].notional], S)
<1> DEFINE f == [d \in D |-> h[d].notional]
           Fold(g) == g = [s \in SUBSET S |->
                             IF s = {} THEN 0
                             ELSE h[CHOOSE x \in s : TRUE].notional + g[s \ {CHOOSE x \in s : TRUE}]]
           it == CHOOSE g : Fold(g)
<1>1. MapThenSumSet(LAMBDA d : h[d].notional, S) = it[S]
  BY Zenon DEF MapThenSumSet, MapThenFoldSet
<1>2. ASSUME NEW g PROVE Fold(g) <=> SetSums(f, S, g)
  <2>1. ASSUME NEW s \in SUBSET S
        PROVE  (IF s = {} THEN 0 ELSE h[Pick(s)].notional + g[s \ {Pick(s)}])
                 = (IF s = {} THEN 0 ELSE f[Pick(s)] + g[s \ {Pick(s)}])
    <3>1. CASE s = {}
      BY <3>1
    <3>2. CASE s # {}
      <4>1. Pick(s) \in D
        BY <3>2, PickIsElement
      <4>2. f[Pick(s)] = h[Pick(s)].notional
        BY <4>1
      <4> QED BY <4>2
    <3> QED BY <3>1, <3>2
  <2>2. [s \in SUBSET S |-> IF s = {} THEN 0 ELSE h[Pick(s)].notional + g[s \ {Pick(s)}]]
          = [s \in SUBSET S |-> IF s = {} THEN 0 ELSE f[Pick(s)] + g[s \ {Pick(s)}]]
    BY <2>1
  <2> HIDE DEF f
  <2> QED BY <2>2, Zenon DEF SetSums, Pick
<1> HIDE DEF f, Fold
<1>3. PICK g : SetSums(f, S, g)
  BY SetSumsExist
<1>4. Fold(it)
  BY <1>2, <1>3, Zenon
<1>5. SetSums(f, S, it)
  BY <1>2, <1>4
<1> HIDE DEF it
<1>6. SetTotal(f, S) = it[S]
  BY <1>5, SetTotalIs
<1> QED BY <1>1, <1>6 DEF f

\* A desk's order names a broker and a size as the desk chose them.
DeskOrders == [at : {"selected", "open"}, broker : Brokers, notional : Notionals]

\* The desks whose orders are open at broker b, and what the orders are worth.
OpenAt(b) == {d \in Desks : desk[d].at = "open" /\ desk[d].broker = b}
Worth == [d \in Desks |-> desk[d].notional]

CreditTypes ==
  /\ used \in [Brokers -> 0 .. HardLimit]
  /\ desk \in [Desks -> {NoOrder} \cup DeskOrders]

CreditInv == CreditTypes /\ \A b \in Brokers : used[b] = SetTotal(Worth, OpenAt(b))

\* An order of a desk that is open has a size, and there are finitely many.
LEMMA OpenOrders ==
  ASSUME CreditTypes, NEW b
  PROVE  /\ IsFiniteSet(OpenAt(b)) /\ OpenAt(b) \subseteq Desks
         /\ \A d \in OpenAt(b) : Worth[d] \in Nat
<1>1. OpenAt(b) \subseteq Desks
  BY DEF OpenAt
<1>2. IsFiniteSet(OpenAt(b))
  BY <1>1, PrimeAssumption, FS_Subset
<1>3. ASSUME NEW d \in OpenAt(b) PROVE Worth[d] \in Nat
  <2>1. d \in Desks /\ desk[d].at = "open"
    BY DEF OpenAt
  <2>2. desk[d] \in DeskOrders
    BY <2>1 DEF CreditTypes, NoOrder
  <2>3. desk[d].notional \in Notionals
    BY <2>2 DEF DeskOrders
  <2>4. desk[d].notional \in Nat
    BY <2>3, PrimeAssumption
  <2> QED BY <2>1, <2>4 DEF Worth
<1> QED BY <1>1, <1>2, <1>3

\* A desk whose order is open at b neither before nor after a step that touches no other
\* desk leaves what is open at b alone.
LEMMA OthersKeepWorth ==
  ASSUME CreditTypes, NEW d \in Desks, \A x \in Desks : x # d => desk'[x] = desk[x],
         NEW b, d \notin OpenAt(b), d \notin OpenAt(b)'
  PROVE  SetTotal(Worth, OpenAt(b))' = SetTotal(Worth, OpenAt(b))
<1>1. OpenAt(b)' = OpenAt(b)
  BY DEF OpenAt
<1>2. \A x \in OpenAt(b) : Worth'[x] = Worth[x]
  BY DEF OpenAt, Worth
<1>3. SetTotal(Worth', OpenAt(b)) = SetTotal(Worth, OpenAt(b))
  BY <1>2, OpenOrders, SetTotalSame
<1> QED BY <1>1, <1>3

\* A choice uses nothing.
LEMMA SelectKeepsCredit ==
  ASSUME CreditInv, NEW d \in Desks, NEW notional \in Notionals, NEW choice \in Brokers, NEW b \in Brokers,
         SelectBroker(d, notional, choice, b)
  PROVE  CreditInv'
<1>1. CreditTypes'
  BY DEF SelectBroker, CreditInv, CreditTypes, DeskOrders
<1>2. /\ \A x \in Desks : x # d => desk'[x] = desk[x]
      /\ desk[d].at = "none" /\ desk'[d].at = "selected" /\ UNCHANGED used
  BY DEF SelectBroker, CreditInv, CreditTypes, NoOrder
<1>3. ASSUME NEW c \in Brokers PROVE used'[c] = SetTotal(Worth, OpenAt(c))'
  <2>1. d \notin OpenAt(c) /\ d \notin OpenAt(c)'
    BY <1>2 DEF OpenAt
  <2> QED BY <1>2, <2>1, OthersKeepWorth DEF CreditInv
<1> QED BY <1>1, <1>3 DEF CreditInv

\* A line takes an order within its hard limit and adds it, or the desk starts over.
LEMMA ConsumeKeepsCredit ==
  ASSUME CreditInv, NEW d \in Desks, ConsumeCredit(d)
  PROVE  CreditInv'
<1>0. HardLimit \in Nat /\ \A m \in Notionals : m \in Nat
  BY PrimeAssumption
<1>01. desk[d].at = "selected" /\ desk[d] \in DeskOrders
  BY DEF ConsumeCredit, CreditInv, CreditTypes, NoOrder
<1>02. PICK b \in Brokers, n \in Nat : b = desk[d].broker /\ n = desk[d].notional
  BY <1>0, <1>01 DEF DeskOrders
<1>1. /\ desk[d].at = "selected" /\ desk[d] \in DeskOrders
      /\ b = desk[d].broker /\ n = desk[d].notional /\ used[b] \in 0 .. HardLimit
  BY <1>01, <1>02 DEF CreditInv, CreditTypes
<1>2. ASSUME NEW c PROVE d \notin OpenAt(c)
  BY <1>1 DEF OpenAt
<1>3. CASE Accepts(b, n)
  <2> DEFINE order == [desk[d] EXCEPT !.at = "open"]
  <2>1. used' = [used EXCEPT ![b] = used[b] + n] /\ desk' = [desk EXCEPT ![d] = order]
    BY <1>1, <1>3 DEF ConsumeCredit, CreditInv, CreditTypes
  <2>2. used[b] + n \in 0 .. HardLimit
    BY <1>0, <1>1, <1>3 DEF Accepts
  <2>3. order \in DeskOrders /\ order.at = "open" /\ order.broker = b /\ order.notional = n
    BY <1>1 DEF DeskOrders
  <2> HIDE DEF order
  <2>4. CreditTypes'
    BY <2>1, <2>2, <2>3 DEF CreditInv, CreditTypes
  <2>5. desk'[d] = order /\ \A x \in Desks : x # d => desk'[x] = desk[x]
    BY <2>1 DEF CreditInv, CreditTypes
  <2>6. ASSUME NEW c \in Brokers, c # b PROVE used'[c] = SetTotal(Worth, OpenAt(c))'
    <3>1. d \notin OpenAt(c)'
      BY <2>3, <2>5, <2>6 DEF OpenAt
    <3>2. SetTotal(Worth, OpenAt(c))' = SetTotal(Worth, OpenAt(c))
      BY <1>2, <2>5, <3>1, OthersKeepWorth DEF CreditInv
    <3>3. used'[c] = used[c]
      BY <2>1, <2>6 DEF CreditInv, CreditTypes
    <3> QED BY <3>2, <3>3 DEF CreditInv
  <2>7. used'[b] = SetTotal(Worth, OpenAt(b))'
    <3>1. OpenAt(b)' = OpenAt(b) \cup {d}
      BY <2>3, <2>5 DEF OpenAt
    <3>2. \A x \in OpenAt(b) : Worth'[x] = Worth[x]
      BY <1>2, <2>5 DEF OpenAt, Worth
    <3>3. Worth'[d] = n
      BY <2>3, <2>5 DEF Worth
    <3>4. /\ IsFiniteSet(OpenAt(b)) /\ \A x \in OpenAt(b) : Worth[x] \in Nat
          /\ d \notin OpenAt(b)
      BY <1>2, OpenOrders DEF CreditInv
    <3>5. SetTotal(Worth', OpenAt(b) \cup {d}) = SetTotal(Worth, OpenAt(b)) + n
      BY <3>2, <3>3, <3>4, SetTotalAdd
    <3>6. used'[b] = used[b] + n
      BY <1>1, <2>1 DEF CreditInv, CreditTypes
    <3>7. used[b] = SetTotal(Worth, OpenAt(b))
      BY DEF CreditInv
    <3>8. used'[b] = SetTotal(Worth', OpenAt(b) \cup {d})
      BY <3>5, <3>6, <3>7
    <3> QED BY <3>1, <3>8
  <2> QED BY <2>4, <2>6, <2>7 DEF CreditInv
<1>4. CASE ~Accepts(b, n)
  <2>1. desk' = [desk EXCEPT ![d] = NoOrder] /\ UNCHANGED used
    BY <1>1, <1>4 DEF ConsumeCredit
  <2>2. desk'[d] = NoOrder /\ \A x \in Desks : x # d => desk'[x] = desk[x]
    BY <2>1 DEF CreditInv, CreditTypes
  <2>3. CreditTypes'
    BY <2>1 DEF CreditInv, CreditTypes
  <2>4. ASSUME NEW c \in Brokers PROVE used'[c] = SetTotal(Worth, OpenAt(c))'
    <3>1. d \notin OpenAt(c)'
      BY <2>2 DEF OpenAt, NoOrder
    <3> QED BY <1>2, <2>1, <2>2, <3>1, OthersKeepWorth DEF CreditInv
  <2> QED BY <2>3, <2>4 DEF CreditInv
<1> QED BY <1>3, <1>4

\* An order that is given back is taken off its line in full: the line is never worth less.
LEMMA ReleaseKeepsCredit ==
  ASSUME CreditInv, NEW d \in Desks, ReleaseCredit(d)
  PROVE  CreditInv'
<1>0. HardLimit \in Nat /\ \A m \in Notionals : m \in Nat
  BY PrimeAssumption
<1>01. desk[d].at = "open" /\ desk[d] \in DeskOrders
  BY DEF ReleaseCredit, CreditInv, CreditTypes, NoOrder
<1>02. PICK b \in Brokers, n \in Nat : b = desk[d].broker /\ n = desk[d].notional
  BY <1>0, <1>01 DEF DeskOrders
<1>1. /\ desk[d].at = "open" /\ desk[d] \in DeskOrders
      /\ b = desk[d].broker /\ n = desk[d].notional /\ used[b] \in 0 .. HardLimit
  BY <1>01, <1>02 DEF CreditInv, CreditTypes
<1>2. used' = [used EXCEPT ![b] = Released(b, n)] /\ desk' = [desk EXCEPT ![d] = NoOrder]
  BY <1>1 DEF ReleaseCredit
<1>3. Released(b, n) \in 0 .. HardLimit
  BY <1>0, <1>1 DEF Released
<1>4. Worth[d] = n /\ d \in OpenAt(b) /\ \A c : c # b => d \notin OpenAt(c)
  BY <1>1 DEF Worth, OpenAt
<1>5. CreditTypes'
  BY <1>2, <1>3 DEF CreditInv, CreditTypes
<1>6. desk'[d] = NoOrder /\ \A x \in Desks : x # d => desk'[x] = desk[x]
  BY <1>2 DEF CreditInv, CreditTypes
<1>7. \A c : d \notin OpenAt(c)'
  BY <1>6 DEF OpenAt, NoOrder
<1>8. ASSUME NEW c \in Brokers, c # b PROVE used'[c] = SetTotal(Worth, OpenAt(c))'
  <2>1. SetTotal(Worth, OpenAt(c))' = SetTotal(Worth, OpenAt(c))
    BY <1>4, <1>6, <1>7, <1>8, OthersKeepWorth DEF CreditInv
  <2>2. used'[c] = used[c]
    BY <1>2, <1>8 DEF CreditInv, CreditTypes
  <2> QED BY <2>1, <2>2 DEF CreditInv
<1>9. used'[b] = SetTotal(Worth, OpenAt(b))'
  <2> DEFINE rest == OpenAt(b) \ {d}
  <2>1. OpenAt(b)' = rest
    BY <1>6 DEF OpenAt, NoOrder
  <2>2. \A x \in rest : Worth'[x] = Worth[x]
    BY <1>6 DEF OpenAt, Worth
  <2>3. /\ SetTotal(Worth, OpenAt(b)) = n + SetTotal(Worth, rest)
        /\ SetTotal(Worth, rest) \in Nat
    BY <1>4, OpenOrders, SetTotalRemove DEF CreditInv
  <2>4. IsFiniteSet(rest)
    BY OpenOrders, FS_RemoveElement DEF CreditInv
  <2> HIDE DEF rest
  <2>5. SetTotal(Worth', rest) = SetTotal(Worth, rest)
    BY <2>2, <2>4, SetTotalSame
  <2>6. used[b] = n + SetTotal(Worth, rest)
    BY <1>1, <2>3 DEF CreditInv
  <2>7. Released(b, n) = SetTotal(Worth, rest)
    BY <1>1, <2>3, <2>6 DEF Released
  <2>8. used'[b] = Released(b, n)
    BY <1>1, <1>2 DEF CreditInv, CreditTypes
  <2> QED BY <2>1, <2>5, <2>7, <2>8
<1> QED BY <1>5, <1>8, <1>9 DEF CreditInv

\* A line that others used up since the choice refuses, so that no line ever passes its
\* hard limit, and a line is used by exactly the orders that are open, for any brokers,
\* desks and sizes (CreditLine.consume and release).
THEOREM CreditIsGivenBack == PrimeSpec => []CreditIsSound
<1>1. PrimeInit => CreditInv
  <2> SUFFICES ASSUME PrimeInit PROVE CreditInv
    OBVIOUS
  <2>1. CreditTypes
    BY PrimeAssumption DEF PrimeInit, CreditTypes
  <2>2. ASSUME NEW b \in Brokers PROVE used[b] = SetTotal(Worth, OpenAt(b))
    <3>1. OpenAt(b) = {}
      BY DEF PrimeInit, OpenAt, NoOrder
    <3> QED BY <3>1, SetTotalEmpty DEF PrimeInit
  <2> QED BY <2>1, <2>2 DEF CreditInv
<1>2. CreditInv /\ [PrimeNext]_primeVars => CreditInv'
  <2> SUFFICES ASSUME CreditInv, [PrimeNext]_primeVars PROVE CreditInv'
    OBVIOUS
  <2>1. CASE UNCHANGED primeVars
    BY <2>1 DEF primeVars, CreditInv, CreditTypes, OpenAt, Worth, SetTotal
  <2> QED BY <2>1, SelectKeepsCredit, ConsumeKeepsCredit, ReleaseKeepsCredit DEF PrimeNext
<1>3. CreditInv => CreditIsSound
  <2> SUFFICES ASSUME CreditInv PROVE CreditIsSound
    OBVIOUS
  <2>1. WithinHardLimit
    BY PrimeAssumption DEF CreditInv, CreditTypes, WithinHardLimit
  <2>2. ASSUME NEW b \in Brokers
        PROVE  used[b] = MapThenSumSet(LAMBDA d : desk[d].notional, OpenAt(b))
    <3>1. MapThenSumSet(LAMBDA d : desk[d].notional, OpenAt(b)) = SetTotal(Worth, OpenAt(b))
      BY OpenOrders, MapThenSumIsTotal DEF CreditInv, Worth
    <3> QED BY <3>1 DEF CreditInv
  <2>3. UsedByOpenOrders
    BY <2>2, Zenon DEF UsedByOpenOrders, OpenAt
  <2> QED BY <2>1, <2>3 DEF CreditIsSound
<1> QED BY <1>1, <1>2, <1>3, PTL DEF PrimeSpec

-----------------------------------------------------------------------------
(* Parent orders. *)

\* What the children of a sequence are worth, sent and still open.
SentTotal(s) == SetTotal([i \in DOMAIN s |-> s[i].qty], DOMAIN s)
OpenTotal(s) == SetTotal([i \in DOMAIN s |-> s[i].open], DOMAIN s)

\* The library's sum of the quantities sent is this sum.
LEMMA FoldIsSentTotal ==
  ASSUME NEW c, IsFiniteSet(DOMAIN c)
  PROVE  FoldSeq(LAMBDA x, sum : x.qty + sum, 0, c) = SentTotal(c)
<1> DEFINE S == DOMAIN c
           f == [i \in S |-> c[i].qty]
           Fold(g) == g = [s \in SUBSET S |->
                             IF s = {} THEN 0
                             ELSE c[CHOOSE x \in s : TRUE].qty + g[s \ {CHOOSE x \in s : TRUE}]]
           it == CHOOSE g : Fold(g)
<1>1. FoldSeq(LAMBDA x, sum : x.qty + sum, 0, c) = it[S]
  BY Zenon DEF FoldSeq, FoldFunction, FoldFunctionOnSet, MapThenFoldSet
<1> HIDE DEF S
<1>2. ASSUME NEW g PROVE Fold(g) <=> SetSums(f, S, g)
  <2>1. ASSUME NEW s \in SUBSET S
        PROVE  (IF s = {} THEN 0 ELSE c[Pick(s)].qty + g[s \ {Pick(s)}])
                 = (IF s = {} THEN 0 ELSE f[Pick(s)] + g[s \ {Pick(s)}])
    <3>1. CASE s = {}
      BY <3>1
    <3>2. CASE s # {}
      <4>1. Pick(s) \in S
        BY <3>2, PickIsElement
      <4>2. f[Pick(s)] = c[Pick(s)].qty
        BY <4>1
      <4> QED BY <4>2
    <3> QED BY <3>1, <3>2
  <2>2. [s \in SUBSET S |-> IF s = {} THEN 0 ELSE c[Pick(s)].qty + g[s \ {Pick(s)}]]
          = [s \in SUBSET S |-> IF s = {} THEN 0 ELSE f[Pick(s)] + g[s \ {Pick(s)}]]
    BY <2>1
  <2> HIDE DEF f
  <2> QED BY <2>2, Zenon DEF SetSums, Pick
<1> HIDE DEF f, Fold
<1>0. IsFiniteSet(S)
  BY DEF S
<1>3. PICK g : SetSums(f, S, g)
  BY <1>0, SetSumsExist
<1>4. Fold(it)
  BY <1>2, <1>3, Zenon
<1>5. SetSums(f, S, it)
  BY <1>2, <1>4
<1> HIDE DEF it
<1>6. SetTotal(f, S) = it[S]
  BY <1>0, <1>5, SetTotalIs
<1> QED BY <1>1, <1>6 DEF f, S, SentTotal

\* Rounding up to whole child orders adds less than one.
LEMMA SlicesCover ==
  ASSUME NEW a \in Nat, NEW c \in Nat \ {0}
  PROVE  /\ (a + c - 1) \div c \in Nat
         /\ ((a + c - 1) \div c) * c < a + c
BY SMTT(30)

\* A later time is due no less.
LEMMA DueGrows ==
  ASSUME NEW e \in Nat, NEW n \in Nat, NEW d \in Nat \ {0}
  PROVE  /\ (e * n) \div d \in Nat /\ ((e + 1) * n) \div d \in Nat
         /\ (e * n) \div d <= ((e + 1) * n) \div d
<1>1. (e + 1) * n = e * n + n /\ e * n \in Nat
  BY SMT
<1>2. ASSUME NEW a \in Nat PROVE a \div d \in Nat /\ a \div d <= (a + n) \div d /\ (a + n) \div d \in Nat
  BY SMTT(30)
<1> QED BY <1>1, <1>2

Child == [qty : 0 .. ChildSize, open : 0 .. ChildSize]

\* A new child adds its quantity to both sums.
LEMMA ChildAdds ==
  ASSUME NEW c \in Seq(Child), NEW x \in Child
  PROVE  /\ SentTotal(Append(c, x)) = SentTotal(c) + x.qty /\ SentTotal(c) \in Nat
         /\ OpenTotal(Append(c, x)) = OpenTotal(c) + x.open /\ OpenTotal(c) \in Nat
<1> DEFINE S == DOMAIN c
           y == Len(c) + 1
           b == Append(c, x)
           fq == [i \in S |-> c[i].qty]
           fo == [i \in S |-> c[i].open]
           gq == [i \in DOMAIN b |-> b[i].qty]
           go == [i \in DOMAIN b |-> b[i].open]
<1>0. ChildSize \in Nat
  BY AlgoAssumption
<1>1. S = 1 .. Len(c) /\ Len(c) \in Nat /\ \A i \in S : c[i] \in Child
  OBVIOUS
<1>2. IsFiniteSet(S)
  BY <1>1, FS_Interval
<1>3. DOMAIN b = S \cup {y} /\ y \notin S /\ b[y] = x /\ \A i \in S : b[i] = c[i]
  BY <1>1
<1> HIDE DEF S, b, y
<1>4. /\ \A i \in S : fq[i] \in Nat /\ fo[i] \in Nat /\ gq[i] = fq[i] /\ go[i] = fo[i]
      /\ gq[y] = x.qty /\ go[y] = x.open /\ x.qty \in Nat /\ x.open \in Nat
  BY <1>0, <1>1, <1>3 DEF Child
<1> HIDE DEF fq, fo, gq, go
<1>5. SetTotal(gq, S \cup {y}) = SetTotal(fq, S) + gq[y]
  BY <1>2, <1>3, <1>4, SetTotalAdd
<1>6. SetTotal(go, S \cup {y}) = SetTotal(fo, S) + go[y]
  BY <1>2, <1>3, <1>4, SetTotalAdd
<1>7. SetTotal(fq, S) \in Nat /\ SetTotal(fo, S) \in Nat
  BY <1>2, <1>4, SetTotalRemove
<1>8. SentTotal(b) = SetTotal(gq, S \cup {y}) /\ OpenTotal(b) = SetTotal(go, S \cup {y})
  BY <1>3 DEF SentTotal, OpenTotal, gq, go
<1>9. SentTotal(c) = SetTotal(fq, S) /\ OpenTotal(c) = SetTotal(fo, S)
  BY DEF SentTotal, OpenTotal, fq, fo, S
<1> QED BY <1>4, <1>5, <1>6, <1>7, <1>8, <1>9 DEF b

\* Child k with q more filled.
Filled(c, k, q) == [c EXCEPT ![k].open = c[k].open - q]

\* A fill of a child takes its quantity from the sum that is open.
LEMMA ChildFills ==
  ASSUME NEW c \in Seq(Child), NEW k \in DOMAIN c, NEW q \in Nat, q <= c[k].open
  PROVE  /\ Filled(c, k, q) \in Seq(Child)
         /\ SentTotal(Filled(c, k, q)) = SentTotal(c) /\ SentTotal(c) \in Nat
         /\ OpenTotal(Filled(c, k, q)) + q = OpenTotal(c)
         /\ OpenTotal(c) \in Nat /\ OpenTotal(Filled(c, k, q)) \in Nat
<1> DEFINE b == Filled(c, k, q)
           S == DOMAIN c
           fq == [i \in S |-> c[i].qty]
           fo == [i \in S |-> c[i].open]
           gq == [i \in S |-> b[i].qty]
           go == [i \in S |-> b[i].open]
<1>0. ChildSize \in Nat
  BY AlgoAssumption
<1>1. S = 1 .. Len(c) /\ Len(c) \in Nat /\ \A i \in S : c[i] \in Child
  OBVIOUS
<1>2. IsFiniteSet(S)
  BY <1>1, FS_Interval
<1>3. c[k].open \in 0 .. ChildSize /\ c[k].qty \in 0 .. ChildSize
  BY <1>1 DEF Child
<1>4. /\ b[k].qty = c[k].qty /\ b[k].open = c[k].open - q /\ b[k] \in Child
      /\ \A i \in S \ {k} : b[i] = c[i]
  BY <1>0, <1>1, <1>3 DEF Child, Filled
<1>5. b \in Seq(Child) /\ DOMAIN b = S
  <2>1. DOMAIN b = S
    BY DEF Filled
  <2>2. \A i \in S : b[i] \in Child
    BY <1>1, <1>4
  <2>3. b = [i \in S |-> b[i]]
    BY <2>1 DEF Filled
  <2> HIDE DEF b
  <2> QED BY <1>1, <2>2, <2>3
<1> HIDE DEF S, b
<1>6. /\ \A i \in S : fo[i] \in Nat /\ fq[i] \in Nat /\ go[i] \in Nat /\ gq[i] = fq[i]
      /\ \A i \in S \ {k} : go[i] = fo[i]
      /\ fo[k] = c[k].open /\ go[k] = c[k].open - q
  <2>1. ASSUME NEW i \in S
        PROVE  /\ fo[i] = c[i].open /\ fq[i] = c[i].qty /\ go[i] = b[i].open /\ gq[i] = b[i].qty
    OBVIOUS
  <2>2. \A i \in S : c[i] \in Child /\ b[i] \in Child /\ (i # k => b[i] = c[i])
    BY <1>1, <1>4
  <2>3. \A x \in Child : x.open \in Nat /\ x.qty \in Nat
    BY <1>0 DEF Child
  <2>4. \A i \in S : b[i].qty = c[i].qty
    BY <1>4, <2>2
  <2>5. k \in S
    BY DEF S
  <2> HIDE DEF fq, fo, gq, go
  <2>6. ASSUME NEW i \in S
        PROVE  fo[i] \in Nat /\ fq[i] \in Nat /\ go[i] \in Nat /\ gq[i] = fq[i]
    BY <2>1, <2>2, <2>3, <2>4, Zenon
  <2>7. ASSUME NEW i \in S \ {k} PROVE go[i] = fo[i]
    <3>1. i \in S /\ i # k
      OBVIOUS
    <3> QED BY <2>1, <2>2, <3>1, Zenon
  <2>8. fo[k] = c[k].open /\ go[k] = c[k].open - q
    BY <1>4, <2>1, <2>5, Zenon
  <2> QED BY <2>6, <2>7, <2>8
<1> HIDE DEF fq, fo, gq, go
<1>7. SetTotal(gq, S) = SetTotal(fq, S)
  BY <1>2, <1>6, SetTotalSame
<1>8. k \in S
  BY DEF S
<1>9. SetTotal(go, S) + fo[k] = SetTotal(fo, S) + go[k]
  BY <1>2, <1>6, <1>8, SetTotalChange
<1>10. SetTotal(fq, S) \in Nat /\ SetTotal(fo, S) \in Nat /\ SetTotal(go, S) \in Nat
  BY <1>2, <1>6, SetTotalRemove
<1>11. /\ SentTotal(b) = SetTotal(gq, S) /\ OpenTotal(b) = SetTotal(go, S)
       /\ SentTotal(c) = SetTotal(fq, S) /\ OpenTotal(c) = SetTotal(fo, S)
  BY <1>5 DEF SentTotal, OpenTotal, fq, fo, gq, go, S
<1>12. OpenTotal(b) + q = OpenTotal(c)
  BY <1>3, <1>6, <1>9, <1>10, <1>11
<1>13. /\ SentTotal(b) = SentTotal(c) /\ SentTotal(c) \in Nat
       /\ OpenTotal(c) \in Nat /\ OpenTotal(b) \in Nat
  BY <1>7, <1>10, <1>11
<1> QED BY <1>5, <1>12, <1>13 DEF b

AlgoTypes ==
  /\ algo \in {"twap", "vwap", "pov", "is"} /\ total \in Totals
  /\ filledQty \in Nat /\ slices \in Nat /\ elapsed \in 0 .. Duration
  /\ children \in Seq(Child)

\* What is filled and what is open was sent, no more than a child order a slice.
AlgoInv ==
  /\ AlgoTypes
  /\ slices <= NumSlices
  /\ SentTotal(children) <= slices * ChildSize
  /\ filledQty + OpenTotal(children) = SentTotal(children)
  /\ algo = "twap" => slices <= Due + 1
  /\ algo = "vwap" => slices * ChildSize * 10 < total * Profile[elapsed] + ChildSize * 10

\* The sizes of an order and its children.
LEMMA AlgoSizes ==
  ASSUME AlgoTypes
  PROVE  /\ total \in Nat \ {0} /\ ChildSize \in Nat \ {0} /\ Duration \in Nat \ {0}
         /\ NumSlices \in Nat /\ NumSlices * ChildSize < total + ChildSize
         /\ elapsed \in Nat /\ Profile[elapsed] \in Nat /\ Due \in Nat
<1>1. total \in Nat \ {0} /\ ChildSize \in Nat \ {0} /\ Duration \in Nat \ {0}
  BY AlgoAssumption DEF AlgoTypes
<1>2. NumSlices \in Nat /\ NumSlices * ChildSize < total + ChildSize
  BY <1>1, SlicesCover DEF NumSlices
<1>3. elapsed \in Nat /\ Profile[elapsed] \in Nat
  <2>1. elapsed \in 0 .. Duration /\ elapsed \in Nat
    BY <1>1 DEF AlgoTypes
  <2>2. Profile \in [0 .. Duration -> 0 .. 10]
    BY AlgoAssumption
  <2>3. Profile[elapsed] \in 0 .. 10
    BY <2>1, <2>2
  <2> QED BY <2>1, <2>3
<1>4. Due \in Nat
  BY <1>1, <1>2, <1>3, DueGrows DEF Due
<1> QED BY <1>1, <1>2, <1>3, <1>4

\* A child order is one slice more, of at most a child's size.
LEMMA ChildKeepsAlgo ==
  ASSUME AlgoInv, NEW volume \in BOOLEAN, NextChildOrder(volume)
  PROVE  AlgoInv'
<1> DEFINE qty == IF Remaining < ChildSize THEN Remaining ELSE ChildSize
           new == [qty |-> qty, open |-> qty]
           sent == slices * ChildSize
<1>0. /\ total \in Nat \ {0} /\ ChildSize \in Nat \ {0} /\ filledQty \in Nat /\ slices \in Nat
      /\ NumSlices \in Nat /\ Profile[elapsed] \in Nat /\ Due \in Nat
  BY AlgoSizes DEF AlgoInv, AlgoTypes
<1>1. qty \in 0 .. ChildSize
  BY <1>0 DEF Remaining
<1>2. /\ children' = Append(children, new) /\ slices' = slices + 1
      /\ UNCHANGED <<algo, total, filledQty, elapsed>> /\ ~FullySent /\ ShouldSend(volume)
  BY DEF NextChildOrder
<1> HIDE DEF qty
<1>3. new \in Child /\ new.qty = qty /\ new.open = qty
  BY <1>1 DEF Child
<1> HIDE DEF new
<1>4. children \in Seq(Child)
  BY DEF AlgoInv, AlgoTypes
<1>5. /\ SentTotal(children') = SentTotal(children) + qty /\ SentTotal(children) \in Nat
      /\ OpenTotal(children') = OpenTotal(children) + qty /\ OpenTotal(children) \in Nat
  BY <1>2, <1>3, <1>4, ChildAdds
<1>6. AlgoTypes'
  BY <1>0, <1>2, <1>3, <1>4 DEF AlgoInv, AlgoTypes
<1>7. slices' * ChildSize = sent + ChildSize /\ sent \in Nat
      /\ slices' * ChildSize * 10 = sent * 10 + ChildSize * 10
  BY <1>0, <1>2
<1>8. UNCHANGED <<NumSlices, Due>>
  BY <1>2 DEF NumSlices, Due
<1>9. slices' <= NumSlices'
  BY <1>0, <1>2, <1>8 DEF FullySent
<1>10. sent' = slices' * ChildSize
  OBVIOUS
<1>11. SentTotal(children) <= sent /\ filledQty + OpenTotal(children) = SentTotal(children)
  BY DEF AlgoInv
<1>12. algo = "twap" => slices <= Due
  BY <1>2 DEF ShouldSend, TwapSends
<1>13. algo = "vwap" => sent * 10 < total * Profile[elapsed]
  BY <1>2 DEF ShouldSend, VwapSends
<1> HIDE DEF sent
<1>14. SentTotal(children') <= slices' * ChildSize
  BY <1>0, <1>1, <1>5, <1>7, <1>11
<1>15. filledQty' + OpenTotal(children') = SentTotal(children')
  BY <1>0, <1>1, <1>2, <1>5, <1>11
<1>16. algo' = "twap" => slices' <= Due' + 1
  BY <1>0, <1>2, <1>8, <1>12
<1>17. algo' = "vwap" => slices' * ChildSize * 10 < total' * Profile[elapsed'] + ChildSize * 10
  <2>1. total * Profile[elapsed] \in Nat
    BY <1>0
  <2>2. algo = "vwap" => sent * 10 + ChildSize * 10 < total * Profile[elapsed] + ChildSize * 10
    BY <1>0, <1>7, <1>13, <2>1
  <2> QED BY <1>2, <1>7, <2>2
<1> QED BY <1>6, <1>9, <1>14, <1>15, <1>16, <1>17 DEF AlgoInv

\* A fill moves a quantity from what is open to what is filled.
LEMMA FillKeepsAlgo ==
  ASSUME AlgoInv, NEW k \in DOMAIN children, NEW qty \in 1 .. children[k].open, RecordChildFill(k, qty)
  PROVE  AlgoInv'
<1>1. /\ children' = [children EXCEPT ![k].open = children[k].open - qty]
      /\ filledQty' = filledQty + qty /\ UNCHANGED <<algo, total, slices, elapsed>>
  BY DEF RecordChildFill
<1>2. children \in Seq(Child) /\ children[k].open \in Nat /\ filledQty \in Nat /\ qty \in Nat
  <2>1. children \in Seq(Child) /\ filledQty \in Nat /\ ChildSize \in Nat
    BY AlgoSizes DEF AlgoInv, AlgoTypes
  <2>2. children[k] \in Child
    BY <2>1
  <2>3. children[k].open \in Nat
    BY <2>1, <2>2 DEF Child
  <2>4. qty \in Nat
    BY <2>3
  <2> QED BY <2>1, <2>3, <2>4
<1>3. /\ children' \in Seq(Child)
      /\ SentTotal(children') = SentTotal(children) /\ SentTotal(children) \in Nat
      /\ OpenTotal(children') + qty = OpenTotal(children)
      /\ OpenTotal(children) \in Nat /\ OpenTotal(children') \in Nat
  <2>1. children' = Filled(children, k, qty)
    BY <1>1, Zenon DEF Filled
  <2>2. k \in DOMAIN children /\ qty <= children[k].open
    BY <1>2
  <2> QED BY <1>2, <2>1, <2>2, ChildFills
<1>4. AlgoTypes'
  BY <1>1, <1>2, <1>3 DEF AlgoInv, AlgoTypes
<1>5. UNCHANGED <<NumSlices, Due>>
  BY <1>1 DEF NumSlices, Due
<1>6. filledQty' + OpenTotal(children') = SentTotal(children')
  BY <1>1, <1>2, <1>3 DEF AlgoInv
<1> QED BY <1>1, <1>3, <1>4, <1>5, <1>6 DEF AlgoInv

\* Time raises what is due and what the volume curve allows.
LEMMA TimeKeepsAlgo ==
  ASSUME AlgoInv, WindowPasses
  PROVE  AlgoInv'
<1>0. /\ total \in Nat \ {0} /\ ChildSize \in Nat \ {0} /\ Duration \in Nat \ {0} /\ slices \in Nat
      /\ NumSlices \in Nat /\ elapsed \in Nat /\ Profile[elapsed] \in Nat /\ Due \in Nat
  BY AlgoSizes DEF AlgoInv, AlgoTypes
<1>1. /\ elapsed < Duration /\ elapsed' = elapsed + 1
      /\ UNCHANGED <<algo, total, status, filledQty, slices, children>>
  BY DEF WindowPasses
<1>2. AlgoTypes'
  BY <1>0, <1>1 DEF AlgoInv, AlgoTypes
<1>3. NumSlices' = NumSlices
  BY <1>1 DEF NumSlices
<1>4. Due' \in Nat /\ Due <= Due'
  BY <1>0, <1>1, <1>3, DueGrows DEF Due
<1>5. Profile[elapsed'] \in Nat /\ Profile[elapsed] <= Profile[elapsed']
  <2>1. elapsed' \in 1 .. Duration /\ elapsed' \in 0 .. Duration /\ elapsed' - 1 = elapsed
    BY <1>0, <1>1
  <2>2. Profile[elapsed' - 1] <= Profile[elapsed']
    BY <2>1, AlgoAssumption
  <2>3. Profile[elapsed'] \in 0 .. 10
    BY <2>1, AlgoAssumption
  <2> QED BY <2>1, <2>2, <2>3
<1>6. algo = "vwap" => slices * ChildSize * 10 < total * Profile[elapsed'] + ChildSize * 10
  <2>1. ASSUME NEW p \in Nat, NEW r \in Nat, p <= r
        PROVE  total * p \in Nat /\ total * r \in Nat /\ total * p <= total * r
    BY <1>0, <2>1
  <2>2. /\ total * Profile[elapsed] \in Nat /\ total * Profile[elapsed'] \in Nat
        /\ total * Profile[elapsed] <= total * Profile[elapsed']
    BY <1>0, <1>5, <2>1
  <2>3. slices * ChildSize * 10 \in Nat /\ ChildSize * 10 \in Nat
    BY <1>0
  <2> QED BY <2>2, <2>3 DEF AlgoInv
<1>7. algo = "twap" => slices <= Due' + 1
  <2>1. algo = "twap" => slices <= Due + 1
    BY DEF AlgoInv
  <2>2. ASSUME NEW a \in Nat, NEW b \in Nat, NEW c \in Nat, a <= b + 1, b <= c PROVE a <= c + 1
    BY <2>2
  <2>3. slices <= Due + 1 => slices <= Due' + 1
    BY <1>0, <1>4, <2>2
  <2> QED BY <2>1, <2>3
<1> QED BY <1>1, <1>2, <1>3, <1>6, <1>7 DEF AlgoInv

\* The children of an order are worth less than the order and one child more, and so are
\* its fills; TWAP sends no slice early and VWAP is less than a child ahead of the volume
\* curve, for any sizes and however late the fills come (next_child_order, record_fill).
THEOREM ParentsAreSliced == AlgoSpec => [](OverfillIsBounded /\ PaceIsKept)
<1>1. AlgoInit => AlgoInv
  <2> SUFFICES ASSUME AlgoInit PROVE AlgoInv
    OBVIOUS
  <2>1. AlgoTypes
    BY AlgoAssumption DEF AlgoInit, AlgoTypes
  <2>2. /\ total \in Nat \ {0} /\ ChildSize \in Nat \ {0} /\ NumSlices \in Nat /\ Due \in Nat
        /\ Profile[elapsed] \in Nat
    BY <2>1, AlgoSizes
  <2>3. SentTotal(children) = 0 /\ OpenTotal(children) = 0
    <3>1. DOMAIN children = {}
      BY DEF AlgoInit
    <3> QED BY <3>1, SetTotalEmpty DEF SentTotal, OpenTotal
  <2>4. slices = 0 /\ filledQty = 0
    BY DEF AlgoInit
  <2>5. slices * ChildSize = 0 /\ slices * ChildSize * 10 = 0 /\ total * Profile[elapsed] \in Nat
    BY <2>2, <2>4
  <2> QED BY <2>1, <2>2, <2>3, <2>4, <2>5 DEF AlgoInv
<1>2. AlgoInv /\ [AlgoNext]_algoVars => AlgoInv'
  <2> SUFFICES ASSUME AlgoInv, [AlgoNext]_algoVars PROVE AlgoInv'
    OBVIOUS
  <2>1. CASE UNCHANGED <<algo, total, filledQty, slices, children, elapsed>>
    BY <2>1 DEF AlgoInv, AlgoTypes, NumSlices, Due
  <2>2. CASE SubmitParent \/ CancelParent \/ NoChildLeft \/ UNCHANGED algoVars
    BY <2>1, <2>2 DEF SubmitParent, CancelParent, NoChildLeft, algoVars
  <2> QED BY <2>2, TimeKeepsAlgo, ChildKeepsAlgo, FillKeepsAlgo DEF AlgoNext
<1>3. AlgoInv => OverfillIsBounded /\ PaceIsKept
  <2> SUFFICES ASSUME AlgoInv PROVE OverfillIsBounded /\ PaceIsKept
    OBVIOUS
  <2>0. /\ total \in Nat \ {0} /\ ChildSize \in Nat \ {0} /\ NumSlices \in Nat
        /\ NumSlices * ChildSize < total + ChildSize /\ slices \in Nat /\ filledQty \in Nat
        /\ children \in Seq(Child)
    BY AlgoSizes DEF AlgoInv, AlgoTypes
  <2>1. slices * ChildSize \in Nat /\ NumSlices * ChildSize \in Nat
        /\ slices * ChildSize <= NumSlices * ChildSize
    <3>1. slices <= NumSlices
      BY DEF AlgoInv
    <3> QED BY <2>0, <3>1
  <2>2. OpenTotal(children) \in Nat /\ SentTotal(children) \in Nat
    <3>1. [qty |-> 0, open |-> 0] \in Child
      BY <2>0 DEF Child
    <3> QED BY <2>0, <3>1, ChildAdds
  <2>3. SentTotal(children) < total + ChildSize
    BY <2>0, <2>1, <2>2 DEF AlgoInv
  <2>4. filledQty < total + ChildSize
    BY <2>0, <2>2, <2>3 DEF AlgoInv
  <2>5. FoldSeq(LAMBDA c, sum : c.qty + sum, 0, children) = SentTotal(children)
    <3>1. IsFiniteSet(DOMAIN children)
      BY <2>0, FS_Interval
    <3> QED BY <3>1, FoldIsSentTotal
  <2>6. OverfillIsBounded
    BY <2>3, <2>4, <2>5, Zenon DEF OverfillIsBounded
  <2>7. PaceIsKept
    BY DEF PaceIsKept, AlgoInv
  <2> QED BY <2>6, <2>7
<1> QED BY <1>1, <1>2, <1>3, PTL DEF AlgoSpec

-----------------------------------------------------------------------------
(* The session life cycle. *)

\* A halt without a sign-off stands until a weekend: no tick of a trading day, not even
\* one that waited for its callbacks, and no command but resume leads from it to a state
\* of the open market or one that opens into it (SessionStateMachine._tick).  The tick of
\* a weekend does end it.
THEOREM HaltOutlivesTheWeek == PipelineSpec => []HaltOutlivesTheDay
<1>1. PipelineInit => HaltOutlivesTheDay
  BY DEF PipelineInit, HaltOutlivesTheDay
<1>2. HaltOutlivesTheDay /\ [PipelineNext]_pipelineVars => HaltOutlivesTheDay'
  <2> SUFFICES ASSUME HaltOutlivesTheDay, [PipelineNext]_pipelineVars, halt' = "unsigned"
               PROVE  state' \in {"HALTED", "POST_SESSION", "SHUTDOWN"}
    BY DEF HaltOutlivesTheDay
  <2>1. ASSUME NEW new \in PipelineStates, TickTo(new)
        PROVE  state' \in {"HALTED", "POST_SESSION", "SHUTDOWN"}
    <3>1. halt = "unsigned" /\ phase # "weekend" /\ state \in {"HALTED", "POST_SESSION", "SHUTDOWN"}
      BY <2>1 DEF TickTo, HaltOutlivesTheDay
    <3> QED BY <2>1, <3>1 DEF TickTo, OpensFrom, EndsAtClose
  <2>2. ASSUME NEW new \in PipelineStates, CommandTo(new)
        PROVE  state' \in {"HALTED", "POST_SESSION", "SHUTDOWN"}
    <3>1. CASE new \in {"HALTED", "POST_SESSION", "SHUTDOWN"}
      BY <2>2, <3>1 DEF CommandTo
    <3>2. CASE new = "PAUSED" /\ state = "TRADING"
      BY <2>2, <3>2 DEF CommandTo, HaltOutlivesTheDay
    <3>3. CASE new = "TRADING"
      BY <2>2, <3>3 DEF CommandTo
    <3> QED BY <2>2, <3>1, <3>2, <3>3 DEF CommandTo
  <2>3. CASE TickGoesOn \/ LoopFindsShutdown \/ UNCHANGED pipelineVars
             \/ \E p \in Phases : ClockMoves(p)
    BY <2>3 DEF TickGoesOn, LoopFindsShutdown, ClockMoves, pipelineVars, HaltOutlivesTheDay
  <2> QED BY <2>1, <2>2, <2>3 DEF PipelineNext
<1> QED BY <1>1, <1>2, PTL DEF PipelineSpec

-----------------------------------------------------------------------------
(* The clock: bells. *)

\* A time is a day and a quarter of it, and days do not go back.
LEMMA Quarters ==
  /\ \A t \in Nat : /\ Part(t) \in 0 .. 3 /\ DayOf(t) \in Nat
                    /\ t = 4 * DayOf(t) + Part(t)
  /\ \A s, t \in Nat : s <= t => DayOf(s) <= DayOf(t)
BY DEF Part, DayOf

Bell == [bell : {"start", "end"}, day : Nat, heard : BOOLEAN]
Steps == {"sleep", "due", "timers", "alerts"}

BellTypes ==
  /\ quarter \in Nat /\ round \in [step : Steps, now : Nat] /\ round.now <= quarter
  /\ openFired \in BOOLEAN /\ closeFired \in BOOLEAN
  /\ bells \in Seq(Bell) /\ mornings \subseteq Nat /\ busRaised \in Nat

\* The flags remember the last bell: an open session is the one it started, and no
\* morning has been seen since; and they remember what happened on the day of the last
\* round.
FlagsKnowToday ==
  LET today == DayOf(round.now)
      last == bells[Len(bells)]
  IN  /\ \A d \in mornings : d <= today
      /\ openFired /\ ~closeFired =>
           Len(bells) > 0 /\ last.bell = "start" /\ \A d \in mornings : d <= last.day
      /\ Len(bells) > 0 =>
           /\ last.day <= today
           /\ last.day = today /\ last.bell = "start" => openFired /\ ~closeFired /\ Part(round.now) # 0
           /\ last.day = today /\ last.bell = "end" => closeFired /\ Part(round.now) = 3

BellInv == BellTypes /\ FlagsKnowToday /\ SessionBells

\* The history of the bells with one more.
LEMMA OneMoreBell ==
  ASSUME BellInv, NEW b \in Bell
  PROVE  /\ Append(bells, b) \in Seq(Bell) /\ Len(Append(bells, b)) = Len(bells) + 1
         /\ Len(bells) \in Nat
         /\ \A i \in 1 .. Len(bells) : Append(bells, b)[i] = bells[i]
         /\ Append(bells, b)[Len(bells) + 1] = b
<1>1. bells \in Seq(Bell)
  BY DEF BellInv, BellTypes
<1> HIDE DEF Bell
<1> QED BY <1>1

\* No bell is later than the last one, and that one is not later than the last round.
LEMMA NoLaterBell ==
  ASSUME BellInv, NEW i \in 1 .. Len(bells)
  PROVE  /\ bells[i].day \in Nat /\ bells[i].bell \in {"start", "end"}
         /\ Len(bells) \in 1 .. Len(bells)
         /\ bells[i].day <= bells[Len(bells)].day
         /\ bells[Len(bells)].day <= DayOf(round.now)
         /\ bells[Len(bells)].day \in Nat /\ bells[Len(bells)].bell \in {"start", "end"}
<1>1. bells \in Seq(Bell)
  BY DEF BellInv, BellTypes
<1>2. /\ \A j \in 1 .. Len(bells) : bells[j] \in Bell
      /\ Len(bells) \in Nat /\ Len(bells) > 0 /\ Len(bells) \in 1 .. Len(bells)
  <2> HIDE DEF Bell
  <2> QED BY <1>1
<1>3. \A b \in Bell : b.day \in Nat /\ b.bell \in {"start", "end"}
  BY DEF Bell
<1>4. bells[i] \in Bell /\ bells[Len(bells)] \in Bell
  BY <1>2
<1>5. /\ bells[i].day \in Nat /\ bells[i].bell \in {"start", "end"}
      /\ bells[Len(bells)].day \in Nat /\ bells[Len(bells)].bell \in {"start", "end"}
  BY <1>3, <1>4
<1>6. bells[i].day <= bells[Len(bells)].day
  <2>1. CASE i = Len(bells)
    BY <1>5, <2>1
  <2>2. CASE i # Len(bells)
    <3>1. i < Len(bells)
      BY <1>2, <2>2
    <3>2. \/ bells[i].day < bells[Len(bells)].day
          \/ bells[i].day = bells[Len(bells)].day
      BY <1>2, <3>1 DEF BellInv, SessionBells
    <3> QED BY <1>5, <3>2
  <2> QED BY <2>1, <2>2
<1>7. bells[Len(bells)].day <= DayOf(round.now)
  BY <1>2 DEF BellInv, FlagsKnowToday
<1> QED BY <1>2, <1>5, <1>6, <1>7

\* The bells of a round that begins at time t, as _check_session_boundaries rings them.
LEMMA BeginKeepsBells ==
  ASSUME BellInv, NEW result \in BusResults, BeginRound(result)
  PROVE  BellInv'
<1> DEFINE t == quarter
           today == DayOf(t)
           last == DayOf(round.now)
           len == Len(bells)
           opens == Part(t) = 1 /\ Weekday(t) /\ ~openFired
           opened == opens \/ (openFired /\ ~FlagDown(t))
           closedBefore == closeFired /\ ~opens
           ends == Part(t) = 3 /\ Weekday(t) /\ EndDue(opened, closedBefore)
           rung(name) == [bell |-> name, day |-> today, heard |-> result # "lost"]
<1>1. /\ round' = [step |-> IF result = "sent" THEN "due" ELSE "sleep", now |-> t]
      /\ openFired' = opened /\ closeFired' = (closedBefore \/ ends)
      /\ bells' = IF opens THEN Append(bells, rung("start"))
                  ELSE IF ends THEN Append(bells, rung("end")) ELSE bells
      /\ mornings' = IF FlagDown(t) THEN mornings \cup {today} ELSE mornings
      /\ UNCHANGED quarter /\ BusAnswers(result)
  BY Zenon DEF BeginRound
<1>2. /\ t \in Nat /\ Part(t) \in 0 .. 3 /\ today \in Nat /\ last \in Nat /\ last <= today
      /\ round.now \in Nat /\ round.now <= t /\ Part(round.now) \in 0 .. 3
      /\ t = 4 * today + Part(t) /\ round.now = 4 * last + Part(round.now)
  BY Quarters DEF BellInv, BellTypes
<1>3. last = today => Part(round.now) <= Part(t)
  <2> HIDE DEF last, today, t
  <2> QED BY <1>2
<1>4. round'.now = t /\ DayOf(round'.now) = today /\ Part(round'.now) = Part(t)
  BY <1>1
<1>5. busRaised' \in Nat /\ busRaised <= busRaised' /\ (result = "lost" => busRaised' > 0)
  BY <1>1 DEF BusAnswers, BellInv, BellTypes
<1>6. /\ openFired \in BOOLEAN /\ closeFired \in BOOLEAN
      /\ opened \in BOOLEAN /\ closedBefore \in BOOLEAN /\ ends \in BOOLEAN
  BY Zenon DEF BellInv, BellTypes, EndDue
<1>7. rung("start") \in Bell /\ rung("end") \in Bell
  BY <1>2 DEF Bell
<1>8. bells' \in Seq(Bell)
  <2>1. bells \in Seq(Bell)
    BY DEF BellInv, BellTypes
  <2> HIDE DEF opens, ends, rung, Bell
  <2> QED BY <1>1, <1>7, <2>1, OneMoreBell
<1>9. BellTypes'
  <2>1. round' \in [step : Steps, now : Nat] /\ round'.now <= quarter'
    BY <1>1, <1>2, <1>4 DEF Steps
  <2>2. openFired' \in BOOLEAN /\ closeFired' \in BOOLEAN
    <3> HIDE DEF opened, closedBefore, ends
    <3> QED BY <1>1, <1>6
  <2>3. mornings' \subseteq Nat
    BY <1>1, <1>2 DEF BellInv, BellTypes
  <2> QED BY <1>1, <1>2, <1>5, <1>8, <2>1, <2>2, <2>3 DEF BellTypes
<1>10. \A i \in 1 .. len : /\ bells[i].day \notin Weekend
                           /\ bells[i].heard \/ busRaised' > 0
  <2>1. \A i \in 1 .. len : bells[i].day \notin Weekend /\ (bells[i].heard \/ busRaised > 0)
    BY DEF BellInv, SessionBells
  <2>2. busRaised > 0 => busRaised' > 0
    BY <1>5 DEF BellInv, BellTypes
  <2> QED BY <2>1, <2>2
<1>11. (\A d \in mornings' : d <= today) /\ (\A d \in mornings : d <= today)
  <2>1. \A d \in mornings : d <= last /\ d \in Nat
    BY DEF BellInv, BellTypes, FlagsKnowToday
  <2> HIDE DEF today, last, t
  <2> QED BY <1>1, <1>2, <2>1
\* No bell of today's has rung before the open.
<1>12. (Part(t) = 0 \/ opens) => \A i \in 1 .. len : bells[i].day < today
  <2> SUFFICES ASSUME Part(t) = 0 \/ opens, NEW i \in 1 .. len PROVE bells[i].day < today
    OBVIOUS
  <2>1. /\ bells[i].day \in Nat /\ bells[i].day <= bells[len].day /\ bells[len].day <= last
        /\ bells[len].day \in Nat /\ bells[len].bell \in {"start", "end"} /\ len > 0
    BY NoLaterBell
  <2>2. bells[len].day # today
    <3> SUFFICES ASSUME bells[len].day = today PROVE FALSE
      OBVIOUS
    <3>1. last = today
      <4> HIDE DEF last, today, len
      <4> QED BY <1>2, <2>1
    <3>2. Part(round.now) <= Part(t)
      BY <1>3, <3>1
    <3>3. \/ openFired /\ Part(round.now) # 0
          \/ Part(round.now) = 3
      BY <2>1, <3>1 DEF BellInv, FlagsKnowToday
    <3>4. Part(t) <= 1 /\ (openFired => Part(t) = 0)
      BY <1>2
    <3> QED BY <1>2, <3>2, <3>3, <3>4
  <2>3. today \in Nat /\ last \in Nat /\ last <= today
    BY <1>2
  <2>4. \A x, y, z, w \in Nat : x <= y /\ y <= z /\ z <= w /\ y # w => x < w
    OBVIOUS
  <2> HIDE DEF last, today, len
  <2> QED BY <2>1, <2>2, <2>3, <2>4
<1>13. CASE opens
  <2>1. ~FlagDown(t) /\ Part(t) = 1 /\ today \notin Weekend /\ ~ends
    BY <1>13 DEF FlagDown, Weekday
  <2>2. /\ bells' = Append(bells, rung("start")) /\ mornings' = mornings
        /\ openFired' = TRUE /\ closeFired' = FALSE
    BY <1>1, <1>13, <2>1
  <2>3. /\ rung("start").bell = "start" /\ rung("start").day = today
        /\ rung("start").heard \/ busRaised' > 0
    BY <1>5
  <2> DEFINE b == rung("start")
  <2>4. b \in Bell
    BY <1>7
  <2> HIDE DEF b, rung, opens, ends, opened, closedBefore
  <2>5. /\ Len(bells') = len + 1 /\ len \in Nat /\ bells'[len + 1] = b
        /\ \A i \in 1 .. len : bells'[i] = bells[i]
    BY <2>2, <2>4, OneMoreBell DEF b
  <2>6. b.bell = "start" /\ b.day = today /\ (b.heard \/ busRaised' > 0)
    BY <2>3 DEF b
  <2>7. FlagsKnowToday'
    <3>1. bells'[Len(bells')] = b /\ Len(bells') > 0 /\ today <= today
      BY <1>2, <2>5
    <3> QED BY <1>4, <1>11, <2>1, <2>2, <2>6, <3>1 DEF FlagsKnowToday
  <2>8. SessionBells'
    <3> HIDE DEF today
    <3>1. ASSUME NEW i \in 1 .. Len(bells'), NEW j \in 1 .. Len(bells'), i < j
          PROVE  \/ bells'[i].day < bells'[j].day
                 \/ bells'[i].day = bells'[j].day /\ bells'[i].bell = "start" /\ bells'[j].bell = "end"
      <4>1. CASE j = len + 1
        <5>1. i \in 1 .. len
          BY <2>5, <3>1, <4>1
        <5> QED BY <1>12, <1>13, <2>5, <2>6, <4>1, <5>1
      <4>2. CASE j # len + 1
        <5>1. i \in 1 .. len /\ j \in 1 .. len
          BY <2>5, <3>1, <4>2
        <5>2. bells'[i] = bells[i] /\ bells'[j] = bells[j]
          BY <2>5, <5>1
        <5> QED BY <3>1, <5>1, <5>2 DEF BellInv, SessionBells
      <4> QED BY <4>1, <4>2
    <3>2. ASSUME NEW i \in 1 .. Len(bells'), bells'[i].bell = "end"
          PROVE  /\ i > 1 /\ bells'[i - 1].bell = "start"
                 /\ bells'[i - 1].day = bells'[i].day \/ bells'[i].day \notin mornings'
      <4>1. i # len + 1
        BY <2>5, <2>6, <3>2
      <4>2. i \in 1 .. len /\ bells'[i] = bells[i]
        BY <2>5, <4>1
      <4>3. /\ i > 1 /\ bells[i - 1].bell = "start"
            /\ bells[i - 1].day = bells[i].day \/ bells[i].day \notin mornings
        BY <3>2, <4>2 DEF BellInv, SessionBells
      <4>4. bells'[i - 1] = bells[i - 1]
        BY <2>5, <4>2, <4>3
      <4> QED BY <2>2, <4>2, <4>3, <4>4
    <3>3. \A i \in 1 .. Len(bells') : /\ bells'[i].day \notin Weekend
                                      /\ bells'[i].heard \/ busRaised' > 0
      BY <1>10, <2>1, <2>5, <2>6
    <3>4. Part(round'.now) # 3
      BY <1>4, <2>1
    <3> QED BY <3>1, <3>2, <3>3, <3>4 DEF SessionBells
  <2> QED BY <1>9, <2>7, <2>8 DEF BellInv
<1>14. CASE ~opens /\ ends
  <2>1. ~FlagDown(t) /\ Part(t) = 3 /\ today \notin Weekend /\ openFired /\ ~closeFired
    BY <1>14 DEF FlagDown, Weekday, EndDue
  <2>2. /\ bells' = Append(bells, rung("end")) /\ mornings' = mornings
        /\ closeFired' = TRUE
    BY <1>1, <1>14, <2>1
  <2>3. /\ rung("end").bell = "end" /\ rung("end").day = today
        /\ rung("end").heard \/ busRaised' > 0
    BY <1>5
  <2> DEFINE b == rung("end")
  <2>4. b \in Bell
    BY <1>7
  <2> HIDE DEF b, rung, opens, ends, opened, closedBefore
  <2>5. /\ Len(bells') = len + 1 /\ len \in Nat /\ bells'[len + 1] = b
        /\ \A i \in 1 .. len : bells'[i] = bells[i]
    BY <2>2, <2>4, OneMoreBell DEF b
  <2>6. b.bell = "end" /\ b.day = today /\ (b.heard \/ busRaised' > 0)
    BY <2>3 DEF b
  \* It ends the session the last bell started.
  <2>7. /\ len > 0 /\ bells[len].bell = "start" /\ \A d \in mornings : d <= bells[len].day
        /\ bells[len].day \in Nat /\ bells[len].day <= today
    <3>1. len > 0 /\ bells[len].bell = "start" /\ \A d \in mornings : d <= bells[len].day
      BY <2>1 DEF BellInv, FlagsKnowToday
    <3>2. len \in 1 .. len
      BY <2>5, <3>1
    <3>3. bells[len].day \in Nat /\ bells[len].day <= last
      BY <3>2, NoLaterBell
    <3> HIDE DEF last, today
    <3> QED BY <1>2, <3>1, <3>3
  <2>8. FlagsKnowToday'
    <3>1. bells'[Len(bells')] = b /\ Len(bells') > 0 /\ today <= today
      BY <1>2, <2>5
    <3> QED BY <1>4, <1>11, <2>1, <2>2, <2>6, <3>1 DEF FlagsKnowToday
  <2>9. SessionBells'
    <3> HIDE DEF today
    <3>1. ASSUME NEW i \in 1 .. Len(bells'), NEW j \in 1 .. Len(bells'), i < j
          PROVE  \/ bells'[i].day < bells'[j].day
                 \/ bells'[i].day = bells'[j].day /\ bells'[i].bell = "start" /\ bells'[j].bell = "end"
      <4>1. CASE j = len + 1
        <5>1. i \in 1 .. len
          BY <2>5, <3>1, <4>1
        <5>2. CASE i = len
          BY <1>2, <2>5, <2>6, <2>7, <4>1, <5>1, <5>2
        <5>3. CASE i # len
          <6>1. i < len /\ len \in 1 .. len
            BY <2>5, <5>1, <5>3
          <6>2. bells[i].day < bells[len].day
            BY <2>7, <5>1, <6>1 DEF BellInv, SessionBells
          <6>3. bells[i].day \in Nat
            BY <5>1, NoLaterBell
          <6> QED BY <1>2, <2>5, <2>6, <2>7, <4>1, <5>1, <6>2, <6>3
        <5> QED BY <5>2, <5>3
      <4>2. CASE j # len + 1
        <5>1. i \in 1 .. len /\ j \in 1 .. len
          BY <2>5, <3>1, <4>2
        <5>2. bells'[i] = bells[i] /\ bells'[j] = bells[j]
          BY <2>5, <5>1
        <5> QED BY <3>1, <5>1, <5>2 DEF BellInv, SessionBells
      <4> QED BY <4>1, <4>2
    <3>2. ASSUME NEW i \in 1 .. Len(bells'), bells'[i].bell = "end"
          PROVE  /\ i > 1 /\ bells'[i - 1].bell = "start"
                 /\ bells'[i - 1].day = bells'[i].day \/ bells'[i].day \notin mornings'
      <4>1. CASE i = len + 1
        <5>1. i > 1 /\ i - 1 = len /\ bells'[i - 1] = bells[len]
          BY <2>5, <2>7, <4>1
        <5>2. bells[len].day = today \/ today \notin mornings
          BY <1>2, <2>7
        <5> QED BY <2>2, <2>5, <2>6, <2>7, <4>1, <5>1, <5>2
      <4>2. CASE i # len + 1
        <5>1. i \in 1 .. len /\ bells'[i] = bells[i]
          BY <2>5, <4>2
        <5>2. /\ i > 1 /\ bells[i - 1].bell = "start"
              /\ bells[i - 1].day = bells[i].day \/ bells[i].day \notin mornings
          BY <3>2, <5>1 DEF BellInv, SessionBells
        <5>3. bells'[i - 1] = bells[i - 1]
          BY <2>5, <5>1, <5>2
        <5> QED BY <2>2, <5>1, <5>2, <5>3
      <4> QED BY <4>1, <4>2
    <3>3. \A i \in 1 .. Len(bells') : /\ bells'[i].day \notin Weekend
                                      /\ bells'[i].heard \/ busRaised' > 0
      BY <1>10, <2>1, <2>5, <2>6
    <3>4. \E j \in 1 .. Len(bells') : bells'[j].day = DayOf(round'.now) /\ bells'[j].bell = "end"
      <4>1. len + 1 \in 1 .. Len(bells')
        BY <2>5
      <4> QED BY <1>4, <2>5, <2>6, <4>1
    <3> QED BY <3>1, <3>2, <3>3, <3>4 DEF SessionBells
  <2> QED BY <1>9, <2>8, <2>9 DEF BellInv
<1>15. CASE ~opens /\ ~ends
  <2>1. /\ bells' = bells
        /\ openFired' <=> openFired /\ ~FlagDown(t)
        /\ closeFired' <=> closeFired
    <3>1. bells' = bells
      BY <1>1, <1>15
    <3>2. (openFired' <=> opened) /\ (closeFired' <=> closedBefore \/ ends)
      BY Zenon, <1>1, <1>6
    <3>3. (opened <=> openFired /\ ~FlagDown(t)) /\ (closedBefore \/ ends <=> closeFired)
      BY Zenon, <1>6, <1>15
    <3> QED BY <3>1, <3>2, <3>3
  <2>2. mornings' = IF FlagDown(t) THEN mornings \cup {today} ELSE mornings
    BY <1>1
  \* What the flags knew of today they still know.
  <2>3. ASSUME len > 0, bells[len].day = today
        PROVE  /\ bells[len].bell = "start" => openFired /\ ~closeFired /\ Part(t) # 0
               /\ bells[len].bell = "end" => closeFired /\ Part(t) = 3
    <3>1. len \in 1 .. len
      BY <2>3 DEF BellInv, BellTypes
    <3>2. last = today
      <4>1. bells[len].day <= last
        BY <3>1, NoLaterBell
      <4> HIDE DEF last, today, len
      <4> QED BY <1>2, <2>3, <4>1
    <3>3. Part(round.now) <= Part(t)
      BY <1>3, <3>2
    <3>4. /\ bells[len].bell = "start" => openFired /\ ~closeFired /\ Part(round.now) # 0
          /\ bells[len].bell = "end" => closeFired /\ Part(round.now) = 3
      BY <2>3, <3>2 DEF BellInv, FlagsKnowToday
    <3> QED BY <1>2, <3>3, <3>4
  <2>4. len > 0 => bells[len].day <= today
    <3> SUFFICES ASSUME len > 0 PROVE bells[len].day <= today
      OBVIOUS
    <3>1. len \in 1 .. len
      BY DEF BellInv, BellTypes
    <3>2. bells[len].day <= last /\ bells[len].day \in Nat
      BY <3>1, NoLaterBell
    <3> HIDE DEF last, today, len
    <3> QED BY <1>2, <3>2
  <2>5. FlagsKnowToday'
    <3>1. openFired' /\ ~closeFired' =>
            len > 0 /\ bells[len].bell = "start" /\ \A d \in mornings' : d <= bells[len].day
      BY <2>1, <2>2 DEF BellInv, FlagsKnowToday
    <3>2. len > 0 /\ bells[len].day = today =>
            /\ bells[len].bell = "start" => openFired' /\ ~closeFired' /\ Part(t) # 0
            /\ bells[len].bell = "end" => closeFired' /\ Part(t) = 3
      BY <2>1, <2>3 DEF FlagDown
    <3> HIDE DEF opens, ends, opened, closedBefore
    <3> QED BY <1>4, <1>11, <2>1, <2>4, <3>1, <3>2 DEF FlagsKnowToday
  <2>6. SessionBells'
    <3>1. \A i, j \in 1 .. len : i < j =>
            \/ bells[i].day < bells[j].day
            \/ bells[i].day = bells[j].day /\ bells[i].bell = "start" /\ bells[j].bell = "end"
      BY DEF BellInv, SessionBells
    <3>2. ASSUME NEW i \in 1 .. len, bells[i].bell = "end"
          PROVE  /\ i > 1 /\ bells[i - 1].bell = "start"
                 /\ bells[i - 1].day = bells[i].day \/ bells[i].day \notin mornings'
      <4>1. /\ i > 1 /\ bells[i - 1].bell = "start"
            /\ bells[i - 1].day = bells[i].day \/ bells[i].day \notin mornings
        BY <3>2 DEF BellInv, SessionBells
      <4>2. FlagDown(t) => bells[i].day # today
        <5>1. FlagDown(t) => bells[i].day < today
          BY <1>12 DEF FlagDown
        <5>2. bells[i].day \in Nat
          BY NoLaterBell
        <5> HIDE DEF today
        <5> QED BY <1>2, <5>1, <5>2
      <4> HIDE DEF today
      <4> QED BY <2>2, <4>1, <4>2
    <3>3. ASSUME Part(t) = 3, NEW i \in 1 .. len, bells[i].day = today
          PROVE  \E j \in 1 .. len : bells[j].day = today /\ bells[j].bell = "end"
      <4>1. /\ len \in 1 .. len /\ bells[i].day <= bells[len].day /\ bells[len].day \in Nat
            /\ bells[len].bell \in {"start", "end"} /\ len > 0
        BY NoLaterBell
      <4>2. bells[len].day = today
        <5>1. today \in Nat
          BY <1>2
        <5>2. \A x, y, z \in Nat : x <= y /\ y <= z /\ x = z => y = z
          OBVIOUS
        <5>3. bells[i].day <= bells[len].day /\ bells[len].day <= today
          BY <2>4, <4>1
        <5> HIDE DEF today, len
        <5> QED BY <3>3, <4>1, <5>1, <5>2, <5>3
      <4>3. CASE bells[len].bell = "end"
        BY <4>1, <4>2, <4>3
      <4>4. CASE bells[len].bell = "start"
        <5>1. openFired /\ ~closeFired
          BY <2>3, <4>1, <4>2, <4>4
        <5>2. today \notin Weekend
          BY <1>10, <4>1, <4>2
        <5>3. ends
          BY <1>15, <3>3, <5>1, <5>2 DEF EndDue, Weekday, FlagDown
        <5> QED BY <1>15, <5>3
      <4> QED BY <4>1, <4>3, <4>4
    <3> HIDE DEF today, t, opens, ends, opened, closedBefore
    <3> QED BY <1>4, <1>10, <2>1, <3>1, <3>2, <3>3 DEF SessionBells
  <2> QED BY <1>9, <2>5, <2>6 DEF BellInv
<1> HIDE DEF opens, ends
<1> QED BY <1>13, <1>14, <1>15

\* A step that answers a publish, or none at all, and leaves the flags and the bells.
LEMMA OthersKeepBells ==
  ASSUME BellInv, UNCHANGED <<openFired, closeFired, bells, mornings>>,
         quarter' = quarter \/ quarter' = quarter + 1,
         round'.now = round.now, round' \in [step : Steps, now : Nat],
         busRaised' = busRaised \/ busRaised' = busRaised + 1
  PROVE  BellInv'
<1>1. BellTypes'
  BY DEF BellInv, BellTypes
<1>2. FlagsKnowToday'
  BY DEF BellInv, FlagsKnowToday
<1>3. busRaised > 0 => busRaised' > 0
  BY DEF BellInv, BellTypes
<1>4. SessionBells'
  BY <1>3 DEF BellInv, SessionBells
<1> QED BY <1>1, <1>2, <1>4 DEF BellInv

\* Only the begin of a round rings.
LEMMA BellStep == BellInv /\ [ClockNext]_clockVars => BellInv'
<1> SUFFICES ASSUME BellInv, [ClockNext]_clockVars PROVE BellInv'
  OBVIOUS
<1>1. CASE \E result \in BusResults : BeginRound(result)
  BY <1>1, BeginKeepsBells
<1>2. ASSUME \/ UNCHANGED round
             \/ \E step \in Steps : round' = [round EXCEPT !.step = step]
      PROVE  round'.now = round.now /\ round' \in [step : Steps, now : Nat]
  BY <1>2 DEF BellInv, BellTypes
<1>3. CASE \/ TimePasses \/ TickRaises \/ UNCHANGED clockVars
           \/ (\E a \in Watched : Heartbeat(a))
           \/ \E n \in Timers : CancelTimer(n) \/ \E at \in quarter .. quarter + 1 : RegisterTimer(n, at)
  <2>1. /\ UNCHANGED <<openFired, closeFired, bells, mornings, round>>
        /\ quarter' = quarter \/ quarter' = quarter + 1
        /\ busRaised' = busRaised \/ busRaised' = busRaised + 1
    BY <1>3 DEF TimePasses, TickRaises, BusAnswers, Heartbeat, CancelTimer, RegisterTimer, clockVars,
                clockLoop
  <2> QED BY <1>2, <2>1, OthersKeepBells
<1>4. CASE \/ CollectTimers \/ CheckStalled \/ EndRound
           \/ (\E f \in firing : FireTimer(f))
           \/ \E result \in BusResults : \/ \E f \in firing : FinishTimer(f, result)
                                      \/ \E a \in silent : Alert(a, result)
  <2>1. /\ UNCHANGED <<openFired, closeFired, bells, mornings, quarter>>
        /\ busRaised' = busRaised \/ busRaised' = busRaised + 1
    BY <1>4 DEF CollectTimers, CheckStalled, EndRound, FireTimer, FinishTimer, Alert, BusAnswers, clockLoop
  <2>2. UNCHANGED round \/ \E step \in Steps : round' = [round EXCEPT !.step = step]
    BY <1>4 DEF CollectTimers, CheckStalled, EndRound, FireTimer, FinishTimer, Alert, clockLoop, Steps
  <2> QED BY <1>2, <2>1, <2>2, OthersKeepBells
<1> QED BY <1>1, <1>3, <1>4 DEF ClockNext, RoundGoesOn

-----------------------------------------------------------------------------
(* The clock: timers. *)

Ids == 1 .. MaxRegistered

TimerTypes ==
  /\ registrations \in 0 .. MaxRegistered /\ shots \subseteq 1 .. registrations
  /\ fired \in [Ids -> Nat] /\ doubtful \in [Ids -> Nat]
  /\ timers \in [Timers -> [id : 0 .. registrations, at : Nat]]
  /\ firing \subseteq [name : Timers, id : 1 .. registrations, out : BOOLEAN]
  /\ quarter \in Nat

\* A registration has one name, be it in the table or on its way in this round.
IdsAreUnique ==
  /\ \A n \in Timers : timers[n].id = 0 <=> timers[n] = NoTimer
  /\ \A m, n \in Timers : timers[m].id = timers[n].id => timers[n].id = 0 \/ m = n
  /\ \A f, g \in firing : f.id = g.id => f = g
  /\ \A f \in firing, n \in Timers : timers[n].id = f.id => n = f.name

\* A single shot that is registered, or on its way, was not heard but for the times
\* its publish raised.
ShotsAreFresh ==
  /\ \A i \in Ids : i > registrations => fired[i] = 0
  /\ \A n \in Timers : timers[n].id \in shots =>
       Repeat[n] = 0 /\ fired[timers[n].id] <= doubtful[timers[n].id]
  /\ \A f \in firing : f.id \in shots => Repeat[f.name] = 0 /\ fired[f.id] <= doubtful[f.id]
  /\ TimerFiresOnce

TimerInv == TimerTypes /\ IdsAreUnique /\ ShotsAreFresh

\* Registered ids are ids.
LEMMA TimerFacts ==
  ASSUME TimerInv
  PROVE  /\ registrations \in Nat /\ registrations <= MaxRegistered /\ MaxRegistered \in Nat
         /\ \A n \in Timers : timers[n].id \in 0 .. registrations /\ timers[n].at \in Nat
         /\ \A f \in firing : f.name \in Timers /\ f.id \in Ids /\ f.id \in 1 .. registrations
         /\ \A i \in Ids : fired[i] \in Nat /\ doubtful[i] \in Nat
         /\ \A i \in shots : i \in Ids /\ i # 0 /\ i \in 1 .. registrations
<1>1. registrations \in Nat /\ registrations <= MaxRegistered /\ MaxRegistered \in Nat
  BY ClockAssumption DEF TimerInv, TimerTypes
<1>2. \A n \in Timers : timers[n] \in [id : 0 .. registrations, at : Nat]
  BY DEF TimerInv, TimerTypes
<1>3. \A f \in firing : f \in [name : Timers, id : 1 .. registrations, out : BOOLEAN]
  BY DEF TimerInv, TimerTypes
<1>4. \A n \in Timers : timers[n].id \in 0 .. registrations /\ timers[n].at \in Nat
  BY <1>2
<1>5. \A f \in firing : f.name \in Timers /\ f.id \in Ids /\ f.id \in 1 .. registrations
  BY <1>1, <1>3 DEF Ids
<1>6. \A i \in shots : i \in Ids /\ i # 0 /\ i \in 1 .. registrations
  BY <1>1 DEF TimerInv, TimerTypes, Ids
<1> QED BY <1>1, <1>4, <1>5, <1>6 DEF TimerInv, TimerTypes

\* The timers of a round are ones that are registered.
LEMMA CollectKeepsTimers ==
  ASSUME TimerInv, CollectTimers
  PROVE  TimerInv'
<1> DEFINE due == {m \in Timers : timers[m] # NoTimer /\ timers[m].at <= round.now}
           shot(n) == [name |-> n, id |-> timers[n].id, out |-> FALSE]
<1>1. /\ firing' = {shot(n) : n \in due}
      /\ UNCHANGED <<quarter, timers, registrations, shots, fired, doubtful>>
  BY DEF CollectTimers
<1>2. \A n \in due : /\ n \in Timers /\ timers[n] # NoTimer /\ timers[n].id \in 1 .. registrations
                     /\ shot(n).name = n /\ shot(n).id = timers[n].id /\ shot(n).out = FALSE
                     /\ shot(n) \in [name : Timers, id : 1 .. registrations, out : BOOLEAN]
  <2>1. \A n \in due : n \in Timers /\ timers[n] # NoTimer /\ timers[n].id \in 1 .. registrations
    BY TimerFacts DEF TimerInv, IdsAreUnique
  <2> HIDE DEF due
  <2> QED BY <2>1
<1> HIDE DEF due, shot
<1>3. TimerTypes'
  BY <1>1, <1>2 DEF TimerInv, TimerTypes
<1>4. IdsAreUnique'
  BY <1>1, <1>2 DEF TimerInv, IdsAreUnique
<1>5. ShotsAreFresh'
  BY <1>1, <1>2 DEF TimerInv, ShotsAreFresh, TimerFiresOnce
<1> QED BY <1>3, <1>4, <1>5 DEF TimerInv

\* A TIMER_EXPIRED is on its way.
LEMMA FireKeepsTimers ==
  ASSUME TimerInv, NEW f \in firing, FireTimer(f)
  PROVE  TimerInv'
<1> DEFINE g == [f EXCEPT !.out = TRUE]
<1>1. /\ firing' = (firing \ {f}) \cup {g}
      /\ UNCHANGED <<quarter, timers, registrations, shots, fired, doubtful>>
  BY DEF FireTimer
<1>2. f \in [name : Timers, id : 1 .. registrations, out : BOOLEAN]
  BY DEF TimerInv, TimerTypes
<1>3. /\ g \in [name : Timers, id : 1 .. registrations, out : BOOLEAN]
      /\ g.name = f.name /\ g.id = f.id
  BY <1>2
<1> HIDE DEF g
<1>4. TimerTypes'
  BY <1>1, <1>3 DEF TimerInv, TimerTypes
<1>5. IdsAreUnique'
  BY <1>1, <1>3 DEF TimerInv, IdsAreUnique
<1>6. ShotsAreFresh'
  BY <1>1, <1>3 DEF TimerInv, ShotsAreFresh, TimerFiresOnce
<1> QED BY <1>4, <1>5, <1>6 DEF TimerInv

\* Behind the wait a single shot that was sent is deleted under its name, so that it
\* cannot be a registration that fires later; one whose publish raised stays.
LEMMA FinishKeepsTimers ==
  ASSUME TimerInv, NEW f \in firing, NEW result \in BusResults, FinishTimer(f, result)
  PROVE  TimerInv'
<1>1. /\ timers' = IF result = "sent" THEN AfterShot(f) ELSE timers
      /\ fired' = IF result = "lost" THEN fired ELSE [fired EXCEPT ![f.id] = fired[f.id] + 1]
      /\ doubtful' = IF result = "doubtful" THEN [doubtful EXCEPT ![f.id] = doubtful[f.id] + 1]
                     ELSE doubtful
      /\ firing' = firing \ {f}
      /\ UNCHANGED <<quarter, registrations, shots>>
  BY DEF FinishTimer
<1>2. f.name \in Timers /\ f.id \in Ids /\ Repeat[f.name] \in Nat
  BY TimerFacts, ClockAssumption
<1>3. NoTimer \in [id : 0 .. registrations, at : Nat] /\ NoTimer.id = 0
  BY TimerFacts DEF NoTimer
<1>4. ASSUME NEW n \in Timers
      PROVE  /\ timers'[n] \in [id : 0 .. registrations, at : Nat]
             /\ \/ timers'[n] = timers[n]
                \/ timers'[n] = NoTimer
                \/ timers'[n] # NoTimer /\ timers[n] # NoTimer /\ timers'[n].id = timers[n].id
             /\ result = "sent" /\ n = f.name /\ Repeat[n] = 0 => timers'[n] = NoTimer
  <2>0. timers \in [Timers -> [id : 0 .. registrations, at : Nat]]
    BY DEF TimerInv, TimerTypes
  <2>1. CASE result # "sent"
    BY <1>1, <2>0, <2>1
  <2>2. CASE result = "sent" /\ Repeat[f.name] = 0
    BY <1>1, <1>2, <1>3, <2>0, <2>2 DEF AfterShot
  <2>3. CASE result = "sent" /\ Repeat[f.name] # 0 /\ timers[f.name].id = f.id
    <3> DEFINE t == timers[f.name]
               u == [t EXCEPT !.at = t.at + Repeat[f.name]]
    <3>1. t \in [id : 0 .. registrations, at : Nat] /\ t.at + Repeat[f.name] \in Nat
      BY <1>2, <2>0
    <3>2. u \in [id : 0 .. registrations, at : Nat] /\ u.id = t.id
      BY <3>1
    <3>3. timers' = [timers EXCEPT ![f.name] = u]
      BY <1>1, <1>2, <2>0, <2>3 DEF AfterShot
    <3>4. u # NoTimer /\ t # NoTimer
      BY <1>3, <2>3, <3>2, TimerFacts
    <3> HIDE DEF u, t
    <3>5. timers'[n] = IF n = f.name THEN u ELSE timers[n]
      BY <2>0, <3>3
    <3>6. t = timers[f.name]
      BY DEF t
    <3> QED BY <2>0, <2>3, <3>2, <3>4, <3>5, <3>6
  <2>4. CASE result = "sent" /\ Repeat[f.name] # 0 /\ timers[f.name].id # f.id
    BY <1>1, <2>0, <2>4 DEF AfterShot
  <2> QED BY <2>1, <2>2, <2>3, <2>4
<1>5. timers' \in [Timers -> [id : 0 .. registrations, at : Nat]]
  <2>1. timers' = [n \in Timers |-> timers'[n]]
    BY <1>1 DEF AfterShot, TimerInv, TimerTypes
  <2> QED BY <1>4, <2>1
<1>6. /\ fired' \in [Ids -> Nat] /\ doubtful' \in [Ids -> Nat]
      /\ \A i \in Ids : i # f.id => fired'[i] = fired[i] /\ doubtful'[i] = doubtful[i]
      /\ fired'[f.id] = IF result = "lost" THEN fired[f.id] ELSE fired[f.id] + 1
      /\ doubtful'[f.id] = IF result = "doubtful" THEN doubtful[f.id] + 1 ELSE doubtful[f.id]
  BY <1>1, <1>2, TimerFacts DEF TimerInv, TimerTypes
<1>7. TimerTypes'
  BY <1>1, <1>5, <1>6 DEF TimerInv, TimerTypes
<1>8. \A n \in Timers : timers'[n].id = timers[n].id \/ timers'[n].id = 0
  BY <1>3, <1>4
<1>9. \A n \in Timers : timers'[n].id = 0 <=> timers'[n] = NoTimer
  BY <1>3, <1>4 DEF TimerInv, IdsAreUnique
<1>10. IdsAreUnique'
  BY <1>1, <1>8, <1>9, TimerFacts DEF TimerInv, IdsAreUnique
\* What is heard is paid for by the registration or by the publish that raised.
<1>11. f.id \in shots =>
         /\ fired[f.id] <= doubtful[f.id] /\ Repeat[f.name] = 0
         /\ fired'[f.id] <= 1 + doubtful'[f.id]
         /\ result # "sent" => fired'[f.id] <= doubtful'[f.id]
  <2>1. f.id \in shots => fired[f.id] <= doubtful[f.id] /\ Repeat[f.name] = 0
    BY DEF TimerInv, ShotsAreFresh
  <2>2. fired[f.id] \in Nat /\ doubtful[f.id] \in Nat /\ result \in {"sent", "lost", "doubtful"}
    BY <1>2, TimerFacts DEF BusResults
  <2> QED BY <1>6, <2>1, <2>2
<1>12. ShotsAreFresh'
  <2>1. \A i \in Ids : i > registrations' => fired'[i] = 0
    <3>1. ~(f.id > registrations)
      BY TimerFacts
    <3> QED BY <1>1, <1>6, <3>1 DEF TimerInv, ShotsAreFresh
  <2>2. ASSUME NEW n \in Timers, timers'[n].id \in shots'
        PROVE  Repeat[n] = 0 /\ fired'[timers'[n].id] <= doubtful'[timers'[n].id]
    <3>1. timers'[n].id \in shots /\ timers'[n].id # 0 /\ timers'[n].id \in Ids
      BY <1>1, <2>2, TimerFacts
    <3>2. timers'[n].id = timers[n].id
      BY <1>8, <3>1
    <3>3. Repeat[n] = 0 /\ fired[timers[n].id] <= doubtful[timers[n].id]
      BY <3>1, <3>2 DEF TimerInv, ShotsAreFresh
    <3>4. CASE timers[n].id # f.id
      BY <1>6, <3>1, <3>2, <3>3, <3>4
    <3>5. CASE timers[n].id = f.id
      <4>1. n = f.name
        BY <3>5 DEF TimerInv, IdsAreUnique
      <4>2. result # "sent"
        BY <1>3, <1>4, <3>1, <3>3, <4>1
      <4> QED BY <1>11, <3>1, <3>2, <3>3, <3>5, <4>2
    <3> QED BY <3>4, <3>5
  <2>3. ASSUME NEW g \in firing', g.id \in shots'
        PROVE  Repeat[g.name] = 0 /\ fired'[g.id] <= doubtful'[g.id]
    <3>1. g \in firing /\ g # f /\ g.id \in shots
      BY <1>1, <2>3
    <3>2. g.id # f.id /\ g.id \in Ids
      BY <3>1, TimerFacts DEF TimerInv, IdsAreUnique
    <3> QED BY <1>6, <3>1, <3>2 DEF TimerInv, ShotsAreFresh
  <2>4. TimerFiresOnce'
    <3> SUFFICES ASSUME NEW i \in shots' PROVE fired'[i] <= 1 + doubtful'[i]
      BY DEF TimerFiresOnce
    <3>1. i \in shots /\ i \in Ids
      BY <1>1, TimerFacts
    <3>2. CASE i = f.id
      BY <1>11, <3>1, <3>2
    <3>3. CASE i # f.id
      BY <1>6, <3>1, <3>3 DEF TimerInv, ShotsAreFresh, TimerFiresOnce
    <3> QED BY <3>2, <3>3
  <2> QED BY <2>1, <2>2, <2>3, <2>4 DEF ShotsAreFresh
<1> QED BY <1>7, <1>10, <1>12 DEF TimerInv

\* Registering and cancelling a name.
LEMMA TableKeepsTimers ==
  ASSUME TimerInv, NEW n \in Timers,
         CancelTimer(n) \/ \E at \in quarter .. quarter + 1 : RegisterTimer(n, at)
  PROVE  TimerInv'
<1>0. /\ UNCHANGED <<quarter, firing, fired, doubtful>>
      /\ timers \in [Timers -> [id : 0 .. registrations, at : Nat]]
      /\ NoTimer \in [id : 0 .. registrations, at : Nat] /\ NoTimer.id = 0
  BY TimerFacts DEF CancelTimer, RegisterTimer, TimerInv, TimerTypes, NoTimer
<1>1. CASE CancelTimer(n)
  <2>1. timers' = [timers EXCEPT ![n] = NoTimer] /\ UNCHANGED <<registrations, shots>>
    BY <1>1 DEF CancelTimer
  <2>2. TimerTypes'
    BY <1>0, <2>1 DEF TimerInv, TimerTypes
  <2>3. \A m \in Timers : timers'[m] = timers[m] \/ timers'[m] = NoTimer
    BY <1>0, <2>1
  <2>4. IdsAreUnique'
    BY <1>0, <2>3, TimerFacts DEF TimerInv, IdsAreUnique
  <2>5. 0 \notin shots
    BY TimerFacts
  <2>6. ShotsAreFresh'
    BY <1>0, <2>1, <2>3, <2>5 DEF TimerInv, ShotsAreFresh, TimerFiresOnce
  <2> QED BY <2>2, <2>4, <2>6 DEF TimerInv
<1>2. ASSUME NEW at \in quarter .. quarter + 1, RegisterTimer(n, at) PROVE TimerInv'
  <2> DEFINE k == registrations + 1
             new == [id |-> k, at |-> at]
  <2>1. /\ registrations < MaxRegistered /\ registrations' = k
        /\ timers' = [timers EXCEPT ![n] = new]
        /\ shots' = IF Repeat[n] = 0 THEN shots \cup {k} ELSE shots
    BY <1>2 DEF RegisterTimer
  <2>2. k \in Ids /\ k > registrations /\ fired[k] = 0 /\ doubtful[k] \in Nat /\ at \in Nat /\ k # 0
    BY <2>1, TimerFacts DEF TimerInv, TimerTypes, ShotsAreFresh, Ids
  <2>3. new \in [id : 0 .. k, at : Nat] /\ new.id = k /\ new # NoTimer
    <3>1. new \in [id : 0 .. k, at : Nat] /\ new.id = k
      BY <2>2, TimerFacts
    <3> QED BY <1>0, <2>2, <3>1
  <2>4. [id : 0 .. registrations, at : Nat] \subseteq [id : 0 .. k, at : Nat]
    BY TimerFacts
  <2>5. 1 .. registrations \subseteq 1 .. k /\ k \in 1 .. k
    BY TimerFacts
  <2>6. /\ \A m \in Timers : timers[m].id # k
        /\ \A f \in firing : f.id # k
        /\ k \notin shots
    BY TimerFacts
  <2>7. \A i \in Ids : i > k => i > registrations
    BY <2>2, TimerFacts DEF Ids
  <2> HIDE DEF new, k
  <2>8. /\ timers' \in [Timers -> [id : 0 .. k, at : Nat]] /\ timers'[n] = new
        /\ \A m \in Timers : m # n => timers'[m] = timers[m]
    BY <1>0, <2>1, <2>3, <2>4
  <2>9. TimerTypes'
    <3>1. firing \subseteq [name : Timers, id : 1 .. k, out : BOOLEAN]
      BY <2>5 DEF TimerInv, TimerTypes
    <3>2. k \in 0 .. MaxRegistered
      BY <2>2 DEF Ids
    <3>3. shots' \subseteq 1 .. k
      BY <2>1, <2>5 DEF TimerInv, TimerTypes
    <3> QED BY <1>0, <2>1, <2>8, <3>1, <3>2, <3>3 DEF TimerInv, TimerTypes
  <2>10. IdsAreUnique'
    BY <1>0, <2>2, <2>3, <2>6, <2>8 DEF TimerInv, IdsAreUnique
  <2>11. ShotsAreFresh'
    <3>1. \A i \in Ids : i > registrations' => fired'[i] = 0
      BY <1>0, <2>1, <2>7 DEF TimerInv, ShotsAreFresh
    <3>2. ASSUME NEW m \in Timers, timers'[m].id \in shots'
          PROVE  Repeat[m] = 0 /\ fired'[timers'[m].id] <= doubtful'[timers'[m].id]
      <4>1. CASE m = n
        <5>1. timers'[m].id = k /\ Repeat[n] = 0
          BY <2>1, <2>3, <2>6, <2>8, <3>2, <4>1
        <5> QED BY <1>0, <2>2, <4>1, <5>1
      <4>2. CASE m # n
        <5>1. timers'[m] = timers[m] /\ timers[m].id \in shots
          BY <2>1, <2>6, <2>8, <3>2, <4>2
        <5> QED BY <1>0, <5>1 DEF TimerInv, ShotsAreFresh
      <4> QED BY <4>1, <4>2
    <3>3. \A f \in firing' : f.id \in shots' => Repeat[f.name] = 0 /\ fired'[f.id] <= doubtful'[f.id]
      BY <1>0, <2>1, <2>6 DEF TimerInv, ShotsAreFresh
    <3>4. TimerFiresOnce'
      <4> SUFFICES ASSUME NEW i \in shots' PROVE fired'[i] <= 1 + doubtful'[i]
        BY DEF TimerFiresOnce
      <4>1. CASE i = k
        BY <1>0, <2>2, <4>1
      <4>2. CASE i # k
        BY <1>0, <2>1, <4>2 DEF TimerInv, ShotsAreFresh, TimerFiresOnce
      <4> QED BY <4>1, <4>2
    <3> QED BY <3>1, <3>2, <3>3, <3>4 DEF ShotsAreFresh
  <2> QED BY <2>9, <2>10, <2>11 DEF TimerInv
<1> QED BY <1>1, <1>2

\* Every step of the clock, of time and of the other agents keeps the timers in order.
LEMMA TimerStep == TimerInv /\ [ClockNext]_clockVars => TimerInv'
<1> SUFFICES ASSUME TimerInv, [ClockNext]_clockVars PROVE TimerInv'
  OBVIOUS
<1>1. CASE \/ TimePasses \/ TickRaises \/ CheckStalled \/ EndRound \/ UNCHANGED clockVars
           \/ (\E a \in Watched : Heartbeat(a))
           \/ \E result \in BusResults : BeginRound(result) \/ \E a \in silent : Alert(a, result)
  <2>1. UNCHANGED timerVars
    <3>1. CASE \/ TimePasses \/ TickRaises \/ CheckStalled \/ EndRound \/ UNCHANGED clockVars
               \/ \E a \in Watched : Heartbeat(a)
      BY Zenon, <3>1 DEF TimePasses, TickRaises, CheckStalled, EndRound, Heartbeat, clockVars
    <3>2. ASSUME NEW result \in BusResults, BeginRound(result) \/ \E a \in silent : Alert(a, result)
          PROVE  UNCHANGED timerVars
      BY Zenon, <3>2 DEF BeginRound, Alert
    <3> QED BY <1>1, <3>1, <3>2
  <2>2. quarter' = quarter \/ quarter' = quarter + 1
    <3>1. CASE \/ TimePasses \/ TickRaises \/ CheckStalled \/ EndRound \/ UNCHANGED clockVars
               \/ \E a \in Watched : Heartbeat(a)
      BY Zenon, <3>1 DEF TimePasses, TickRaises, CheckStalled, EndRound, Heartbeat, clockVars
    <3>2. ASSUME NEW result \in BusResults, BeginRound(result) \/ \E a \in silent : Alert(a, result)
          PROVE  UNCHANGED quarter
      BY Zenon, <3>2 DEF BeginRound, Alert
    <3> QED BY <1>1, <3>1, <3>2
  <2>3. quarter' \in Nat
    BY <2>2 DEF TimerInv, TimerTypes
  <2> QED
    BY <2>1, <2>3 DEF timerVars, TimerInv, TimerTypes, IdsAreUnique, ShotsAreFresh, TimerFiresOnce
<1> QED
  BY <1>1, CollectKeepsTimers, FireKeepsTimers, FinishKeepsTimers, TableKeepsTimers
  DEF ClockNext, RoundGoesOn

\* However long the rounds of the clock take, and whichever publish raises: a day has at
\* most one start and one end, in this order and never on a weekend; starts and ends
\* alternate but for ends slept over; an end ends the same day's start unless the whole
\* morning of its day was slept over; an evening round has ended the day's session; and
\* a single-shot registration is heard at most once, and once more for each publish that
\* raised although it was heard (_check_session_boundaries and _fire_expired_timers).
THEOREM ClockKeepsTime == ClockSpec => [](SessionBells /\ TimerFiresOnce)
<1>1. ClockInit => BellInv
  <2> SUFFICES ASSUME ClockInit PROVE BellInv
    OBVIOUS
  <2>1. /\ quarter \in Nat /\ round = [step |-> "sleep", now |-> quarter] /\ round.now = quarter
        /\ bells = <<>> /\ Len(bells) = 0 /\ mornings = {} /\ busRaised = 0
    BY DEF ClockInit
  <2>2. openFired = FALSE /\ closeFired = FALSE /\ openFired \in BOOLEAN /\ closeFired \in BOOLEAN
    BY Zenon DEF ClockInit
  <2>3. round \in [step : Steps, now : Nat]
    BY <2>1 DEF Steps
  <2>4. BellTypes
    <3> HIDE DEF Bell
    <3> QED BY <2>1, <2>2, <2>3 DEF BellTypes
  <2>5. FlagsKnowToday
    BY <2>1, <2>2 DEF FlagsKnowToday
  <2>6. SessionBells
    BY <2>1 DEF SessionBells
  <2> QED BY <2>4, <2>5, <2>6 DEF BellInv
<1>2. ClockInit => TimerInv
  <2> SUFFICES ASSUME ClockInit PROVE TimerInv
    OBVIOUS
  <2>1. /\ registrations = 0 /\ firing = {} /\ shots = {}
        /\ fired = [i \in Ids |-> 0] /\ doubtful = [i \in Ids |-> 0]
        /\ timers = [n \in Timers |-> NoTimer] /\ NoTimer.id = 0 /\ quarter \in Nat
    BY DEF ClockInit, NoTimer, Ids
  <2>2. NoTimer \in [id : 0 .. 0, at : Nat]
    BY DEF NoTimer
  <2>3. TimerTypes
    BY <2>1, <2>2, ClockAssumption DEF TimerTypes
  <2>4. IdsAreUnique /\ ShotsAreFresh
    BY <2>1 DEF IdsAreUnique, ShotsAreFresh, TimerFiresOnce
  <2> QED BY <2>3, <2>4 DEF TimerInv
<1>3. BellInv /\ TimerInv => SessionBells /\ TimerFiresOnce
  BY DEF BellInv, TimerInv, ShotsAreFresh
<1> QED BY <1>1, <1>2, <1>3, BellStep, TimerStep, PTL DEF ClockSpec

=============================================================================
