----------------------------- MODULE RaftProofs -----------------------------
(***************************************************************************)
(* Proofs about module RaftCluster for every set of proposals and every    *)
(* number of elections: types, election safety, that a proposal which      *)
(* found a leader always reaches its majority, that what is applied is in  *)
(* two logs, and that a committed halt was asked of the PSA.               *)
(***************************************************************************)
EXTENDS RaftCluster, FiniteSetTheorems, TLAPS

\* Elections are atomic, so the three terms move together.
TermsAgree == \A m, n \in Node : term[m] = term[n]

\* Entries in flight never carry a future term.
NoFutureEntry == \A p \in Commands, n \in Node : prop[p].entry.term <= term[n]

OneLeader == \A m, n \in Node : Leader(m) /\ Leader(n) => m = n

\* The first follower is reached without suspension, so its answer is yes.
FirstAck ==
  \A p \in Commands :
    /\ prop[p].pc = "peer" => \/ prop[p].acks >= Majority
                             \/ /\ loop = p
                                /\ prop[p].todo # <<>>
                                /\ \A n \in Node : prop[p].entry.term = term[n]
                                /\ prop[p].acks = 1
    /\ prop[p].pc \in {"apply", "tally"} => prop[p].acks >= Majority

\* The inductive invariant.
RaftInv == RaftTypeOK /\ TermsAgree /\ NoFutureEntry /\ OneLeader /\ FirstAck

-----------------------------------------------------------------------------
\* Unchanged state keeps the invariant.
LEMMA StutterStep ==
  ASSUME RaftInv, UNCHANGED raftVars
  PROVE  RaftInv'
BY DEF RaftInv, RaftTypeOK, TermsAgree, NoFutureEntry, OneLeader, FirstAck, Leader, raftVars, cluster,
       logs, history

\* An election moves every node to the new term and leaves one leader.
LEMMA ElectionStep ==
  ASSUME RaftInv, NEW n \in Node, StartElection(n)
  PROVE  RaftInv'
<1> DEFINE t == term[n] + 1
           granted == {p \in Peers(n) : Grants(n, p, t)}
<1>1. /\ loop = Nobody /\ t <= MaxTerm
      /\ UNCHANGED <<logs, loop, prop, halted, history>>
  BY DEF StartElection
<1>2. \A p \in Node : t > term[p] /\ term[p] = term[n]
  BY DEF RaftInv, RaftTypeOK, TermsAgree
<1>3. term' = [p \in Node |-> t] /\ t \in 0..MaxTerm
  <2>1. term' = [p \in Node |-> IF p = n \/ t > term[p] THEN t ELSE term[p]]
    BY DEF StartElection
  <2>2. t \in 0..MaxTerm
    BY <1>1, TermAssumption DEF RaftInv, RaftTypeOK
  <2> QED BY <1>2, <2>1, <2>2
<1>4. /\ role' \in [Node -> {"follower", "candidate", "leader"}]
      /\ \A p \in Node : p # n => role'[p] = "follower"
  <2>1. PICK r \in {"leader", "candidate"} :
          role' = [p \in Node |-> IF p # n THEN VoterRole(n, p, t) ELSE r]
    BY DEF StartElection
  <2>2. \A p \in Node : VoterRole(n, p, t) = "follower"
    BY <1>2 DEF VoterRole
  <2> QED BY <2>1, <2>2
<1>5. votedFor' \in [Node -> Node \cup {NoVote}]
  BY DEF StartElection, RaftInv, RaftTypeOK
<1> HIDE DEF t, granted
<1>6. RaftTypeOK'
  BY <1>1, <1>3, <1>4, <1>5 DEF RaftInv, RaftTypeOK, logs, history
<1>7. TermsAgree' /\ OneLeader'
  BY <1>3, <1>4 DEF TermsAgree, OneLeader, Leader
<1>8. NoFutureEntry'
  <2>1. ASSUME NEW p \in Commands, NEW m \in Node PROVE prop'[p].entry.term <= term'[m]
    <3>1. prop[p].entry.term <= term[m] /\ term[m] < t
      BY <1>2 DEF RaftInv, NoFutureEntry
    <3>2. prop[p].entry.term \in Int /\ term[m] \in Int /\ t \in Int
      BY <1>3 DEF RaftInv, RaftTypeOK, Frame, Entry
    <3> QED BY <1>1, <1>3, <3>1, <3>2
  <2> QED BY <2>1 DEF NoFutureEntry
<1>9. FirstAck'
  BY <1>1, ProposalAssumption DEF RaftInv, FirstAck, Commands
<1> QED BY <1>6, <1>7, <1>8, <1>9 DEF RaftInv

\* Heartbeats find every follower in the leader's term already.
LEMMA HeartbeatStep ==
  ASSUME RaftInv, NEW n \in Node, SendHeartbeats(n)
  PROVE  RaftInv'
<1>1. \A p \in Node : ~(term[p] < term[n])
  BY DEF RaftInv, RaftTypeOK, TermsAgree
<1>2. role' = role /\ term' = term
  BY <1>1 DEF SendHeartbeats, RaftInv, RaftTypeOK
<1>3. UNCHANGED raftVars
  BY <1>2 DEF SendHeartbeats, raftVars, cluster
<1> QED BY <1>3, StutterStep

\* A step of one proposal that leaves the cluster's terms and roles alone.
LEMMA FrameStep ==
  ASSUME RaftInv, NEW p \in Commands, NEW f \in Frame, Set(p, f), UNCHANGED cluster,
         log' \in [Node -> Seq(Entry)], commitIndex' \in [Node -> Nat \cup {-1}],
         lastApplied' \in [Node -> Nat \cup {-1}], loop' \in Commands \cup {Nobody},
         halted' \in BOOLEAN, called' \subseteq Commands, applied' \subseteq Commands,
         loop \in {Nobody, p},
         f.pc = "peer" => \/ f.acks >= Majority
                          \/ /\ loop' = p /\ f.todo # <<>> /\ f.acks = 1
                             /\ \A n \in Node : f.entry.term = term[n],
         f.pc \in {"apply", "tally"} => f.acks >= Majority,
         \A n \in Node : f.entry.term <= term[n]
  PROVE  RaftInv'
<1>1. /\ prop' \in [Commands -> Frame] /\ prop'[p] = f
      /\ \A q \in Commands : q # p => prop'[q] = prop[q]
  BY DEF RaftInv, RaftTypeOK, Set
<1>2. RaftTypeOK'
  BY <1>1 DEF RaftInv, RaftTypeOK, cluster
<1>3. TermsAgree' /\ OneLeader'
  BY DEF RaftInv, TermsAgree, OneLeader, Leader, cluster
<1>4. NoFutureEntry'
  BY <1>1 DEF RaftInv, NoFutureEntry, cluster
<1>5. FirstAck'
  <2>1. ASSUME NEW q \in Commands, q # p
        PROVE  prop'[q].pc \in {"peer", "apply", "tally"} => prop'[q].acks >= Majority
    BY <1>1, <2>1, ProposalAssumption DEF RaftInv, FirstAck, Commands
  <2>2. term' = term
    BY DEF cluster
  <2> QED BY <1>1, <2>1, <2>2 DEF FirstAck
<1> QED BY <1>2, <1>3, <1>4, <1>5 DEF RaftInv

\* Frames are typed records.
LEMMA FrameFacts ==
  ASSUME RaftInv, NEW p \in Commands
  PROVE  /\ prop[p] \in Frame
         /\ \A n \in Node : prop[p].entry.term <= term[n]
BY DEF RaftInv, RaftTypeOK, NoFutureEntry

\* A call that has not started, or has ended, carries no entry.
LEMMA EmptyFrame ==
  ASSUME RaftInv, NEW p \in Commands, NEW pc \in {"idle", "failed", "done"}
  PROVE  /\ Empty(p, pc) \in Frame
         /\ \A n \in Node : Empty(p, pc).entry.term <= term[n]
         /\ Empty(p, pc).pc = pc
BY TermAssumption DEF Empty, Frame, Entry, Node, RaftInv, RaftTypeOK

\* Starting a proposal, waking up and continuing after a suspension.
LEMMA ResumeFrameStep ==
  ASSUME RaftInv, NEW p \in Commands, Propose(p) \/ WakeUp(p) \/ Continue(p)
  PROVE  RaftInv'
<1>1. CASE Propose(p) \/ (WakeUp(p) /\ prop[p].tries < Retries)
  <2> DEFINE f == [prop[p] EXCEPT !.pc = "lookup"]
  <2>1. f \in Frame /\ f.pc = "lookup" /\ \A n \in Node : f.entry.term <= term[n]
    BY FrameFacts DEF Frame
  <2>2. /\ Set(p, f) /\ loop = Nobody /\ loop' = p
        /\ UNCHANGED <<cluster, logs, halted, history>>
    BY <1>1 DEF Propose, WakeUp
  <2> HIDE DEF f
  <2> QED BY <2>1, <2>2, FrameStep DEF RaftInv, RaftTypeOK, logs, history
<1>2. CASE WakeUp(p) /\ ~(prop[p].tries < Retries)
  <2>1. /\ Set(p, Empty(p, "failed")) /\ loop = Nobody /\ loop' = Nobody
        /\ UNCHANGED <<cluster, logs, halted, history>>
    BY <1>2 DEF WakeUp
  <2>2. /\ Empty(p, "failed") \in Frame /\ Empty(p, "failed").pc = "failed"
        /\ \A n \in Node : Empty(p, "failed").entry.term <= term[n]
    BY EmptyFrame
  <2> QED BY <2>1, <2>2, FrameStep DEF RaftInv, RaftTypeOK, logs, history
<1>3. CASE Continue(p)
  <2>1. loop = Nobody /\ loop' = p /\ UNCHANGED <<cluster, logs, prop, halted, history>>
    BY <1>3 DEF Continue
  <2>2. FirstAck'
    BY <2>1, ProposalAssumption DEF RaftInv, FirstAck, Commands, cluster
  <2>3. RaftTypeOK'
    BY <2>1 DEF RaftInv, RaftTypeOK, cluster, logs, history
  <2> QED
    BY <2>1, <2>2, <2>3 DEF RaftInv, TermsAgree, NoFutureEntry, OneLeader, Leader, cluster
<1> QED BY <1>1, <1>2, <1>3

\* A lookup that finds a leader starts the replication in the current term.
LEMMA LookupStep ==
  ASSUME RaftInv, NEW p \in Commands, Lookup(p)
  PROVE  RaftInv'
<1> DEFINE n == CHOOSE m \in Node : Leader(m) /\ \A k \in Node : Leader(k) => m <= k
           e == [term |-> term[n], index |-> Len(log[n]), cmd |-> p]
           f == [prop[p] EXCEPT !.pc = "peer", !.leader = n, !.todo = PeerSeq(n),
                                !.acks = 1, !.entry = e]
           g == [prop[p] EXCEPT !.pc = "asleep", !.tries = @ + 1]
<1>1. loop = p /\ UNCHANGED <<cluster, commitIndex, lastApplied, halted, history>>
  BY DEF Lookup
<1>2. CASE \A m \in Node : ~Leader(m)
  <2>1. Set(p, g) /\ loop' = Nobody /\ UNCHANGED log
    BY <1>2 DEF Lookup
  <2>2. g \in Frame /\ g.pc = "asleep" /\ \A m \in Node : g.entry.term <= term[m]
    <3>1. prop[p] \in Frame /\ prop[p].tries + 1 \in Nat
      BY FrameFacts DEF Frame
    <3>2. g \in Frame /\ g.pc = "asleep" /\ g.entry = prop[p].entry
      BY <3>1 DEF Frame
    <3> QED BY <3>2, FrameFacts
  <2> HIDE DEF g
  <2> QED BY <1>1, <2>1, <2>2, FrameStep DEF RaftInv, RaftTypeOK, history
<1>3. CASE \E m \in Node : Leader(m)
  <2>1. n \in Node
    <3>1. \E m \in Node : Leader(m) /\ \A k \in Node : Leader(k) => m <= k
      <4>1. PICK m \in Node : Leader(m)
        BY <1>3
      <4>2. \A k \in Node : Leader(k) => m <= k
        BY <4>1 DEF RaftInv, OneLeader, Node
      <4> QED BY <4>1, <4>2
    <3> QED BY <3>1
  <2>2. Set(p, f) /\ loop' = p /\ log' = [log EXCEPT ![n] = Append(log[n], e)]
    BY <1>1, <1>3 DEF Lookup, LeaderLog
  <2> HIDE DEF n
  <2>3. e \in Entry
    BY <2>1 DEF RaftInv, RaftTypeOK, Entry
  <2>4. \A m \in Node : e.term = term[m] /\ e.term <= term[m]
    BY <2>1 DEF RaftInv, RaftTypeOK, TermsAgree
  <2> HIDE DEF e
  <2>5. PeerSeq(n) \in Seq(Node) /\ PeerSeq(n) # <<>>
    <3>1. <<1, 2>> \in Seq(Node) /\ <<0, 2>> \in Seq(Node) /\ <<0, 1>> \in Seq(Node)
      BY DEF Node
    <3>2. <<1, 2>> # <<>> /\ <<0, 2>> # <<>> /\ <<0, 1>> # <<>>
      OBVIOUS
    <3>3. PeerSeq(n) \in {<<1, 2>>, <<0, 2>>, <<0, 1>>}
      <4>1. CASE n = 0
        BY <4>1 DEF PeerSeq
      <4>2. CASE n = 1
        BY <4>2 DEF PeerSeq
      <4>3. CASE n # 0 /\ n # 1
        BY <4>3 DEF PeerSeq
      <4> QED BY <4>1, <4>2, <4>3
    <3> QED BY <3>1, <3>2, <3>3
  <2>6. /\ f \in Frame /\ f.pc = "peer" /\ f.acks = 1 /\ f.todo = PeerSeq(n)
        /\ f.entry = e
    BY <2>1, <2>3, <2>5, FrameFacts DEF Frame
  <2>7. log' \in [Node -> Seq(Entry)]
    BY <2>1, <2>2, <2>3 DEF RaftInv, RaftTypeOK
  <2> HIDE DEF f
  <2> QED BY <1>1, <2>2, <2>4, <2>5, <2>6, <2>7, FrameStep DEF RaftInv, RaftTypeOK, history
<1> QED BY <1>2, <1>3

\* A follower accepts an entry of its term, which changes neither terms nor
\* who leads: the leader of that term is the sender.
LEMMA ReplicateStep ==
  ASSUME RaftInv, NEW p \in Commands, Replicate(p)
  PROVE  RaftInv'
<1> DEFINE f == prop[p]
           n == Head(f.todo)
           e == f.entry
<1>1. /\ loop = p /\ f.pc = "peer" /\ loop' = loop
      /\ UNCHANGED <<halted, history>> /\ f \in Frame
  BY FrameFacts DEF Replicate
<1>2. \A m \in Node : f.entry.term <= term[m]
  BY FrameFacts
<1>3. CASE f.todo = <<>>
  <2> DEFINE g == [f EXCEPT !.pc = "tally"]
  <2>1. Set(p, g) /\ UNCHANGED <<cluster, logs>>
    BY <1>3 DEF Replicate
  <2>2. f.acks >= Majority
    BY <1>1, <1>3 DEF RaftInv, FirstAck
  <2>3. g \in Frame /\ g.pc = "tally" /\ g.acks = f.acks /\ g.entry = f.entry
    BY <1>1 DEF Frame
  <2> HIDE DEF g, f
  <2> QED BY <1>1, <1>2, <2>1, <2>2, <2>3, FrameStep DEF RaftInv, RaftTypeOK, logs, history
<1>4. CASE f.todo # <<>> /\ Stale(n, e)
  <2> DEFINE g == [f EXCEPT !.todo = Tail(@)]
  <2>1. Set(p, g) /\ UNCHANGED <<cluster, logs>>
    BY <1>4 DEF Replicate
  <2>2. n \in Node /\ Tail(f.todo) \in Seq(Node)
    BY <1>1, <1>4 DEF Frame
  <2>3. f.acks >= Majority
    <3>1. e.term < term[n]
      BY <1>4 DEF Stale
    <3>2. ~(\A m \in Node : f.entry.term = term[m])
      BY <2>2, <3>1 DEF RaftInv, RaftTypeOK, Frame, Entry
    <3> QED BY <1>1, <3>2 DEF RaftInv, FirstAck
  <2>4. g \in Frame /\ g.pc = "peer" /\ g.acks = f.acks /\ g.entry = f.entry
    BY <1>1, <2>2 DEF Frame
  <2> HIDE DEF g, f
  <2> QED BY <1>1, <1>2, <2>1, <2>3, <2>4, FrameStep DEF RaftInv, RaftTypeOK, logs, history
<1>5. CASE f.todo # <<>> /\ ~Stale(n, e)
  <2> DEFINE g == [f EXCEPT !.pc = "apply", !.at = n, !.todo = Tail(@), !.acks = @ + 1]
  <2>1. /\ term' = [term EXCEPT ![n] = e.term]
        /\ votedFor' = [votedFor EXCEPT ![n] = IF e.term > term[n] THEN NoVote ELSE @]
        /\ role' = [role EXCEPT ![n] = "follower"]
        /\ log' = [log EXCEPT ![n] = Append(@, e)]
        /\ commitIndex' = [commitIndex EXCEPT ![n] = e.index]
        /\ Set(p, g) /\ UNCHANGED lastApplied
    BY <1>5 DEF Replicate
  <2>2. n \in Node /\ Tail(f.todo) \in Seq(Node) /\ e \in Entry
    BY <1>1, <1>5 DEF Frame
  <2>3. e.term = term[n]
    BY <1>2, <1>5, <2>2 DEF Stale, RaftInv, RaftTypeOK, Entry
  <2>4. term' = term
    BY <2>1, <2>2, <2>3 DEF RaftInv, RaftTypeOK
  <2>5. f.acks \in Nat /\ f.acks + 1 >= Majority
    <3>1. f.acks \in Nat /\ (f.acks >= 2 \/ f.acks = 1)
      BY <1>1 DEF RaftInv, FirstAck, Frame, Majority
    <3> QED BY <3>1 DEF Majority
  <2>6. g \in Frame /\ g.pc = "apply" /\ g.acks = f.acks + 1 /\ g.entry = e
    <3>1. f.acks + 1 \in Nat
      BY <2>5
    <3> HIDE DEF n
    <3> QED BY <1>1, <2>2, <3>1 DEF Frame
  <2> HIDE DEF g, f, e, n
  <2>7. /\ prop' \in [Commands -> Frame] /\ prop'[p] = g
        /\ \A q \in Commands : q # p => prop'[q] = prop[q]
    BY <2>1, <2>6 DEF RaftInv, RaftTypeOK, Set
  <2>8. RaftTypeOK'
    <3>1. role' \in [Node -> {"follower", "candidate", "leader"}]
      BY <2>1, <2>2 DEF RaftInv, RaftTypeOK
    <3>2. votedFor' \in [Node -> Node \cup {NoVote}]
      BY <2>1, <2>2 DEF RaftInv, RaftTypeOK
    <3>3. log' \in [Node -> Seq(Entry)]
      BY <2>1, <2>2 DEF RaftInv, RaftTypeOK
    <3>4. commitIndex' \in [Node -> Nat \cup {-1}]
      BY <2>1, <2>2 DEF RaftInv, RaftTypeOK, Entry
    <3> QED BY <1>1, <2>1, <2>4, <2>7, <3>1, <3>2, <3>3, <3>4 DEF RaftInv, RaftTypeOK, history
  <2>9. TermsAgree' /\ OneLeader'
    BY <2>1, <2>2, <2>4 DEF RaftInv, RaftTypeOK, TermsAgree, OneLeader, Leader
  <2>10. NoFutureEntry'
    BY <1>2, <2>4, <2>6, <2>7 DEF RaftInv, NoFutureEntry, e
  <2>11. FirstAck'
    <3>1. ASSUME NEW q \in Commands, q # p
          PROVE  prop'[q].pc \in {"peer", "apply", "tally"} => prop'[q].acks >= Majority
      BY <1>1, <2>7, <3>1 DEF RaftInv, FirstAck
    <3> QED BY <2>5, <2>6, <2>7, <3>1 DEF FirstAck
  <2> QED BY <2>8, <2>9, <2>10, <2>11 DEF RaftInv
<1> QED BY <1>3, <1>4, <1>5

\* Applying an entry touches the PSA and the node's counter only.
LEMMA ApplyStep ==
  ASSUME RaftInv, NEW p \in Commands, ApplyCommitted(p)
  PROVE  RaftInv'
<1> DEFINE f    == prop[p]
           n    == f.at
           next == lastApplied[n] + 1
           cmd  == log[n][next + 1].cmd
<1>1. loop = p /\ f.pc = "apply" /\ UNCHANGED <<cluster, log, commitIndex>> /\ f \in Frame
  BY FrameFacts DEF ApplyCommitted
<1>2. f.acks >= Majority /\ n \in Node
  BY <1>1 DEF RaftInv, FirstAck, Frame
<1>ints. lastApplied[n] \in Nat \cup {-1} /\ commitIndex[n] \in Nat \cup {-1} /\ next \in Nat
  <2> HIDE DEF n
  <2>1. lastApplied[n] \in Nat \cup {-1} /\ commitIndex[n] \in Nat \cup {-1}
    BY <1>2 DEF RaftInv, RaftTypeOK
  <2> QED BY <2>1
<1>3. CASE lastApplied[n] >= commitIndex[n]
  <2> DEFINE g == [f EXCEPT !.pc = IF n = f.leader THEN "returned" ELSE "peer"]
  <2>1. Set(p, g) /\ UNCHANGED <<lastApplied, loop, halted, history>>
    BY <1>3, <1>ints DEF ApplyCommitted
  <2>2. g \in Frame /\ g.acks = f.acks /\ g.entry = f.entry /\ g.pc \in {"returned", "peer"}
    BY <1>1 DEF Frame
  <2> HIDE DEF g
  <2> QED BY <1>1, <1>2, <2>1, <2>2, FrameFacts, FrameStep DEF RaftInv, RaftTypeOK, history
<1>4. CASE lastApplied[n] < commitIndex[n]
  <2>1. /\ lastApplied' = [lastApplied EXCEPT ![n] = next]
        /\ UNCHANGED prop
        /\ IF next < Len(log[n])
           THEN /\ applied' = applied \cup {cmd}
                /\ IF cmd \in Halts THEN CallHalt(cmd) ELSE CallResume(cmd)
           ELSE UNCHANGED <<loop, halted, history>>
    <3>1. ~(lastApplied[n] >= commitIndex[n])
      BY <1>4, <1>ints
    <3> QED BY <3>1, Zenon DEF ApplyCommitted
  <2>2. lastApplied' \in [Node -> Nat \cup {-1}]
    BY <1>2, <1>ints, <2>1 DEF RaftInv, RaftTypeOK
  <2>3. next < Len(log[n]) => cmd \in Commands
    <3>1. log[n] \in Seq(Entry)
      BY <1>2 DEF RaftInv, RaftTypeOK
    <3>2. next < Len(log[n]) => log[n][next + 1] \in Entry
      BY <1>ints, <3>1
    <3> QED BY <3>2 DEF Entry
  <2> HIDE DEF next, cmd, n, f
  <2>4. /\ applied' \subseteq Commands /\ called' \subseteq Commands
        /\ loop' \in {loop, Nobody} /\ halted' \in BOOLEAN
    BY <2>1, <2>3 DEF CallHalt, CallResume, RaftInv, RaftTypeOK, history
  <2>5. RaftTypeOK'
    BY <1>1, <2>1, <2>2, <2>4 DEF RaftInv, RaftTypeOK, cluster
  <2>6. FirstAck'
    BY <1>1, <1>2, <2>1, <2>4 DEF RaftInv, FirstAck, cluster, f
  <2> QED
    BY <1>1, <2>1, <2>5, <2>6 DEF RaftInv, TermsAgree, NoFutureEntry, OneLeader, Leader, cluster
<1> QED BY <1>3, <1>4, <1>ints

\* The tally finds its majority.
LEMMA TallyStep ==
  ASSUME RaftInv, NEW p \in Commands, Tally(p)
  PROVE  RaftInv'
<1> DEFINE f == prop[p]
           n == f.leader
           g == [f EXCEPT !.pc = "apply", !.at = n]
<1>1. /\ loop = p /\ f.pc = "tally" /\ f \in Frame
      /\ UNCHANGED <<cluster, lastApplied, halted, history>>
  BY FrameFacts DEF Tally
<1>2. f.acks >= Majority
  BY <1>1 DEF RaftInv, FirstAck
<1>3. Set(p, g) /\ commitIndex' = [commitIndex EXCEPT ![n] = f.entry.index] /\ UNCHANGED <<log, loop>>
  BY <1>2 DEF Tally
<1>4. n \in Node /\ f.entry.index \in Nat
  BY <1>1 DEF Frame, Entry
<1>5. commitIndex' \in [Node -> Nat \cup {-1}]
  BY <1>3, <1>4 DEF RaftInv, RaftTypeOK
<1>6. g \in Frame /\ g.pc = "apply" /\ g.acks = f.acks /\ g.entry = f.entry
  BY <1>1, <1>4 DEF Frame
<1> HIDE DEF g
<1> QED BY <1>1, <1>2, <1>3, <1>5, <1>6, FrameFacts, FrameStep DEF RaftInv, RaftTypeOK, history

\* The direct call of _halt after a successful proposal.
LEMMA ReturnedStep ==
  ASSUME RaftInv, NEW p \in Commands, Returned(p)
  PROVE  RaftInv'
<1>1. /\ Set(p, Empty(p, "done")) /\ loop = p /\ loop' = Nobody
      /\ UNCHANGED <<cluster, logs, applied>>
      /\ called' \subseteq Commands /\ halted' \in BOOLEAN
  BY DEF Returned, RaftInv, RaftTypeOK
<1>2. /\ Empty(p, "done") \in Frame /\ Empty(p, "done").pc = "done"
      /\ \A n \in Node : Empty(p, "done").entry.term <= term[n]
  BY EmptyFrame
<1> QED BY <1>1, <1>2, FrameStep DEF RaftInv, RaftTypeOK, logs

\* The PSA beside the cluster changes nothing in it.
LEMMA PsaStep ==
  ASSUME RaftInv, HumanResume \/ DirectHalt
  PROVE  RaftInv'
<1>1. /\ UNCHANGED <<cluster, logs, loop, prop, called, applied>>
      /\ halted' \in BOOLEAN
  BY DEF HumanResume, DirectHalt, history, RaftInv, RaftTypeOK
<1> QED
  BY <1>1 DEF RaftInv, RaftTypeOK, TermsAgree, NoFutureEntry, OneLeader, FirstAck, Leader, cluster, logs

\* Initially there is no leader and no term.
LEMMA RaftInitInv == RaftInit => RaftInv
<1> SUFFICES ASSUME RaftInit PROVE RaftInv
  OBVIOUS
<1>1. ASSUME NEW p \in Commands
      PROVE  Empty(p, "idle") \in Frame
  BY TermAssumption DEF Empty, Frame, Entry, Node
<1>2. /\ prop \in [Commands -> Frame]
      /\ \A p \in Commands : prop[p].pc = "idle" /\ prop[p].entry.term = 0
  BY <1>1 DEF RaftInit, Empty
<1>3. RaftTypeOK
  <2>1. halted \in BOOLEAN
    BY Zenon DEF RaftInit
  <2>2. /\ role \in [Node -> {"follower", "candidate", "leader"}]
        /\ term \in [Node -> 0..MaxTerm] /\ votedFor \in [Node -> Node \cup {NoVote}]
    BY TermAssumption DEF RaftInit
  <2>3. /\ log \in [Node -> Seq(Entry)] /\ commitIndex \in [Node -> Nat \cup {-1}]
        /\ lastApplied \in [Node -> Nat \cup {-1}]
    BY DEF RaftInit
  <2>4. loop \in Commands \cup {Nobody} /\ called \subseteq Commands /\ applied \subseteq Commands
    BY DEF RaftInit
  <2> QED BY <1>2, <2>1, <2>2, <2>3, <2>4 DEF RaftTypeOK
<1>4. TermsAgree /\ OneLeader
  BY DEF RaftInit, TermsAgree, OneLeader, Leader
<1>5. NoFutureEntry /\ FirstAck
  BY <1>2 DEF RaftInit, NoFutureEntry, FirstAck
<1> QED BY <1>3, <1>4, <1>5 DEF RaftInv

\* Every step preserves the invariant.
LEMMA RaftNextInv == RaftInv /\ [RaftNext]_raftVars => RaftInv'
<1> SUFFICES ASSUME RaftInv, [RaftNext]_raftVars PROVE RaftInv'
  OBVIOUS
<1>1. ASSUME NEW n \in Node, StartElection(n) \/ SendHeartbeats(n) PROVE RaftInv'
  BY <1>1, ElectionStep, HeartbeatStep
<1>2. ASSUME NEW p \in Commands, Propose(p) \/ Step(p) PROVE RaftInv'
  BY <1>2, ResumeFrameStep, LookupStep, ReplicateStep, ApplyStep, TallyStep, ReturnedStep
  DEF Step
<1>3. CASE HumanResume \/ DirectHalt
  BY <1>3, PsaStep
<1>4. CASE UNCHANGED raftVars
  BY <1>4, StutterStep
<1> QED BY <1>1, <1>2, <1>3, <1>4 DEF RaftNext

\* In every behaviour the invariant holds.
THEOREM RaftInvariance == RaftSpec => []RaftInv
BY RaftInitInv, RaftNextInv, PTL DEF RaftSpec

\* The cluster's variables keep their types.
THEOREM TypeCorrect == RaftSpec => []RaftTypeOK
<1>1. RaftInv => RaftTypeOK
  BY DEF RaftInv
<1> QED BY <1>1, RaftInvariance, PTL

\* There is at most one leader, and its term is the newest: elections of
\* _start_election never suspend, so no vote can be split.
THEOREM AtMostOneLeader == RaftSpec => []ElectionSafety
<1>1. RaftInv => ElectionSafety
  BY DEF RaftInv, RaftTypeOK, TermsAgree, OneLeader, ElectionSafety
<1> QED BY <1>1, RaftInvariance, PTL

\* RaftNode.propose never takes its roll-back branch, whatever elections and
\* other proposals happen while a follower's on_commit is suspended.
THEOREM RollbackIsDead == RaftSpec => []NeverRolledBack
<1>1. RaftInv => NeverRolledBack
  BY DEF RaftInv, FirstAck, NeverRolledBack
<1> QED BY <1>1, RaftInvariance, PTL

-----------------------------------------------------------------------------
(* Where the entries are. *)

Holds(n, p) == \E i \in DOMAIN log[n] : log[n][i].cmd = p

Twice(p) == \E m, n \in Node : m # n /\ Holds(m, p) /\ Holds(n, p)

\* Only the leader has the entry, and its proposal has the event loop.
Unacked(p) ==
  /\ loop = p /\ prop[p].pc = "peer" /\ prop[p].acks = 1
  /\ Head(prop[p].todo) # prop[p].leader /\ Holds(prop[p].leader, p)

Replicating(p) == prop[p].pc \in {"peer", "apply", "tally"}

\* A replication carries the entry of its own proposal.
FlightInv ==
  \A p \in Commands : Replicating(p) => prop[p].entry.cmd = p /\ (Unacked(p) \/ Twice(p))

\* No log keeps an entry for itself, except until the first follower is reached.
LogInv == \A n \in Node : \A i \in DOMAIN log[n] : Unacked(log[n][i].cmd) \/ Twice(log[n][i].cmd)

EffectInv == \A p \in Effective : Twice(p)

\* The inductive invariant about the logs; it rests on RaftInv.
QInv == FlightInv /\ LogInv /\ EffectInv

\* Who has the loop is the only one that can be without an acknowledgement.
LEMMA UnackedIsPeer ==
  ASSUME RaftInv, NEW p \in Commands, Unacked(p)
  PROVE  /\ loop = p /\ prop[p].pc = "peer" /\ prop[p].todo # <<>>
         /\ \A n \in Node : prop[p].entry.term = term[n]
BY DEF Unacked, RaftInv, FirstAck, Majority

\* Every entry of a log belongs to a proposal.
LEMMA EntryFacts ==
  ASSUME RaftInv, NEW n \in Node, NEW i \in DOMAIN log[n]
  PROVE  log[n][i] \in Entry /\ log[n][i].cmd \in Commands
<1>1. log[n] \in Seq(Entry)
  BY DEF RaftInv, RaftTypeOK
<1>2. log[n][i] \in Entry
  BY <1>1
<1> QED BY <1>2 DEF Entry

\* While everybody has been acknowledged, a step that leaves the logs alone keeps
\* what is known of the entries.
LEMMA QuietStep ==
  ASSUME RaftInv, QInv, UNCHANGED log, \A q \in Commands : ~Unacked(q),
         \A q \in Commands : Replicating(q)' => Replicating(q) /\ prop'[q].entry = prop[q].entry,
         \A q \in Effective' : q \in Effective \/ (q \in Commands /\ Replicating(q)) \/ \E n \in Node : Holds(n, q)
  PROVE  QInv'
<1>1. \A q : Holds(0, q)' = Holds(0, q) /\ Holds(1, q)' = Holds(1, q) /\ Holds(2, q)' = Holds(2, q)
  BY DEF Holds
<1>2. \A q : Twice(q)' <=> Twice(q)
  BY DEF Twice, Holds
<1>3. \A n \in Node : \A i \in DOMAIN log[n] : log[n][i].cmd \in Commands
  BY EntryFacts
<1>4. \A n \in Node : \A i \in DOMAIN log[n] : Twice(log[n][i].cmd)
  BY <1>3 DEF QInv, LogInv
<1>5. FlightInv'
  BY <1>2 DEF QInv, FlightInv
<1>6. LogInv'
  BY <1>2, <1>4 DEF LogInv
<1>7. \A q \in Commands : Replicating(q) => Twice(q)
  BY DEF QInv, FlightInv
<1>8. EffectInv'
  BY <1>2, <1>4, <1>7 DEF QInv, EffectInv, Holds
<1> QED BY <1>5, <1>6, <1>8 DEF QInv

\* While nobody has the loop, everybody has been acknowledged; so it is when the
\* proposal that has it is not replicating.
LEMMA NobodyUnacked ==
  ASSUME RaftInv, \/ loop = Nobody
               \/ \E p \in Commands : loop = p /\ (prop[p].pc = "peer" => prop[p].acks # 1)
  PROVE  \A q \in Commands : ~Unacked(q)
BY ProposalAssumption DEF Unacked, Commands

\* A log that grows at its end keeps its entries.
LEMMA GrownLog ==
  ASSUME RaftInv, NEW n \in Node, NEW e \in Entry, log' = [log EXCEPT ![n] = Append(log[n], e)]
  PROVE  /\ \A m \in Node, q \in Commands : Holds(m, q) => Holds(m, q)'
         /\ Holds(n, e.cmd)'
         /\ \A m \in Node : \A i \in DOMAIN log'[m] :
              log'[m][i].cmd = e.cmd \/ \E j \in DOMAIN log[m] : log'[m][i] = log[m][j]
         /\ \A q \in Commands : Twice(q) => Twice(q)'
<1>1. log[n] \in Seq(Entry) /\ Append(log[n], e) \in Seq(Entry)
  BY DEF RaftInv, RaftTypeOK
<1>2. /\ Append(log[n], e)[Len(log[n]) + 1] = e
      /\ Len(log[n]) + 1 \in DOMAIN Append(log[n], e)
      /\ \A i \in DOMAIN log[n] : i \in DOMAIN Append(log[n], e) /\ Append(log[n], e)[i] = log[n][i]
      /\ \A i \in DOMAIN Append(log[n], e) : i = Len(log[n]) + 1 \/ i \in DOMAIN log[n]
  BY <1>1
<1>3. log'[n] = Append(log[n], e) /\ \A m \in Node : m # n => log'[m] = log[m]
  BY DEF RaftInv, RaftTypeOK
<1>4. \A m \in Node, q \in Commands : Holds(m, q) => Holds(m, q)'
  BY <1>2, <1>3 DEF Holds
<1>5. Holds(n, e.cmd)'
  BY <1>2, <1>3 DEF Holds
<1>6. \A m \in Node : \A i \in DOMAIN log'[m] :
              log'[m][i].cmd = e.cmd \/ \E j \in DOMAIN log[m] : log'[m][i] = log[m][j]
  BY <1>2, <1>3
<1>7. \A q \in Commands : Twice(q) => Twice(q)'
  BY <1>4 DEF Twice
<1> QED BY <1>4, <1>5, <1>6, <1>7

\* A new entry of the proposal that has the loop, when no other one is waiting for
\* its first acknowledgement.
LEMMA GrowStep ==
  ASSUME RaftInv, QInv, NEW p \in Commands, NEW n \in Node, NEW e \in Entry, e.cmd = p,
         log' = [log EXCEPT ![n] = Append(log[n], e)], Effective' \subseteq Effective,
         \A q \in Commands : q # p => ~Unacked(q) /\ prop'[q] = prop[q],
         prop'[p].entry = e, Unacked(p)' \/ Twice(p)'
  PROVE  QInv'
<1>1. /\ \A m \in Node : \A i \in DOMAIN log'[m] :
              log'[m][i].cmd = p \/ \E j \in DOMAIN log[m] : log'[m][i] = log[m][j]
      /\ \A q \in Commands : Twice(q) => Twice(q)'
  BY GrownLog
<1>2. \A m \in Node : \A i \in DOMAIN log[m] : log[m][i].cmd \in Commands
  BY EntryFacts
<1>3. FlightInv'
  BY <1>1 DEF QInv, FlightInv, Replicating
<1>4. LogInv'
  <2> SUFFICES ASSUME NEW m \in Node, NEW i \in DOMAIN log'[m]
               PROVE  Unacked(log[m][i].cmd)' \/ Twice(log[m][i].cmd)'
    BY DEF LogInv
  <2>1. CASE log'[m][i].cmd = p
    BY <2>1
  <2>2. CASE log'[m][i].cmd # p
    <3>1. PICK j \in DOMAIN log[m] : log'[m][i] = log[m][j]
      BY <1>1, <2>2
    <3>2. Twice(log[m][j].cmd)
      BY <1>2, <2>2, <3>1 DEF QInv, LogInv
    <3> QED BY <1>1, <1>2, <3>1, <3>2
  <2> QED BY <2>1, <2>2
<1>5. Effective \subseteq Commands
  BY DEF Effective, RaftInv, RaftTypeOK
<1>6. EffectInv'
  BY <1>1, <1>5 DEF QInv, EffectInv
<1> QED BY <1>3, <1>4, <1>6 DEF QInv

\* The leader's entry waits for the first follower.
LEMMA LookupQuorum ==
  ASSUME RaftInv, QInv, NEW p \in Commands, Lookup(p)
  PROVE  QInv'
<1> DEFINE n == CHOOSE m \in Node : Leader(m) /\ \A k \in Node : Leader(k) => m <= k
           e == [term |-> term[n], index |-> Len(log[n]), cmd |-> p]
           f == [prop[p] EXCEPT !.pc = "peer", !.leader = n, !.todo = PeerSeq(n),
                                !.acks = 1, !.entry = e]
           g == [prop[p] EXCEPT !.pc = "asleep", !.tries = @ + 1]
<1>1. /\ loop = p /\ prop[p].pc = "lookup" /\ UNCHANGED <<applied, called>> /\ prop[p] \in Frame
      /\ prop \in [Commands -> Frame]
  BY FrameFacts DEF Lookup, history, RaftInv, RaftTypeOK
<1>2. \A q \in Commands : ~Unacked(q)
  BY <1>1, NobodyUnacked
<1>3. CASE \A m \in Node : ~Leader(m)
  <2>1. Set(p, g) /\ UNCHANGED log
    BY <1>3 DEF Lookup
  <2>2. prop'[p].pc = "asleep" /\ \A q \in Commands : q # p => prop'[q] = prop[q]
    BY <1>1, <2>1 DEF Set, Frame
  <2>3. Effective' \subseteq Effective
    BY <1>1, <2>2 DEF Effective
  <2> QED BY <1>1, <1>2, <2>1, <2>2, <2>3, QuietStep DEF Replicating
<1>4. CASE \E m \in Node : Leader(m)
  <2>1. n \in Node
    <3>1. \E m \in Node : Leader(m) /\ \A k \in Node : Leader(k) => m <= k
      <4>1. PICK m \in Node : Leader(m)
        BY <1>4
      <4>2. \A k \in Node : Leader(k) => m <= k
        BY <4>1 DEF RaftInv, OneLeader, Node
      <4> QED BY <4>1, <4>2
    <3> QED BY <3>1
  <2>2. Set(p, f) /\ loop' = p /\ log' = [log EXCEPT ![n] = Append(log[n], e)]
    BY <1>1, <1>4 DEF Lookup, LeaderLog
  <2> HIDE DEF n
  <2>3. e \in Entry /\ e.cmd = p
    BY <2>1 DEF RaftInv, RaftTypeOK, Entry
  <2> HIDE DEF e
  <2>4. Head(PeerSeq(n)) # n
    <3>1. CASE n = 0
      BY <3>1 DEF PeerSeq
    <3>2. CASE n = 1
      BY <3>2 DEF PeerSeq
    <3>3. CASE n = 2
      BY <3>3 DEF PeerSeq
    <3> QED BY <2>1, <3>1, <3>2, <3>3 DEF Node
  <2>5. f.pc = "peer" /\ f.leader = n /\ f.todo = PeerSeq(n) /\ f.acks = 1 /\ f.entry = e
    BY <1>1 DEF Frame
  <2> HIDE DEF f
  <2>6. prop'[p] = f /\ \A q \in Commands : q # p => prop'[q] = prop[q]
    BY <1>1, <2>2 DEF Set
  <2>7. PICK m \in Node : m = n
    BY <2>1
  <2>8. Holds(m, p)'
    BY <2>2, <2>3, <2>7, GrownLog
  <2>9. Unacked(p)'
    BY <2>2, <2>4, <2>5, <2>6, <2>7, <2>8 DEF Unacked
  <2>10. Effective' \subseteq Effective
    BY <1>1, <2>5, <2>6 DEF Effective
  <2> QED BY <1>1, <1>2, <2>1, <2>2, <2>3, <2>5, <2>6, <2>9, <2>10, GrowStep
<1> QED BY <1>3, <1>4

\* The first follower takes the entry, so that two logs have it; the second one
\* takes or rejects it.
LEMMA ReplicateQuorum ==
  ASSUME RaftInv, QInv, NEW p \in Commands, Replicate(p)
  PROVE  QInv'
<1> DEFINE f == prop[p]
           n == Head(f.todo)
           e == f.entry
<1>1. /\ loop = p /\ f.pc = "peer" /\ UNCHANGED <<applied, called>> /\ f \in Frame
      /\ prop \in [Commands -> Frame]
  BY FrameFacts DEF Replicate, history, RaftInv, RaftTypeOK
<1>2. e.cmd = p /\ (Unacked(p) \/ Twice(p)) /\ e \in Entry
  BY <1>1 DEF QInv, FlightInv, Replicating, Frame
<1>3. \A q \in Commands : q # p => ~Unacked(q)
  BY <1>1, UnackedIsPeer
<1>4. CASE f.todo = <<>> \/ Stale(n, e)
  <2>1. \E g \in {[f EXCEPT !.pc = "tally"], [f EXCEPT !.todo = Tail(@)]} : Set(p, g) /\ UNCHANGED log
    BY <1>4 DEF Replicate, logs
  <2>2. /\ prop'[p].entry = e /\ prop'[p].pc \in {"peer", "tally"}
        /\ \A q \in Commands : q # p => prop'[q] = prop[q]
    BY <1>1, <2>1 DEF Set, Frame
  <2>3. ~Unacked(p)
    <3>1. ASSUME Unacked(p) PROVE FALSE
      <4>1. f.todo # <<>> /\ \A m \in Node : e.term = term[m]
        BY <3>1, UnackedIsPeer
      <4>2. n \in Node
        BY <1>1, <4>1 DEF Frame
      <4>3. e.term < term[n]
        BY <1>4, <4>1 DEF Stale
      <4> QED BY <4>1, <4>2, <4>3 DEF RaftInv, RaftTypeOK, Entry
    <3> QED BY <3>1
  <2>4. \A q \in Commands : Replicating(q)' => Replicating(q) /\ prop'[q].entry = prop[q].entry
    BY <1>1, <2>2 DEF Replicating
  <2>5. Effective' \subseteq Effective
    BY <1>1, <2>2 DEF Effective
  <2> QED BY <1>1, <1>3, <2>1, <2>3, <2>4, <2>5, QuietStep
<1>5. CASE f.todo # <<>> /\ ~Stale(n, e)
  <2> DEFINE g == [f EXCEPT !.pc = "apply", !.at = n, !.todo = Tail(@), !.acks = @ + 1]
  <2>1. log' = [log EXCEPT ![n] = Append(@, e)] /\ Set(p, g)
    BY <1>5 DEF Replicate
  <2>2. n \in Node /\ f.leader \in Node
    BY <1>1, <1>5 DEF Frame
  <2>3. /\ prop'[p].entry = e /\ prop'[p].pc = "apply"
        /\ \A q \in Commands : q # p => prop'[q] = prop[q]
    BY <1>1, <2>1 DEF Set, Frame
  <2>4. log' = [log EXCEPT ![n] = Append(log[n], e)]
    BY <2>1, <2>2 DEF RaftInv, RaftTypeOK
  <2> HIDE DEF n, e
  <2>5. Twice(p)'
    <3>1. CASE Twice(p)
      BY <1>2, <2>2, <2>4, <3>1, GrownLog
    <3>2. CASE Unacked(p)
      <4>1. PICK k, l \in Node : k = n /\ l = f.leader
        BY <2>2
      <4>2. Holds(l, p) /\ k # l
        BY <3>2, <4>1 DEF Unacked, n
      <4>3. Holds(k, p)' /\ Holds(l, p)'
        BY <1>2, <2>4, <4>1, <4>2, GrownLog
      <4> QED BY <4>2, <4>3 DEF Twice
    <3> QED BY <1>2, <3>1, <3>2
  <2>6. Effective' \subseteq Effective
    BY <1>1, <2>3 DEF Effective
  <2> QED BY <1>1, <1>2, <1>3, <2>2, <2>3, <2>4, <2>5, <2>6, GrowStep
<1> QED BY <1>4, <1>5

\* What a node applies is in its log, and so in another one; a proposal that returns was
\* replicated.
LEMMA ApplyQuorum ==
  ASSUME RaftInv, QInv, NEW p \in Commands, ApplyCommitted(p)
  PROVE  QInv'
<1> DEFINE f    == prop[p]
           n    == f.at
           next == lastApplied[n] + 1
           cmd  == log[n][next + 1].cmd
<1>1. /\ loop = p /\ f.pc = "apply" /\ UNCHANGED log /\ f \in Frame
      /\ prop \in [Commands -> Frame]
  BY FrameFacts DEF ApplyCommitted, RaftInv, RaftTypeOK
<1>2. \A q \in Commands : ~Unacked(q)
  BY <1>1, NobodyUnacked
<1>3. n \in Node /\ log[n] \in Seq(Entry) /\ next \in Nat
  <2>1. n \in Node
    BY <1>1 DEF Frame
  <2> HIDE DEF n
  <2>2. log[n] \in Seq(Entry) /\ lastApplied[n] \in Nat \cup {-1}
    BY <2>1 DEF RaftInv, RaftTypeOK
  <2> QED BY <2>1, <2>2
<1>4. \A q \in Commands : Replicating(q)' => Replicating(q) /\ prop'[q].entry = prop[q].entry
  <2> DEFINE g == [f EXCEPT !.pc = IF n = f.leader THEN "returned" ELSE "peer"]
  <2>1. Set(p, g) \/ UNCHANGED prop
    BY DEF ApplyCommitted
  <2>2. g.entry = f.entry
    BY <1>1 DEF Frame
  <2> HIDE DEF g
  <2> QED BY <1>1, <2>1, <2>2 DEF Replicating, Set
<1>5. \/ UNCHANGED <<applied, called>>
      \/ /\ next < Len(log[n]) /\ applied' = applied \cup {cmd}
         /\ called' = called \/ called' = called \cup {cmd}
  BY Zenon DEF ApplyCommitted, CallHalt, CallResume, history
<1>6. next < Len(log[n]) => Holds(n, cmd)
  <2>1. next < Len(log[n]) => next + 1 \in DOMAIN log[n]
    BY <1>3
  <2> QED BY <2>1 DEF Holds
<1>7. \A q \in Commands : prop'[q].pc \in {"returned", "done"} =>
        prop[q].pc \in {"returned", "done"} \/ Replicating(q)
  <2>1. Set(p, [f EXCEPT !.pc = IF n = f.leader THEN "returned" ELSE "peer"]) \/ UNCHANGED prop
    BY DEF ApplyCommitted
  <2> QED BY <1>1, <2>1 DEF Set, Replicating
<1> HIDE DEF n, cmd, next, f
<1>8. \A q \in Effective' : q \in Effective \/ (q \in Commands /\ Replicating(q)) \/ \E m \in Node : Holds(m, q)
  BY <1>3, <1>5, <1>6, <1>7 DEF Effective
<1> QED BY <1>1, <1>2, <1>4, <1>8, QuietStep

\* The steps of a proposal that neither replicates nor applies.
LEMMA RestQuorum ==
  ASSUME RaftInv, QInv, NEW p \in Commands,
         Propose(p) \/ WakeUp(p) \/ Continue(p) \/ Tally(p) \/ Returned(p)
  PROVE  QInv'
<1>1. prop[p] \in Frame /\ prop \in [Commands -> Frame] /\ UNCHANGED applied
      /\ (called' = called \/ (Returned(p) /\ called' = called \cup {p}))
  BY FrameFacts DEF Propose, WakeUp, Continue, Tally, Returned, history, RaftInv, RaftTypeOK
<1>2. \A q \in Commands : ~Unacked(q)
  BY NobodyUnacked DEF Propose, WakeUp, Continue, Tally, Returned
<1>3. UNCHANGED log
  BY DEF Propose, WakeUp, Continue, Tally, Returned, logs, RaftInv, FirstAck
<1>4. CASE Propose(p) \/ WakeUp(p) \/ Returned(p)
  <2>1. \E g : Set(p, g) /\ g.pc \in {"lookup", "failed", "done"}
    BY <1>1, <1>4 DEF Propose, WakeUp, Returned, Empty, Frame
  <2>2. ~Replicating(p)' /\ \A q \in Commands : q # p => prop'[q] = prop[q]
    BY <1>1, <2>1 DEF Set, Replicating
  <2>3. \A q \in Commands : Replicating(q)' => Replicating(q) /\ prop'[q].entry = prop[q].entry
    BY <2>2 DEF Replicating
  <2>4. CASE Returned(p)
    <3>1. p \in Effective
      BY <2>4 DEF Returned, Effective
    <3>2. Effective' \subseteq Effective
      BY <1>1, <2>2, <3>1 DEF Effective
    <3> QED BY <1>1, <1>2, <1>3, <2>3, <3>2, QuietStep
  <2>5. CASE Propose(p) \/ WakeUp(p)
    <3>1. prop'[p].pc \in {"lookup", "failed"} /\ UNCHANGED called
      BY <1>1, <2>5 DEF Propose, WakeUp, Empty, Frame, Set, history
    <3>2. Effective' \subseteq Effective
      BY <1>1, <2>2, <3>1 DEF Effective
    <3> QED BY <1>1, <1>2, <1>3, <2>3, <3>2, QuietStep
  <2> QED BY <1>4, <2>4, <2>5
<1>5. CASE Continue(p)
  <2>1. UNCHANGED <<prop, called>>
    BY <1>5 DEF Continue, history
  <2> QED BY <1>1, <1>2, <1>3, <2>1, QuietStep DEF Effective, Replicating
<1>6. CASE Tally(p)
  <2> DEFINE g == [prop[p] EXCEPT !.pc = "apply", !.at = prop[p].leader]
  <2>1. prop[p].pc = "tally" /\ Set(p, g)
    BY <1>6 DEF Tally, RaftInv, FirstAck
  <2>2. g.entry = prop[p].entry
    BY <1>1 DEF Frame
  <2> HIDE DEF g
  <2>3. \A q \in Commands : Replicating(q)' => Replicating(q) /\ prop'[q].entry = prop[q].entry
    BY <1>1, <2>1, <2>2 DEF Replicating, Set
  <2>4. UNCHANGED called /\ g.pc = "apply"
    BY <1>1, <1>6 DEF Tally, history, Frame, g
  <2>5. Effective' \subseteq Effective
    BY <1>1, <2>1, <2>4 DEF Effective, Set
  <2> QED BY <1>1, <1>2, <1>3, <2>3, <2>5, QuietStep
<1> QED BY <1>4, <1>5, <1>6

\* Every step keeps what is known of the entries.
LEMMA NextQuorum == RaftInv /\ QInv /\ [RaftNext]_raftVars => QInv'
<1> SUFFICES ASSUME RaftInv, QInv, [RaftNext]_raftVars PROVE QInv'
  OBVIOUS
<1>1. CASE \/ \E n \in Node : StartElection(n) \/ SendHeartbeats(n)
           \/ HumanResume \/ DirectHalt
  <2>1. loop = Nobody /\ UNCHANGED <<log, prop, applied, called>>
    BY <1>1 DEF StartElection, SendHeartbeats, HumanResume, DirectHalt, logs, history
  <2>2. \A q \in Commands : Replicating(q)' => Replicating(q) /\ prop'[q].entry = prop[q].entry
    BY <2>1 DEF Replicating
  <2>3. Effective' = Effective
    BY <2>1 DEF Effective
  <2> QED BY <2>1, <2>2, <2>3, NobodyUnacked, QuietStep
<1>2. ASSUME NEW p \in Commands, Propose(p) \/ Step(p) PROVE QInv'
  BY <1>2, LookupQuorum, ReplicateQuorum, ApplyQuorum, RestQuorum DEF Step
<1>3. CASE UNCHANGED raftVars
  BY <1>3 DEF raftVars, logs, history, QInv, FlightInv, LogInv, EffectInv, Effective, Unacked, Twice, Holds,
              Replicating
<1> QED BY <1>1, <1>2, <1>3 DEF RaftNext

\* A command has an effect, by on_commit or by propose_halt's own call, only when two of
\* the three logs hold it, and they keep it, although a suspended on_commit lets elections
\* and other proposals in between the followers (RaftNode.propose,
\* _handle_append_entries_from, _apply_committed, RaftPSA.propose_halt).
THEOREM QuorumFirst == RaftSpec => []QuorumBeforeEffect
<1>1. RaftInit => QInv
  <2> SUFFICES ASSUME RaftInit PROVE QInv
    OBVIOUS
  <2>1. (\A p \in Commands : prop[p].pc = "idle") /\ Effective = {} /\ \A n \in Node : DOMAIN log[n] = {}
    BY DEF RaftInit, Empty, Effective
  <2> QED BY <2>1 DEF QInv, FlightInv, LogInv, EffectInv, Replicating
<1>2. QInv => QuorumBeforeEffect
  <2> SUFFICES ASSUME QInv, NEW p \in Effective
               PROVE  Cardinality({n \in Node : Holds(n, p)}) >= Majority
    BY DEF QuorumBeforeEffect, Holds
  <2> DEFINE S == {n \in Node : Holds(n, p)}
  <2>1. PICK k, l \in Node : k # l /\ Holds(k, p) /\ Holds(l, p)
    BY DEF QInv, EffectInv, Twice
  <2>2. {k, l} \subseteq S /\ S \subseteq 0..2
    BY <2>1 DEF Node
  <2>3. IsFiniteSet(S)
    <3>1. IsFiniteSet(0..2)
      BY 0 \in Int, 2 \in Int, FS_Interval, Zenon
    <3> QED BY <2>2, <3>1, FS_Subset
  <2>4. Cardinality({k, l}) = 2
    <3>1. Cardinality({l}) = 1 /\ IsFiniteSet({l}) /\ k \notin {l}
      BY <2>1, FS_Singleton
    <3>2. Cardinality({l} \cup {k}) = Cardinality({l}) + 1
      BY <3>1, FS_AddElement
    <3>3. {l} \cup {k} = {k, l}
      OBVIOUS
    <3> QED BY <3>1, <3>2, <3>3
  <2>5. Cardinality({k, l}) <= Cardinality(S)
    BY <2>2, <2>3, FS_Subset
  <2>6. Cardinality(S) \in Nat
    BY <2>3, FS_CardinalityType
  <2> QED BY <2>4, <2>5, <2>6 DEF Majority
<1> QED BY <1>1, <1>2, NextQuorum, RaftInvariance, PTL DEF RaftSpec

=============================================================================
