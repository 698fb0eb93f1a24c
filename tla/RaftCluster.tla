---------------------------- MODULE RaftCluster ----------------------------
(***************************************************************************)
(* The in-process three-node Raft cluster and the RaftPSA wrapper          *)
(* (infrastructure/raft.py).                                               *)
(*                                                                         *)
(* Nodes call each other's coroutines directly, so an RPC that does not    *)
(* suspend runs to its end before anything else on the event loop: an      *)
(* election and a round of heartbeats are single steps.  A proposal can be *)
(* suspended in two places only: in the retry sleep, and in on_commit when *)
(* PSA._halt has work to do.  The variable loop names the proposal that    *)
(* has the event loop; everybody else runs only while it is Nobody.        *)
(*                                                                         *)
(* The election timeout is abstracted: a follower may time out whenever    *)
(* the loop is free (a stalled loop delays the heartbeats).                *)
(***************************************************************************)
EXTENDS Integers, Sequences, FiniteSets, SequencesExt

CONSTANTS
  Halts,     \* propose_halt calls
  Resumes,   \* propose_resume calls
  Nobody,
  MaxTerm    \* bound: elections in one behaviour

ASSUME TermAssumption == MaxTerm \in Nat
ASSUME ProposalAssumption == Halts \cap Resumes = {} /\ Nobody \notin Halts \cup Resumes

VARIABLES
  role,        \* _state
  term,        \* _current_term
  votedFor,    \* _voted_for
  log,         \* _log
  commitIndex, \* _commit_index
  lastApplied, \* _last_applied
  loop,        \* the proposal that is running, or Nobody
  prop,        \* frame of every proposal
  halted,      \* the PSA is HALTED
  called,      \* history: proposals whose effect was requested of the PSA
  applied      \* history: proposals given to on_commit by some node

cluster == <<role, term, votedFor>>
logs    == <<log, commitIndex, lastApplied>>
history == <<called, applied>>
raftVars == <<cluster, logs, loop, prop, halted, history>>

Node      == 0..2
Majority  == 2
Commands == Halts \cup Resumes
NoVote    == -1
Retries   == 3

Peers(n) == Node \ {n}

\* _peers, in id order
PeerSeq(n) == CASE n = 0 -> <<1, 2>> [] n = 1 -> <<0, 2>> [] OTHER -> <<0, 1>>

Entry == [term : 0..MaxTerm, index : Nat, cmd : Commands]

\* pc: idle -> lookup -> peer/apply ... -> tally -> apply (leader) -> returned
Frame ==
  [pc : {"idle", "lookup", "asleep", "peer", "apply", "tally", "returned", "done", "failed"},
   tries : Nat, leader : Node, at : Node, todo : Seq(Node), acks : Nat,
   entry : Entry]

Leader(n) == role[n] = "leader"

-----------------------------------------------------------------------------
(* Elections. *)

\* Mutant: a vote that does not depose the old leader.
VoterRoleKept(n, p, t) == role[p]

\* The role of p after _handle_request_vote(n, t).
VoterRole(n, p, t) == IF t > term[p] THEN "follower" ELSE role[p]

\* _handle_request_vote: whether p grants its vote to n for term t
Grants(n, p, t) ==
  \/ t > term[p]
  \/ t = term[p] /\ votedFor[p] \in {NoVote, n}

\* _start_election with _become_leader
StartElection(n) ==
  LET t       == term[n] + 1
      granted == {p \in Peers(n) : Grants(n, p, t)}
      wins    == 1 + Cardinality(granted) >= Majority
  IN  /\ loop = Nobody
      /\ ~Leader(n)
      /\ t <= MaxTerm
      /\ role' = [p \in Node |-> IF p # n THEN VoterRole(n, p, t)
                                 ELSE IF wins THEN "leader" ELSE "candidate"]
      /\ term' = [p \in Node |-> IF p = n \/ t > term[p] THEN t ELSE term[p]]
      /\ votedFor' = [p \in Node |-> IF p = n \/ p \in granted THEN n ELSE votedFor[p]]
      /\ UNCHANGED <<logs, loop, prop, halted, history>>

\* _send_heartbeats
SendHeartbeats(n) ==
  /\ loop = Nobody
  /\ Leader(n)
  /\ role' = [p \in Node |-> IF p # n /\ term[p] < term[n] THEN "follower" ELSE role[p]]
  /\ term' = [p \in Node |-> IF p # n /\ term[p] < term[n] THEN term[n] ELSE term[p]]
  /\ UNCHANGED <<votedFor, logs, loop, prop, halted, history>>

-----------------------------------------------------------------------------
(* Proposals. *)

Set(p, f) == prop' = [prop EXCEPT ![p] = f]

\* A frame without locals: before the call and after it ended.
Empty(p, pc) ==
  [pc |-> pc, tries |-> 0, leader |-> 0, at |-> 0, todo |-> <<>>, acks |-> 0,
   entry |-> [term |-> 0, index |-> 0, cmd |-> p]]

\* RaftPSA.propose_halt and propose_resume
Propose(p) ==
  /\ loop = Nobody
  /\ prop[p].pc = "idle"
  /\ loop' = p
  /\ Set(p, [prop[p] EXCEPT !.pc = "lookup"])
  /\ UNCHANGED <<cluster, logs, halted, history>>

\* Mutant: the leader appends to its own log only after the followers.
LeaderLogLate(n, e) == log[n]

\* The leader's log once RaftNode.propose has started.
LeaderLog(n, e) == Append(log[n], e)

\* RaftCluster.propose: one round of the retry loop.
Lookup(p) ==
  LET n == CHOOSE m \in Node : Leader(m) /\ \A k \in Node : Leader(k) => m <= k
      e == [term |-> term[n], index |-> Len(log[n]), cmd |-> p]
  IN  /\ loop = p
      /\ prop[p].pc = "lookup"
      /\ \/ /\ \E m \in Node : Leader(m)
            /\ log' = [log EXCEPT ![n] = LeaderLog(n, e)]
            /\ Set(p, [prop[p] EXCEPT !.pc = "peer", !.leader = n, !.todo = PeerSeq(n),
                                      !.acks = 1, !.entry = e])
            /\ UNCHANGED loop
         \/ /\ \A m \in Node : ~Leader(m)
            /\ loop' = Nobody
            /\ Set(p, [prop[p] EXCEPT !.pc = "asleep", !.tries = @ + 1])
            /\ UNCHANGED log
      /\ UNCHANGED <<cluster, commitIndex, lastApplied, halted, history>>

\* The retry sleep is over.
WakeUp(p) ==
  /\ loop = Nobody
  /\ prop[p].pc = "asleep"
  /\ IF prop[p].tries < Retries
     THEN loop' = p /\ Set(p, [prop[p] EXCEPT !.pc = "lookup"])
     ELSE loop' = Nobody /\ Set(p, Empty(p, "failed"))
  /\ UNCHANGED <<cluster, logs, halted, history>>

\* Mutant: a follower that also rejects entries of its own term.
StaleOrCurrent(n, e) == e.term <= term[n]

\* The rejection in _handle_append_entries_from.
Stale(n, e) == e.term < term[n]

\* One iteration of the replication loop: _handle_append_entries_from up to
\* the call of _apply_committed, or the end of the loop.
Replicate(p) ==
  LET f == prop[p]
      n == Head(f.todo)
      e == f.entry
  IN  /\ loop = p
      /\ f.pc = "peer"
      /\ \/ /\ f.todo = <<>>
            /\ Set(p, [f EXCEPT !.pc = "tally"])
            /\ UNCHANGED <<cluster, logs>>
         \/ /\ f.todo # <<>> /\ Stale(n, e)
            /\ Set(p, [f EXCEPT !.todo = Tail(@)])
            /\ UNCHANGED <<cluster, logs>>
         \/ /\ f.todo # <<>> /\ ~Stale(n, e)
            /\ term' = [term EXCEPT ![n] = e.term]
            /\ votedFor' = [votedFor EXCEPT ![n] = IF e.term > term[n] THEN NoVote ELSE @]
            /\ role' = [role EXCEPT ![n] = "follower"]
            /\ log' = [log EXCEPT ![n] = Append(@, e)]
            /\ commitIndex' = [commitIndex EXCEPT ![n] = e.index]
            /\ Set(p, [f EXCEPT !.pc = "apply", !.at = n, !.todo = Tail(@), !.acks = @ + 1])
            /\ UNCHANGED lastApplied
      /\ UNCHANGED <<loop, halted, history>>

\* PSA._halt on behalf of p: it suspends unless the PSA is halted already.
CallHalt(p) ==
  /\ called' = called \cup {p}
  /\ halted' = TRUE
  /\ loop' = IF halted THEN loop ELSE Nobody

\* The resume entry: the PSA has neither _resume nor _unpause.
CallResume(p) == UNCHANGED <<called, halted, loop>>

\* One iteration of _apply_committed at the node the frame is at; positions
\* are counted from 0 as in the code.
ApplyCommitted(p) ==
  LET f    == prop[p]
      n    == f.at
      next == lastApplied[n] + 1
      cmd  == log[n][next + 1].cmd
  IN  /\ loop = p
      /\ f.pc = "apply"
      /\ \/ /\ lastApplied[n] >= commitIndex[n]
            /\ Set(p, [f EXCEPT !.pc = IF n = f.leader THEN "returned" ELSE "peer"])
            /\ UNCHANGED <<lastApplied, loop, halted, history>>
         \/ /\ lastApplied[n] < commitIndex[n]
            /\ lastApplied' = [lastApplied EXCEPT ![n] = next]
            /\ UNCHANGED prop
            /\ IF next < Len(log[n])
               THEN /\ applied' = applied \cup {cmd}
                    /\ IF cmd \in Halts THEN CallHalt(cmd) ELSE CallResume(cmd)
               ELSE UNCHANGED <<loop, halted, history>>
      /\ UNCHANGED <<cluster, log, commitIndex>>

\* The suspended on_commit of p returns.
Continue(p) ==
  /\ loop = Nobody
  /\ prop[p].pc \in {"apply", "returned"}
  /\ loop' = p
  /\ UNCHANGED <<cluster, logs, prop, halted, history>>

\* propose after the replication loop: commit, or pop the newest entry.
Tally(p) ==
  LET f == prop[p]
      n == f.leader
  IN  /\ loop = p
      /\ f.pc = "tally"
      /\ IF f.acks >= Majority
         THEN /\ commitIndex' = [commitIndex EXCEPT ![n] = f.entry.index]
              /\ Set(p, [f EXCEPT !.pc = "apply", !.at = n])
              /\ UNCHANGED <<log, loop>>
         ELSE /\ log' = [log EXCEPT ![n] = Front(@)]
              /\ Set(p, [f EXCEPT !.pc = "asleep", !.tries = @ + 1])
              /\ loop' = Nobody
              /\ UNCHANGED commitIndex
      /\ UNCHANGED <<cluster, lastApplied, halted, history>>

\* propose returned True: propose_halt calls _halt once more.
Returned(p) ==
  /\ loop = p
  /\ prop[p].pc = "returned"
  /\ Set(p, Empty(p, "done"))
  /\ loop' = Nobody
  /\ IF p \in Halts
     THEN called' = called \cup {p} /\ halted' = TRUE
     ELSE UNCHANGED <<called, halted>>
  /\ UNCHANGED <<cluster, logs, applied>>

-----------------------------------------------------------------------------
(* The PSA beside the cluster. *)

\* _handle_resume on a SYSTEM_STATE message of the governance layer.
HumanResume ==
  /\ loop = Nobody
  /\ halted
  /\ halted' = FALSE
  /\ UNCHANGED <<cluster, logs, loop, prop, history>>

\* A breached limit: the PSA's checks call _halt, not propose_halt.
DirectHalt ==
  /\ loop = Nobody
  /\ ~halted
  /\ halted' = TRUE
  /\ UNCHANGED <<cluster, logs, loop, prop, history>>

-----------------------------------------------------------------------------
RaftInit ==
  /\ role = [n \in Node |-> "follower"]
  /\ term = [n \in Node |-> 0]
  /\ votedFor = [n \in Node |-> NoVote]
  /\ log = [n \in Node |-> <<>>]
  /\ commitIndex = [n \in Node |-> -1]
  /\ lastApplied = [n \in Node |-> -1]
  /\ loop = Nobody
  /\ prop = [p \in Commands |-> Empty(p, "idle")]
  /\ halted = FALSE
  /\ called = {} /\ applied = {}

Step(p) ==
  \/ Lookup(p) \/ WakeUp(p) \/ Replicate(p) \/ ApplyCommitted(p)
  \/ Continue(p) \/ Tally(p) \/ Returned(p)

RaftNext ==
  \/ \E n \in Node : StartElection(n) \/ SendHeartbeats(n)
  \/ \E p \in Commands : Propose(p) \/ Step(p)
  \/ HumanResume \/ DirectHalt

RaftSpec == RaftInit /\ [][RaftNext]_raftVars

-----------------------------------------------------------------------------
(* Properties. *)

\* The shape of every node's fields and of every proposal's frame; an entry's
\* index is a position of a log.
RaftTypeOK ==
  /\ role \in [Node -> {"follower", "candidate", "leader"}]
  /\ term \in [Node -> 0..MaxTerm]
  /\ votedFor \in [Node -> Node \cup {NoVote}]
  /\ log \in [Node -> Seq(Entry)]
  /\ commitIndex \in [Node -> Nat \cup {-1}]
  /\ lastApplied \in [Node -> Nat \cup {-1}]
  /\ loop \in Commands \cup {Nobody}
  /\ prop \in [Commands -> Frame]
  /\ halted \in BOOLEAN
  /\ called \subseteq Commands /\ applied \subseteq Commands

\* get_leader takes the first leader it finds: there is never a second one,
\* and an elected leader is never behind a later term.
ElectionSafety ==
  /\ \A m, n \in Node : Leader(m) /\ Leader(n) => m = n
  /\ \A m, n \in Node : Leader(n) => term[m] <= term[n]

\* A proposal that found a leader is never rolled back, even when the leader
\* is deposed while a follower applies the entry: the pop of propose() would
\* remove whatever entry is newest.
NeverRolledBack == \A p \in Commands : prop[p].pc = "tally" => prop[p].acks >= Majority

\* What has had an effect: a command that a node gave to on_commit, that the PSA
\* was asked for, or that propose() answered with True.
Effective == applied \cup called \cup {p \in Commands : prop[p].pc \in {"returned", "done"}}

\* A command has an effect, by on_commit or by propose_halt's own call, only when
\* two of the three logs hold it; and they keep it through later elections and
\* proposals.
QuorumBeforeEffect ==
  \A p \in Effective : Cardinality({n \in Node : \E i \in DOMAIN log[n] : log[n][i].cmd = p}) >= Majority

=============================================================================
