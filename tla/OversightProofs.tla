-------------------------- MODULE OversightProofs ---------------------------
(***************************************************************************)
(* Proofs about what looks after the system and its data: the changes of   *)
(* the setup list (ChangeControl), the strategy sandbox (QuantSandbox),    *)
(* the smoothed health metrics (SystemHealth), the recorded session        *)
(* (ReplayLog) and the tick files (TickWarehouse), for any number of       *)
(* operators, validators, recorders, strategies, calls and inserts that    *)
(* overlap, and every window, threshold, buffer and bar.                   *)
(***************************************************************************)
EXTENDS ChangeControl, ReplayLog, SystemHealth, QuantSandbox, TickWarehouse,
        DataLemmas, SequenceTheorems, TLAPS

-----------------------------------------------------------------------------
(* Change control. *)

SetupNames == {SetupOf[p] : p \in Proposals}
EntryOfList == [setup : SetupNames, retired : BOOLEAN]

ChangeTypes ==
  /\ proposed \subseteq [p : Proposals, status : {"awaiting", "approved", "rejected"}]
  /\ pendingHgl \subseteq Proposals
  /\ deciding \in [Operators -> {Undecided} \cup
                     [p : Proposals, status : {"approved", "rejected"}, shared : BOOLEAN]]
  /\ setupList \in Seq(EntryOfList)
  /\ validating \in [Validators -> Proposals \cup {"none"}]
  /\ approvals \subseteq Proposals

\* What says it is approved was approved by an operator: a copy under way, the
\* object of a decision that is not over, and what a validator works on, which
\* is never a retirement.
ApprovalIsReal ==
  /\ \A m \in proposed : m.status = "approved" => m.p \in approvals
  /\ \A o \in Operators :
       deciding[o] # Undecided /\ deciding[o].status = "approved" => deciding[o].p \in approvals
  /\ \A v \in Validators :
       validating[v] # "none" => validating[v] \in approvals /\ Kind[validating[v]] # "retire"

ListIsBacked ==
  \A i \in 1 .. Len(setupList) : ~setupList[i].retired =>
    \E p \in approvals : SetupOf[p] = setupList[i].setup /\ Kind[p] \in {"add", "modify"}

ChangeInv == ChangeTypes /\ ApprovalIsReal /\ ListIsBacked

\* Proposals that are submitted or received change no approval.
LEMMA ProposalStep ==
  ASSUME ChangeInv, NEW p \in Proposals, SubmitProposal(p) \/ ReceiveProposal(p)
  PROVE  ChangeInv'
<1>1. CASE SubmitProposal(p)
  <2>1. /\ proposed' = proposed \cup {[p |-> p, status |-> "awaiting"]}
        /\ UNCHANGED <<pendingHgl, deciding, approvals, setupList, validating>>
    BY <1>1 DEF SubmitProposal, governance, edge
  <2>2. ChangeTypes'
    BY <2>1 DEF ChangeInv, ChangeTypes
  <2>3. ApprovalIsReal' /\ ListIsBacked'
    BY <2>1 DEF ChangeInv, ApprovalIsReal, ListIsBacked
  <2> QED BY <2>2, <2>3 DEF ChangeInv
<1>2. CASE ReceiveProposal(p)
  <2>1. /\ pendingHgl' = pendingHgl \cup {p}
        /\ deciding' = [o \in Operators |-> IF deciding[o].p = p
                          THEN [deciding[o] EXCEPT !.shared = FALSE] ELSE deciding[o]]
        /\ UNCHANGED <<proposed, approvals, setupList, validating>>
    BY <1>2 DEF ReceiveProposal, edge
  <2>2. ASSUME NEW o \in Operators
        PROVE  /\ deciding'[o] \in {Undecided} \cup
                    [p : Proposals, status : {"approved", "rejected"}, shared : BOOLEAN]
               /\ deciding'[o] # Undecided => /\ deciding[o] # Undecided
                                              /\ deciding'[o].p = deciding[o].p
                                              /\ deciding'[o].status = deciding[o].status
    <3>1. CASE deciding[o] = Undecided
      <4>1. deciding[o].p # p
        BY <3>1, ChangeAssumption DEF Undecided
      <4> QED BY <2>1, <3>1, <4>1
    <3>2. CASE deciding[o] # Undecided
      <4>1. deciding[o] \in [p : Proposals, status : {"approved", "rejected"}, shared : BOOLEAN]
        BY <3>2 DEF ChangeInv, ChangeTypes
      <4>2. deciding'[o] = deciding[o] \/ deciding'[o] = [deciding[o] EXCEPT !.shared = FALSE]
        BY <2>1
      <4> QED BY <3>2, <4>1, <4>2
    <3> QED BY <3>1, <3>2
  <2>3. ChangeTypes'
    BY <2>1, <2>2 DEF ChangeInv, ChangeTypes
  <2>4. ApprovalIsReal' /\ ListIsBacked'
    BY <2>1, <2>2 DEF ChangeInv, ApprovalIsReal, ListIsBacked
  <2> QED BY <2>3, <2>4 DEF ChangeInv
<1> QED BY <1>1, <1>2

\* A decision is recorded before the object shows it, also on the objects that
\* other decisions share.
LEMMA DecisionStep ==
  ASSUME ChangeInv, NEW o \in Operators, NEW p \in Proposals,
         ApproveProposal(o, p) \/ RejectProposal(o, p)
  PROVE  ChangeInv'
<1>1. PICK status \in {"approved", "rejected"}, shared \in BOOLEAN :
        /\ SetStatus(o, p, status, shared)
        /\ status = "approved" => approvals' = approvals \cup {p}
        /\ status = "rejected" => approvals' = approvals
  <2>1. CASE ApproveProposal(o, p)
    <3>1. SetStatus(o, p, "approved", p \in pendingHgl) /\ approvals' = approvals \cup {p}
      BY <2>1 DEF ApproveProposal
    <3>2. (p \in pendingHgl) \in BOOLEAN
      OBVIOUS
    <3> QED BY <3>1, <3>2, Zenon
  <2>2. CASE RejectProposal(o, p)
    <3>1. SetStatus(o, p, "rejected", TRUE) /\ approvals' = approvals
      BY <2>2 DEF RejectProposal
    <3>2. TRUE \in BOOLEAN
      OBVIOUS
    <3> QED BY <3>1, <3>2, Zenon
  <2> QED BY <2>1, <2>2
<1>2. /\ deciding' = [q \in Operators |->
           IF q = o THEN [p |-> p, status |-> status, shared |-> shared]
           ELSE IF shared /\ deciding[q].p = p /\ deciding[q].shared
                THEN [deciding[q] EXCEPT !.status = status] ELSE deciding[q]]
      /\ UNCHANGED <<proposed, pendingHgl, setupList, validating>>
  BY <1>1 DEF SetStatus, edge
<1>3. approvals \subseteq approvals' /\ approvals' \subseteq Proposals
      /\ (status = "approved" => p \in approvals')
  BY <1>1 DEF ChangeInv, ChangeTypes
<1>4. ASSUME NEW q \in Operators
      PROVE  /\ deciding'[q] \in {Undecided} \cup
                  [p : Proposals, status : {"approved", "rejected"}, shared : BOOLEAN]
             /\ deciding'[q] # Undecided /\ deciding'[q].status = "approved" =>
                  deciding'[q].p \in approvals'
  <2>1. CASE q = o
    BY <1>2, <1>3, <2>1
  <2>2. CASE q # o /\ deciding[q] = Undecided
    <3>1. deciding[q].p # p
      BY <2>2, ChangeAssumption DEF Undecided
    <3> QED BY <1>2, <2>2, <3>1
  <2>3. CASE q # o /\ deciding[q] # Undecided
    <3>1. deciding[q] \in [p : Proposals, status : {"approved", "rejected"}, shared : BOOLEAN]
      BY <2>3 DEF ChangeInv, ChangeTypes
    <3>2. deciding[q].status = "approved" => deciding[q].p \in approvals'
      BY <1>3, <2>3 DEF ChangeInv, ApprovalIsReal
    <3>3. CASE deciding'[q] = deciding[q]
      BY <3>1, <3>2, <3>3
    <3>4. CASE deciding[q].p = p /\ deciding'[q] = [deciding[q] EXCEPT !.status = status]
      BY <1>3, <3>1, <3>4
    <3> QED BY <1>2, <2>3, <3>3, <3>4
  <2> QED BY <2>1, <2>2, <2>3
<1>5. ChangeTypes'
  BY <1>2, <1>3, <1>4 DEF ChangeInv, ChangeTypes
<1>6. ApprovalIsReal'
  BY <1>2, <1>3, <1>4 DEF ChangeInv, ApprovalIsReal
<1>7. ListIsBacked'
  BY <1>2, <1>3 DEF ChangeInv, ListIsBacked
<1> QED BY <1>5, <1>6, <1>7 DEF ChangeInv

\* What an operator publishes at the end is the object's status by then.
LEMMA FinishStep ==
  ASSUME ChangeInv, NEW o \in Operators, NEW publishes \in BOOLEAN, FinishDecision(o, publishes)
  PROVE  ChangeInv'
<1> DEFINE m == [p |-> deciding[o].p, status |-> deciding[o].status]
<1>1. /\ deciding[o] # Undecided
      /\ pendingHgl' \subseteq pendingHgl
      /\ proposed' \subseteq proposed \cup {m}
      /\ deciding' = [deciding EXCEPT ![o] = Undecided]
      /\ UNCHANGED <<approvals, setupList, validating>>
  BY DEF FinishDecision, edge
<1>2. deciding[o] \in [p : Proposals, status : {"approved", "rejected"}, shared : BOOLEAN]
  BY <1>1 DEF ChangeInv, ChangeTypes
<1>3. /\ m \in [p : Proposals, status : {"awaiting", "approved", "rejected"}]
      /\ m.status = "approved" => m.p \in approvals
  BY <1>1, <1>2 DEF ChangeInv, ApprovalIsReal
<1> HIDE DEF m
<1>4. ChangeTypes'
  BY <1>1, <1>3 DEF ChangeInv, ChangeTypes
<1>5. ApprovalIsReal'
  BY <1>1, <1>3 DEF ChangeInv, ChangeTypes, ApprovalIsReal
<1>6. ListIsBacked'
  BY <1>1 DEF ChangeInv, ListIsBacked
<1> QED BY <1>4, <1>5, <1>6 DEF ChangeInv

\* Edge research takes up approved copies only.
LEMMA ValidationBegins ==
  ASSUME ChangeInv, NEW v \in Validators, NEW m \in proposed, NEW enough \in BOOLEAN,
         BeginValidation(v, m, enough)
  PROVE  ChangeInv'
<1>1. /\ m.p \in Proposals /\ m.p \in approvals /\ Kind[m.p] # "retire"
      /\ UNCHANGED <<proposed, pendingHgl, deciding, approvals, setupList>>
      /\ validating' = [validating EXCEPT ![v] = m.p] \/ validating' = validating
  BY DEF BeginValidation, ForEdge, governance, ChangeInv, ChangeTypes, ApprovalIsReal
<1>2. ChangeTypes'
  BY <1>1 DEF ChangeInv, ChangeTypes
<1>3. ApprovalIsReal'
  BY <1>1 DEF ChangeInv, ChangeTypes, ApprovalIsReal
<1>4. ListIsBacked'
  BY <1>1 DEF ChangeInv, ListIsBacked
<1> QED BY <1>2, <1>3, <1>4 DEF ChangeInv

\* The list keeps its backing when one place is replaced by, or one entry
\* appended that is backed or retired.
LEMMA BackedEntry ==
  ASSUME ChangeTypes, ListIsBacked, approvals' = approvals, NEW k, NEW e \in EntryOfList,
         ~e.retired => \E p \in approvals : SetupOf[p] = e.setup /\ Kind[p] \in {"add", "modify"},
         \/ setupList' = setupList
         \/ setupList' = Append(setupList, e)
         \/ k \in 1 .. Len(setupList) /\ setupList' = [setupList EXCEPT ![k] = e]
  PROVE  setupList' \in Seq(EntryOfList) /\ ListIsBacked'
<1>0. setupList \in Seq(EntryOfList)
  BY DEF ChangeTypes
<1>1. CASE setupList' = setupList
  BY <1>0, <1>1 DEF ListIsBacked
<1>2. CASE setupList' = Append(setupList, e)
  <2>1. /\ setupList' \in Seq(EntryOfList) /\ Len(setupList') = Len(setupList) + 1
        /\ Len(setupList) \in Nat
        /\ \A i \in 1 .. Len(setupList) : setupList'[i] = setupList[i]
        /\ setupList'[Len(setupList')] = e
    BY <1>0, <1>2
  <2>2. \A i \in 1 .. Len(setupList') : i \in 1 .. Len(setupList) \/ i = Len(setupList')
    BY <2>1
  <2> QED BY <2>1, <2>2 DEF ListIsBacked
<1>3. CASE k \in 1 .. Len(setupList) /\ setupList' = [setupList EXCEPT ![k] = e]
  <2>1. /\ setupList' \in Seq(EntryOfList) /\ Len(setupList') = Len(setupList)
        /\ \A i \in 1 .. Len(setupList) : setupList'[i] = e \/ setupList'[i] = setupList[i]
    BY <1>0, <1>3
  <2> QED BY <2>1 DEF ListIsBacked
<1> QED BY <1>1, <1>2, <1>3

\* A retirement takes activity away.
LEMMA RetirementStep ==
  ASSUME ChangeInv, NEW m \in proposed, RetireSetup(m)
  PROVE  ChangeInv'
<1> DEFINE s == SetupOf[m.p]
           k == ActivePlace(s)
<1>1. /\ UNCHANGED <<proposed, pendingHgl, deciding, approvals, validating>>
      /\ setupList' = setupList \/ (IsApproved(s) /\ setupList' = [setupList EXCEPT ![k].retired = TRUE])
  BY DEF RetireSetup, governance
<1>2. ApprovalIsReal'
  BY <1>1 DEF ChangeInv, ApprovalIsReal
<1>3. CASE setupList' = setupList
  BY <1>1, <1>2, <1>3 DEF ChangeInv, ChangeTypes, ListIsBacked
<1>4. CASE IsApproved(s) /\ setupList' = [setupList EXCEPT ![k].retired = TRUE]
  <2> HIDE DEF k
  <2>0. setupList \in Seq(EntryOfList)
    BY DEF ChangeInv, ChangeTypes
  <2>1. CASE k \in 1 .. Len(setupList)
    <3>0. setupList[k] \in EntryOfList
      BY <2>0, <2>1
    <3> DEFINE e == [setupList[k] EXCEPT !.retired = TRUE]
    <3>1. e \in EntryOfList /\ e.retired
      BY <3>0 DEF EntryOfList
    <3>2. setupList' = [setupList EXCEPT ![k] = e]
      BY <1>4
    <3> HIDE DEF e
    <3>3. setupList' \in Seq(EntryOfList) /\ ListIsBacked'
      BY <1>1, <2>1, <3>1, <3>2, BackedEntry DEF ChangeInv
    <3> QED BY <1>1, <1>2, <3>3 DEF ChangeInv, ChangeTypes
  <2>2. CASE k \notin 1 .. Len(setupList)
    <3>1. setupList' = setupList
      BY <1>4, <2>0, <2>2
    <3> QED BY <1>3, <3>1
  <2> QED BY <2>1, <2>2
<1> QED BY <1>1, <1>3, <1>4

\* What a validator puts on the list was approved.
LEMMA ValidationEnds ==
  ASSUME ChangeInv, NEW v \in Validators, ValidationPasses(v) \/ ValidationFails(v)
  PROVE  ChangeInv'
<1> DEFINE p == validating[v]
           s == SetupOf[p]
           e == [setup |-> s, retired |-> FALSE]
           k == Place(s)
<1>1. /\ p # "none" /\ p \in Proposals /\ p \in approvals /\ Kind[p] # "retire"
      /\ validating' = [validating EXCEPT ![v] = "none"]
      /\ UNCHANGED <<proposed, pendingHgl, deciding, approvals>>
      /\ setupList' = setupList \/ setupList' = Applied(p)
  BY DEF ValidationPasses, ValidationFails, governance, ChangeInv, ChangeTypes, ApprovalIsReal
<1>2. Kind[p] \in {"tweak", "modify", "add"}
  BY <1>1, ChangeAssumption
<1>3. e \in EntryOfList /\ e.setup = s
  BY <1>1 DEF EntryOfList, SetupNames
<1>4. \/ setupList' = setupList
      \/ Kind[p] \in {"add", "modify"} /\ setupList' \in {Append(setupList, e), [setupList EXCEPT ![k] = e]}
  BY <1>1, <1>2 DEF Applied
<1>5. setupList' \in Seq(EntryOfList) /\ ListIsBacked'
  <2> HIDE DEF k, e
  <2>1. CASE setupList' = setupList
    BY <1>1, <2>1 DEF ChangeInv, ChangeTypes, ListIsBacked
  <2>2. CASE Kind[p] \in {"add", "modify"} /\ setupList' \in {Append(setupList, e), [setupList EXCEPT ![k] = e]}
    <3>1. \E q \in approvals : SetupOf[q] = e.setup /\ Kind[q] \in {"add", "modify"}
      BY <1>1, <1>3, <2>2
    <3>2. setupList \in Seq(EntryOfList)
      BY DEF ChangeInv, ChangeTypes
    <3>3. CASE k \in 1 .. Len(setupList) \/ setupList' = Append(setupList, e)
      BY <1>1, <1>3, <2>2, <3>1, <3>3, BackedEntry DEF ChangeInv
    <3>4. CASE k \notin 1 .. Len(setupList) /\ setupList' = [setupList EXCEPT ![k] = e]
      BY <2>1, <3>2, <3>4
    <3> QED BY <2>2, <3>3, <3>4
  <2> QED BY <1>4, <2>1, <2>2
<1>6. ChangeTypes'
  BY <1>1, <1>5 DEF ChangeInv, ChangeTypes
<1>7. ApprovalIsReal'
  BY <1>1 DEF ChangeInv, ChangeTypes, ApprovalIsReal
<1> QED BY <1>5, <1>6, <1>7 DEF ChangeInv

\* A restart begins with an empty list.
LEMMA RestartStep ==
  ASSUME ChangeInv, NEW losing, RestartEdge(losing)
  PROVE  ChangeInv'
<1>1. /\ UNCHANGED <<proposed, pendingHgl, deciding, approvals>>
      /\ validating' = [v \in Validators |-> "none"]
      /\ setupList' = AfterRollingCheck(<<>>, losing)
  BY DEF RestartEdge, governance, ListAtStart
<1>2. setupList' \in Seq(EntryOfList) /\ Len(setupList') = 0
  BY <1>1 DEF AfterRollingCheck
<1>3. ChangeTypes'
  BY <1>1, <1>2 DEF ChangeInv, ChangeTypes
<1>4. ApprovalIsReal' /\ ListIsBacked'
  BY <1>1, <1>2 DEF ChangeInv, ApprovalIsReal, ListIsBacked
<1> QED BY <1>3, <1>4 DEF ChangeInv

\* An active setup has the approval of a human: no race between operators, no
\* stale copy of a proposal and no restart puts another one on the list.
THEOREM ActiveMeansApproved == ChangeSpec => []SetupHasApproval
<1>1. ChangeInit => ChangeInv
  <2> SUFFICES ASSUME ChangeInit PROVE ChangeInv
    OBVIOUS
  <2>1. /\ proposed = {} /\ pendingHgl = {} /\ approvals = {}
        /\ deciding = [o \in Operators |-> Undecided] /\ setupList = <<>>
        /\ validating = [v \in Validators |-> "none"]
    BY DEF ChangeInit
  <2>2. setupList \in Seq(EntryOfList) /\ Len(setupList) = 0
    BY <2>1
  <2>3. ChangeTypes
    BY <2>1, <2>2 DEF ChangeTypes
  <2>4. ApprovalIsReal /\ ListIsBacked
    BY <2>1, <2>2 DEF ApprovalIsReal, ListIsBacked
  <2> QED BY <2>3, <2>4 DEF ChangeInv
<1>2. ChangeInv /\ [ChangeNext]_changeVars => ChangeInv'
  <2> SUFFICES ASSUME ChangeInv, [ChangeNext]_changeVars PROVE ChangeInv'
    OBVIOUS
  <2>1. CASE UNCHANGED changeVars
    <3>1. UNCHANGED <<proposed, pendingHgl, deciding, approvals, setupList, validating>>
      BY <2>1 DEF changeVars, governance, edge
    <3> QED BY <3>1 DEF ChangeInv, ChangeTypes, ApprovalIsReal, ListIsBacked
  <2> QED BY <2>1, ProposalStep, DecisionStep, FinishStep, ValidationBegins, RetirementStep,
             ValidationEnds, RestartStep DEF ChangeNext
<1>3. ChangeInv => SetupHasApproval
  BY DEF ChangeInv, ListIsBacked, SetupHasApproval, Entries
<1> QED BY <1>1, <1>2, <1>3, PTL DEF ChangeSpec

-----------------------------------------------------------------------------
(* The strategy sandbox. *)

LifeStates == {"REGISTERED", "REMOVED", "STARTING", "ACTIVE", "ERROR", "STOPPING", "STOPPED",
               "PAUSED", "QUARANTINED"}

\* Calls that were made for an id and work on a strategy.
Holding == {"start", "stop_of_reload", "tick"}

CallTypes ==
  \A c \in Calls :
    /\ call[c].at \in Holding => call[c].id \in Strategies /\ call[c].of \in Strategies
    /\ call[c].at = "stop" => call[c].of \in Strategies
    /\ call[c].at = "stop_of_reload" => call[c].new \in Strategies

SandboxTypes ==
  /\ life \in [Strategies -> LifeStates]
  /\ registry \subseteq Strategies
  /\ runs \in [Strategies -> Strategies]
  /\ index \in [Symbols -> SUBSET Strategies]
  /\ errors \in [Strategies -> Nat]
  /\ book \in [Strategies -> Strategies]
  /\ over \in [Strategies -> SUBSET Breaches]
  /\ call = [c \in Calls |-> call[c]]
  /\ CallTypes

\* The index lists an id for every symbol of the strategy its entry has.
IndexIsCurrent == \A i \in registry : \A y \in Watches[runs[i]] : i \in index[y]

\* The book follows the id: every strategy that is under an id, or in the hands
\* of a call made for that id, has the book of the first one under it.
BookFollowsId ==
  /\ \A i \in registry : book[runs[i]] = i
  /\ \A c \in Calls : call[c].at \in Holding => book[call[c].of] = call[c].id

\* A strategy some call works on was started at some time.
WorkedOnIsStarted ==
  \A c \in Calls : call[c].at \in Holding \cup {"stop"} => life[call[c].of] # "REGISTERED"

\* What a reload will put in place is out of everybody's reach until then.
PendingIsFresh ==
  \A c \in Calls : call[c].at = "stop_of_reload" =>
    /\ life[call[c].new] = "REGISTERED" /\ call[c].new \notin registry
    /\ \A i \in Strategies : i # call[c].new => runs[i] # call[c].new
    /\ \A d \in Calls : call[d].at = "stop_of_reload" /\ call[d].new = call[c].new => d = c

SandboxInv ==
  /\ SandboxTypes /\ IndexIsCurrent /\ BookFollowsId /\ WorkedOnIsStarted /\ PendingIsFresh
  /\ BreachEndsActivity

\* A strategy enters the registry only when it is fresh.
LEMMA RegisterStep ==
  ASSUME SandboxInv, NEW s \in Strategies, Register(s)
  PROVE  SandboxInv'
<1>1. /\ s \notin registry /\ life[s] = "REGISTERED" /\ book[s] = s /\ runs[s] = s
      /\ \A c \in Calls : call[c].at = "stop_of_reload" => call[c].new # s
      /\ registry' = registry \cup {s}
      /\ index' = [y \in Symbols |-> IF y \in Watches[s] THEN index[y] \cup {s} ELSE index[y]]
      /\ UNCHANGED <<life, runs, errors, book, over, call, restarted>>
  BY DEF Register, Fresh
<1>2. SandboxTypes'
  BY <1>1 DEF SandboxInv, SandboxTypes, CallTypes
<1>3. IndexIsCurrent'
  BY <1>1, SandboxAssumption DEF SandboxInv, SandboxTypes, IndexIsCurrent
<1>4. BookFollowsId' /\ WorkedOnIsStarted' /\ PendingIsFresh'
  BY <1>1 DEF SandboxInv, BookFollowsId, WorkedOnIsStarted, PendingIsFresh
<1>5. BreachEndsActivity'
  BY <1>1 DEF SandboxInv, BreachEndsActivity, Breached
<1> QED BY <1>2, <1>3, <1>4, <1>5 DEF SandboxInv

\* An entry goes with its places in the index.
LEMMA DeregisterStep ==
  ASSUME SandboxInv, NEW i \in Strategies, Deregister(i)
  PROVE  SandboxInv'
<1>1. /\ i \in registry /\ registry' = registry \ {i}
      /\ index' = [y \in Symbols |-> IF y \in Watches[runs[i]] THEN index[y] \ {i} ELSE index[y]]
      /\ life' = [life EXCEPT ![runs[i]] = IF @ = "REGISTERED" THEN "REMOVED" ELSE @]
      /\ UNCHANGED <<runs, errors, book, over, call, restarted>>
  BY DEF Deregister
<1>2. /\ runs[i] \in Strategies
      /\ \A s \in Strategies : s # runs[i] => life'[s] = life[s]
      /\ life'[runs[i]] # "REGISTERED"
      /\ \A s \in Strategies : life'[s] = "ACTIVE" => life[s] = "ACTIVE"
  BY <1>1 DEF SandboxInv, SandboxTypes
<1>3. SandboxTypes'
  <2>1. life' \in [Strategies -> LifeStates]
    BY <1>1 DEF SandboxInv, SandboxTypes, LifeStates
  <2>2. CallTypes'
    BY <1>1 DEF SandboxInv, SandboxTypes, CallTypes
  <2> QED BY <1>1, <2>1, <2>2 DEF SandboxInv, SandboxTypes
<1>4. IndexIsCurrent'
  BY <1>1, SandboxAssumption DEF SandboxInv, SandboxTypes, IndexIsCurrent
<1>5. BookFollowsId'
  BY <1>1 DEF SandboxInv, BookFollowsId
<1>6. WorkedOnIsStarted'
  BY <1>1, <1>2 DEF SandboxInv, SandboxTypes, CallTypes, WorkedOnIsStarted
<1>7. PendingIsFresh'
  BY <1>1, <1>2 DEF SandboxInv, SandboxTypes, CallTypes, PendingIsFresh
<1>8. BreachEndsActivity'
  BY <1>1, <1>2 DEF SandboxInv, SandboxTypes, BreachEndsActivity, Breached
<1> QED BY <1>3, <1>4, <1>5, <1>6, <1>7, <1>8 DEF SandboxInv

\* Calls other than ticks may end, or begin to work on s for its id.
CallsMove(s) ==
  \A c \in Calls :
    \/ call'[c] = call[c]
    \/ call[c].at # "tick" /\ call'[c] = Idle
    \/ /\ call[c].at # "tick" /\ call'[c].at \in {"start", "stop"} /\ call'[c].of = s
       /\ call'[c].at # "stop" => call'[c].id \in Strategies /\ book[s] = call'[c].id

\* A strategy s takes another state, as the calls for its id and its coroutines
\* do it; it becomes active only when its id is noted as restarted.
LifeMoves(s, state) ==
  /\ s \in Strategies /\ state \in LifeStates \ {"REGISTERED"}
  /\ life' = [life EXCEPT ![s] = state]
  /\ \A c \in Calls : call[c].at = "stop_of_reload" => call[c].new # s
  /\ state = "ACTIVE" => \A i \in registry : runs[i] = s => i \in restarted'
  /\ restarted \subseteq restarted'
  /\ errors' \in [Strategies -> Nat] /\ \A i \in Strategies : errors'[i] >= errors[i]
  /\ call' = [c \in Calls |-> call'[c]] /\ CallsMove(s)
  /\ UNCHANGED <<registry, runs, index, book, over>>

\* Such a change keeps the invariant.
LEMMA LifeStep ==
  ASSUME SandboxInv, NEW s, NEW state, LifeMoves(s, state)
  PROVE  SandboxInv'
<1> USE DEF LifeMoves
<1>1. /\ life'[s] = state
      /\ \A t \in Strategies : t # s => life'[t] = life[t]
  BY DEF SandboxInv, SandboxTypes
<1>2. Idle.at = "idle" /\ "idle" \notin Holding \cup {"stop", "stop_of_reload"}
  BY DEF Idle, Holding
<1>3. SandboxTypes'
  <2>1. CallTypes'
    BY <1>2 DEF SandboxInv, SandboxTypes, CallTypes, Holding, CallsMove
  <2> QED BY <2>1 DEF SandboxInv, SandboxTypes
<1>4. IndexIsCurrent'
  BY DEF SandboxInv, IndexIsCurrent
<1>5. BookFollowsId'
  BY <1>2 DEF SandboxInv, BookFollowsId, Holding, CallsMove
<1>6. WorkedOnIsStarted'
  BY <1>1, <1>2 DEF SandboxInv, SandboxTypes, CallTypes, WorkedOnIsStarted, Holding, CallsMove
<1>7. PendingIsFresh'
  <2>1. \A c \in Calls : call'[c].at = "stop_of_reload" => call'[c] = call[c]
    BY <1>2 DEF CallsMove
  <2> QED BY <1>1, <2>1 DEF SandboxInv, SandboxTypes, CallTypes, PendingIsFresh, Holding
<1>8. BreachEndsActivity'
  <2> SUFFICES ASSUME NEW i \in registry, life'[runs[i]] = "ACTIVE", Breached(book[runs[i]]),
                      i \notin restarted', ~(errors'[i] > 0)
               PROVE  \E c \in Calls : call'[c].at = "tick" /\ book[call'[c].of] = book[runs[i]]
    BY DEF BreachEndsActivity, Breached
  <2>1. runs[i] # s /\ runs[i] \in Strategies /\ i \in Strategies
    BY <1>1 DEF SandboxInv, SandboxTypes
  <2>2. ~(errors[i] > 0)
    <3>1. errors[i] \in Nat /\ errors'[i] \in Nat /\ errors'[i] >= errors[i]
      BY <2>1 DEF SandboxInv, SandboxTypes
    <3> QED BY <3>1
  <2>3. PICK c \in Calls : call[c].at = "tick" /\ book[call[c].of] = book[runs[i]]
    BY <1>1, <2>1, <2>2 DEF SandboxInv, BreachEndsActivity
  <2>4. call'[c] = call[c]
    BY <2>3 DEF CallsMove
  <2> QED BY <2>3, <2>4
<1> QED BY <1>3, <1>4, <1>5, <1>6, <1>7, <1>8 DEF SandboxInv

\* No entry has a strategy that a reload is about to put in place.
LEMMA EntryIsNotPending ==
  ASSUME SandboxInv, NEW i \in registry
  PROVE  \A c \in Calls : call[c].at = "stop_of_reload" => call[c].new # runs[i]
BY DEF SandboxInv, SandboxTypes, PendingIsFresh

\* Nor is a call at work on it.
LEMMA WorkIsNotPending ==
  ASSUME SandboxInv, NEW d \in Calls, call[d].at \in Holding \cup {"stop"}
  PROVE  \A c \in Calls : call[c].at = "stop_of_reload" => call[c].new # call[d].of
BY DEF SandboxInv, WorkedOnIsStarted, PendingIsFresh

\* The calls up to on_start and on_stop.
LEMMA CallStep ==
  ASSUME SandboxInv, NEW i \in Strategies, NEW c \in Calls,
         StartStrategy(c, i) \/ StopStrategy(c, i)
  PROVE  SandboxInv'
<1> DEFINE s == runs[i]
<1>1. i \in registry /\ UNCHANGED <<registry, runs, index, errors, book, over>>
  BY DEF StartStrategy, StopStrategy
<1>2. /\ s \in Strategies /\ book[s] = i
      /\ \A d \in Calls : call[d].at = "stop_of_reload" => call[d].new # s
      /\ \A j \in registry : runs[j] = s => j = i
      /\ errors' \in [Strategies -> Nat] /\ \A j \in Strategies : errors'[j] >= errors[j]
      /\ call = [d \in Calls |-> call[d]]
  BY <1>1, EntryIsNotPending DEF SandboxInv, SandboxTypes, BookFollowsId
<1>3. Idle.at = "idle"
  BY DEF Idle
<1>4. CASE StartStrategy(c, i)
  <2>1. /\ call[c] = Idle /\ life' = [life EXCEPT ![s] = "STARTING"] /\ restarted' = restarted
        /\ call' = [call EXCEPT ![c] = [at |-> "start", id |-> i, of |-> s]]
    BY <1>4 DEF StartStrategy
  <2>2. /\ call' = [d \in Calls |-> call'[d]]
        /\ \A d \in Calls : d # c => call'[d] = call[d]
        /\ call'[c].at = "start" /\ call'[c].id = i /\ call'[c].of = s
    BY <1>2, <2>1
  <2>3. CallsMove(s)
    BY <1>2, <1>3, <2>1, <2>2 DEF CallsMove
  <2>4. LifeMoves(s, "STARTING")
    BY <1>1, <1>2, <2>1, <2>2, <2>3 DEF LifeMoves, LifeStates
  <2> QED BY <2>4, LifeStep
<1>5. CASE StopStrategy(c, i)
  <2>1. /\ call[c] = Idle /\ life' = [life EXCEPT ![s] = "STOPPING"] /\ restarted' = restarted
        /\ call' = [call EXCEPT ![c] = [at |-> "stop", of |-> s]]
    BY <1>5 DEF StopStrategy
  <2>2. /\ call' = [d \in Calls |-> call'[d]]
        /\ \A d \in Calls : d # c => call'[d] = call[d]
        /\ call'[c].at = "stop" /\ call'[c].of = s
    BY <1>2, <2>1
  <2>3. CallsMove(s)
    BY <1>2, <1>3, <2>1, <2>2 DEF CallsMove
  <2>4. LifeMoves(s, "STOPPING")
    BY <1>1, <1>2, <2>1, <2>2, <2>3 DEF LifeMoves, LifeStates
  <2> QED BY <2>4, LifeStep
<1> QED BY <1>4, <1>5

\* Pauses and resumptions.
LEMMA PauseStep ==
  ASSUME SandboxInv, NEW i \in Strategies, PauseStrategy(i) \/ ResumeStrategy(i)
  PROVE  SandboxInv'
<1> DEFINE s == runs[i]
<1>1. i \in registry /\ UNCHANGED <<registry, runs, index, errors, book, over>>
  BY DEF PauseStrategy, ResumeStrategy
<1>2. /\ s \in Strategies /\ book[s] = i
      /\ \A d \in Calls : call[d].at = "stop_of_reload" => call[d].new # s
      /\ \A j \in registry : runs[j] = s => j = i
      /\ errors' \in [Strategies -> Nat] /\ \A j \in Strategies : errors'[j] >= errors[j]
      /\ call = [d \in Calls |-> call[d]]
  BY <1>1, EntryIsNotPending DEF SandboxInv, SandboxTypes, BookFollowsId
<1>3. CASE PauseStrategy(i)
  <2>1. life' = [life EXCEPT ![s] = "PAUSED"] /\ UNCHANGED <<call, restarted>>
    BY <1>3 DEF PauseStrategy
  <2>2. CallsMove(s)
    BY <2>1 DEF CallsMove
  <2>3. LifeMoves(s, "PAUSED")
    BY <1>1, <1>2, <2>1, <2>2 DEF LifeMoves, LifeStates
  <2> QED BY <2>3, LifeStep
<1>4. CASE ResumeStrategy(i)
  <2>1. /\ life' = [life EXCEPT ![s] = "ACTIVE"] /\ call' = call
        /\ restarted' = restarted \cup {i}
    BY <1>4 DEF ResumeStrategy
  <2>2. CallsMove(s)
    BY <2>1 DEF CallsMove
  <2>3. LifeMoves(s, "ACTIVE")
    BY <1>1, <1>2, <2>1, <2>2 DEF LifeMoves, LifeStates
  <2> QED BY <2>3, LifeStep
<1> QED BY <1>3, <1>4

\* on_start and on_stop are over.
LEMMA CallDone ==
  ASSUME SandboxInv, NEW c \in Calls, NEW ok \in BOOLEAN, OnStartDone(c, ok) \/ OnStopDone(c)
  PROVE  SandboxInv'
<1> DEFINE s == call[c].of
<1>1. /\ call[c].at \in {"start", "stop"}
      /\ call' = [call EXCEPT ![c] = Idle] /\ UNCHANGED <<registry, runs, index, book, over>>
  BY DEF OnStartDone, OnStopDone
<1>2. /\ s \in Strategies /\ call = [d \in Calls |-> call[d]]
      /\ \A d \in Calls : call[d].at = "stop_of_reload" => call[d].new # s
  BY <1>1, WorkIsNotPending DEF SandboxInv, SandboxTypes, CallTypes, Holding
<1>3. /\ call' = [d \in Calls |-> call'[d]] /\ call'[c] = Idle
      /\ \A d \in Calls : d # c => call'[d] = call[d]
  BY <1>1, <1>2
<1>0. CallsMove(s)
  BY <1>1, <1>3 DEF CallsMove
<1>4. CASE OnStartDone(c, ok)
  <2> DEFINE i == call[c].id
             state == IF ok THEN "ACTIVE" ELSE "ERROR"
  <2>1. /\ call[c].at = "start" /\ life' = [life EXCEPT ![s] = state]
        /\ restarted' = restarted \cup {i}
        /\ errors' = [errors EXCEPT ![i] = IF ok THEN @ ELSE OneMore(i)]
    BY <1>4 DEF OnStartDone
  <2>2. i \in Strategies /\ book[s] = i /\ state \in LifeStates \ {"REGISTERED"}
    BY <2>1 DEF SandboxInv, SandboxTypes, CallTypes, BookFollowsId, Holding, LifeStates
  <2>3. \A j \in registry : runs[j] = s => j = i
    BY <2>2 DEF SandboxInv, BookFollowsId
  <2>4. errors' \in [Strategies -> Nat] /\ \A j \in Strategies : errors'[j] >= errors[j]
    BY <2>1, <2>2 DEF SandboxInv, SandboxTypes, OneMore
  <2> HIDE DEF state
  <2>5. LifeMoves(s, state)
    BY <1>0, <1>1, <1>2, <1>3, <2>1, <2>2, <2>3, <2>4 DEF LifeMoves
  <2> QED BY <2>5, LifeStep
<1>5. CASE OnStopDone(c)
  <2>1. life' = [life EXCEPT ![s] = "STOPPED"] /\ UNCHANGED <<errors, restarted>>
    BY <1>5 DEF OnStopDone
  <2>2. errors' \in [Strategies -> Nat] /\ \A j \in Strategies : errors'[j] >= errors[j]
    BY <2>1 DEF SandboxInv, SandboxTypes
  <2>3. LifeMoves(s, "STOPPED")
    BY <1>0, <1>1, <1>2, <1>3, <2>1, <2>2 DEF LifeMoves, LifeStates
  <2> QED BY <2>3, LifeStep
<1> QED BY <1>4, <1>5

\* hot_reload up to on_stop: the new strategy is fresh, and from now on nobody
\* else may take it.
LEMMA ReloadBegins ==
  ASSUME SandboxInv, NEW c \in Calls, NEW i \in Strategies, NEW new \in Strategies,
         HotReload(c, i, new)
  PROVE  SandboxInv'
<1> DEFINE s == runs[i]
<1>1. /\ i \in registry /\ call[c] = Idle /\ s \in Strategies /\ life[s] \in Stoppable
      /\ life' = [life EXCEPT ![s] = "STOPPING"]
      /\ call' = [call EXCEPT ![c] = [at |-> "stop_of_reload", id |-> i, of |-> s, new |-> new]]
      /\ UNCHANGED <<registry, runs, index, errors, book, over, restarted>>
  BY DEF HotReload, SandboxInv, SandboxTypes
<1>2. /\ new \notin registry /\ life[new] = "REGISTERED"
      /\ \A j \in Strategies : j # new => runs[j] # new
      /\ \A d \in Calls : call[d].at = "stop_of_reload" => call[d].new # new
  BY DEF HotReload, Fresh
<1>3. /\ call' = [d \in Calls |-> call'[d]]
      /\ \A d \in Calls : d # c => call'[d] = call[d]
      /\ call'[c].at = "stop_of_reload" /\ call'[c].id = i /\ call'[c].of = s /\ call'[c].new = new
  BY <1>1 DEF SandboxInv, SandboxTypes
<1>4. /\ life'[s] = "STOPPING" /\ \A t \in Strategies : t # s => life'[t] = life[t]
      /\ life' \in [Strategies -> LifeStates]
      /\ s # new
  BY <1>1, <1>2 DEF SandboxInv, SandboxTypes, LifeStates, Stoppable
<1>5. SandboxTypes'
  <2>1. CallTypes'
    BY <1>1, <1>3 DEF SandboxInv, SandboxTypes, CallTypes
  <2> QED BY <1>1, <1>3, <1>4, <2>1 DEF SandboxInv, SandboxTypes
<1>6. IndexIsCurrent'
  BY <1>1 DEF SandboxInv, IndexIsCurrent
<1>7. BookFollowsId'
  BY <1>1, <1>3 DEF SandboxInv, BookFollowsId
<1>8. WorkedOnIsStarted'
  BY <1>1, <1>3, <1>4 DEF SandboxInv, SandboxTypes, CallTypes, WorkedOnIsStarted
<1>9. PendingIsFresh'
  <2>1. \A d \in Calls : call[d].at = "stop_of_reload" => call[d].new # s
    BY <1>1, EntryIsNotPending
  <2> QED BY <1>1, <1>2, <1>3, <1>4, <2>1 DEF SandboxInv, SandboxTypes, CallTypes, PendingIsFresh, Holding
<1>10. BreachEndsActivity'
  <2> SUFFICES ASSUME NEW j \in registry, life'[runs[j]] = "ACTIVE", Breached(book[runs[j]]),
                      j \notin restarted, ~(errors[j] > 0)
               PROVE  \E d \in Calls : call'[d].at = "tick" /\ book[call'[d].of] = book[runs[j]]
    BY <1>1 DEF BreachEndsActivity, Breached
  <2>1. runs[j] \in Strategies /\ life[runs[j]] = "ACTIVE"
    BY <1>4 DEF SandboxInv, SandboxTypes
  <2>2. PICK d \in Calls : call[d].at = "tick" /\ book[call[d].of] = book[runs[j]]
    BY <2>1 DEF SandboxInv, BreachEndsActivity
  <2>3. d # c
    BY <1>1, <2>2 DEF Idle
  <2> QED BY <1>3, <2>2, <2>3
<1> QED BY <1>5, <1>6, <1>7, <1>8, <1>9, <1>10 DEF SandboxInv

\* The swap: nothing else refers to the new strategy, so giving it the book of
\* the old one concerns its own id only.
LEMMA SwapStep ==
  ASSUME SandboxInv, NEW c \in Calls, NEW i \in Strategies, NEW old \in Strategies,
         NEW new \in Strategies, NEW stopped \in [Strategies -> LifeStates],
         Swap(c, i, old, new, stopped),
         call[c].at # "tick", book[old] = i, new \notin registry,
         life[new] = "REGISTERED",
         \A t \in Strategies : stopped[t] = life[t] \/ (stopped[t] = "STOPPED" /\ life[t] # "REGISTERED"),
         \A j \in Strategies : j # new => runs[j] # new,
         \A d \in Calls : d # c /\ call[d].at = "stop_of_reload" => call[d].new # new
  PROVE  SandboxInv'
<1>1. /\ book' = [book EXCEPT ![new] = book[old]] /\ runs' = [runs EXCEPT ![i] = new]
      /\ errors' = [errors EXCEPT ![i] = 0] /\ index' = IndexAfterSwap(i, old, new)
      /\ UNCHANGED <<registry, over, restarted>>
  BY DEF Swap
<1>2. \/ /\ i \in registry /\ life' = [stopped EXCEPT ![new] = "STARTING"]
         /\ call' = [call EXCEPT ![c] = [at |-> "start", id |-> i, of |-> new]]
      \/ /\ i \notin registry /\ life' = stopped /\ call' = [call EXCEPT ![c] = Idle]
  BY DEF Swap
<1>3. /\ call' = [d \in Calls |-> call'[d]]
      /\ \A d \in Calls : d # c => call'[d] = call[d]
      /\ \/ i \in registry /\ call'[c].at = "start" /\ call'[c].id = i /\ call'[c].of = new
         \/ i \notin registry /\ call'[c].at = "idle"
  BY <1>2 DEF SandboxInv, SandboxTypes, Idle
<1>4. /\ life' \in [Strategies -> LifeStates]
      /\ i \in registry => life'[new] = "STARTING"
      /\ \A t \in Strategies \ {new} : life'[t] = "ACTIVE" => life[t] = "ACTIVE"
      /\ \A t \in Strategies \ {new} : life'[t] = "REGISTERED" <=> life[t] = "REGISTERED"
  BY <1>2 DEF LifeStates
<1>5. /\ book' \in [Strategies -> Strategies] /\ book'[new] = i
      /\ \A t \in Strategies \ {new} : book'[t] = book[t]
      /\ runs' \in [Strategies -> Strategies] /\ runs'[i] = new
      /\ \A j \in Strategies \ {i} : runs'[j] = runs[j]
      /\ errors' \in [Strategies -> Nat] /\ \A j \in Strategies \ {i} : errors'[j] = errors[j]
  BY <1>1 DEF SandboxInv, SandboxTypes
<1>6. \A d \in Calls : call[d].at \in Holding \cup {"stop"} => call[d].of # new /\ call[d].of \in Strategies
  BY DEF SandboxInv, SandboxTypes, CallTypes, WorkedOnIsStarted, Holding
<1>7. /\ index' \in [Symbols -> SUBSET Strategies]
      /\ \A y \in Watches[new] : i \in index'[y]
      /\ \A y \in Symbols, j \in Strategies \ {i} : j \in index[y] => j \in index'[y]
  BY <1>1, SandboxAssumption DEF SandboxInv, SandboxTypes, IndexAfterSwap
<1>8. SandboxTypes'
  <2>1. CallTypes'
    BY <1>3 DEF SandboxInv, SandboxTypes, CallTypes, Holding
  <2> QED BY <1>1, <1>3, <1>4, <1>5, <1>7, <2>1 DEF SandboxInv, SandboxTypes
<1>9. IndexIsCurrent'
  <2> SUFFICES ASSUME NEW j \in registry, NEW y \in Watches[runs'[j]] PROVE j \in index'[y]
    BY <1>1 DEF IndexIsCurrent
  <2>1. CASE j = i
    BY <1>5, <1>7, <2>1
  <2>2. CASE j # i
    <3>1. j \in Strategies /\ runs'[j] = runs[j] /\ runs[j] \in Strategies
      BY <1>5, <2>2 DEF SandboxInv, SandboxTypes
    <3>2. y \in Symbols /\ j \in index[y]
      BY <3>1, SandboxAssumption DEF SandboxInv, IndexIsCurrent
    <3> QED BY <1>7, <2>2, <3>1, <3>2
  <2> QED BY <2>1, <2>2
<1>10. \A j \in registry : j # i => /\ j \in Strategies /\ runs'[j] = runs[j] /\ runs[j] \in Strategies
                                   /\ runs[j] # new /\ book'[runs[j]] = book[runs[j]]
  BY <1>5 DEF SandboxInv, SandboxTypes
<1>11. BookFollowsId'
  BY <1>1, <1>3, <1>5, <1>6, <1>10 DEF SandboxInv, BookFollowsId, Holding
<1>12. WorkedOnIsStarted'
  BY <1>3, <1>4, <1>6 DEF SandboxInv, WorkedOnIsStarted, Holding
<1>13. PendingIsFresh'
  <2> SUFFICES ASSUME NEW d \in Calls, call'[d].at = "stop_of_reload"
               PROVE  /\ life'[call'[d].new] = "REGISTERED" /\ call'[d].new \notin registry
                      /\ \A j \in Strategies : j # call'[d].new => runs'[j] # call'[d].new
                      /\ \A e \in Calls : call'[e].at = "stop_of_reload" /\ call'[e].new = call'[d].new => e = d
    BY <1>1 DEF PendingIsFresh
  <2>1. /\ d # c /\ call'[d] = call[d] /\ call[d].new # new /\ call[d].new \in Strategies
        /\ \A e \in Calls : call'[e].at = "stop_of_reload" => e # c /\ call'[e] = call[e]
    BY <1>3 DEF SandboxInv, SandboxTypes, CallTypes
  <2>2. /\ life[call[d].new] = "REGISTERED" /\ call[d].new \notin registry
        /\ \A j \in Strategies : j # call[d].new => runs[j] # call[d].new
        /\ \A e \in Calls : call[e].at = "stop_of_reload" /\ call[e].new = call[d].new => e = d
    BY <2>1 DEF SandboxInv, PendingIsFresh
  <2> QED BY <1>4, <1>5, <2>1, <2>2
<1>14. BreachEndsActivity'
  <2> SUFFICES ASSUME NEW j \in registry, life'[runs'[j]] = "ACTIVE", Breached(book'[runs'[j]]),
                      j \notin restarted, ~(errors'[j] > 0)
               PROVE  \E d \in Calls : call'[d].at = "tick" /\ book'[call'[d].of] = book'[runs'[j]]
    BY <1>1 DEF BreachEndsActivity, Breached
  <2>1. j # i
    BY <1>4, <1>5
  <2>2. life[runs[j]] = "ACTIVE" /\ Breached(book[runs[j]]) /\ errors'[j] = errors[j]
    BY <1>4, <1>5, <1>10, <2>1
  <2>3. PICK d \in Calls : call[d].at = "tick" /\ book[call[d].of] = book[runs[j]]
    BY <2>2 DEF SandboxInv, BreachEndsActivity
  <2>4. d # c /\ book'[call[d].of] = book[call[d].of]
    BY <1>5, <1>6, <2>3 DEF Holding
  <2> QED BY <1>3, <1>10, <2>1, <2>3, <2>4
<1> QED BY <1>8, <1>9, <1>11, <1>12, <1>13, <1>14 DEF SandboxInv

\* Both reloads end in a swap whose conditions they meet.
LEMMA ReloadEnds ==
  ASSUME SandboxInv, NEW c \in Calls,
         \/ SwapAfterStop(c)
         \/ \E i, new \in Strategies : HotReloadUnstoppable(c, i, new)
  PROVE  SandboxInv'
<1>1. CASE SwapAfterStop(c)
  <2> DEFINE i == call[c].id
             old == call[c].of
             new == call[c].new
             stopped == [life EXCEPT ![old] = "STOPPED"]
  <2>1. call[c].at = "stop_of_reload" /\ Swap(c, i, old, new, stopped)
    BY <1>1 DEF SwapAfterStop
  <2>2. /\ i \in Strategies /\ old \in Strategies /\ new \in Strategies
        /\ book[old] = i /\ life[old] # "REGISTERED"
        /\ life[new] = "REGISTERED" /\ new \notin registry
        /\ \A j \in Strategies : j # new => runs[j] # new
        /\ \A d \in Calls : d # c /\ call[d].at = "stop_of_reload" => call[d].new # new
    BY <2>1 DEF SandboxInv, SandboxTypes, CallTypes, BookFollowsId, WorkedOnIsStarted, PendingIsFresh, Holding
  <2>3. /\ stopped \in [Strategies -> LifeStates]
        /\ \A t \in Strategies : stopped[t] = life[t] \/ (stopped[t] = "STOPPED" /\ life[t] # "REGISTERED")
    BY <2>2 DEF SandboxInv, SandboxTypes, LifeStates
  <2> HIDE DEF i, old, new, stopped
  <2> QED BY <2>1, <2>2, <2>3, SwapStep
<1>2. ASSUME NEW i \in Strategies, NEW new \in Strategies, HotReloadUnstoppable(c, i, new)
      PROVE  SandboxInv'
  <2>1. /\ call[c] = Idle /\ i \in registry /\ Swap(c, i, runs[i], new, life)
        /\ new \notin registry /\ life[new] = "REGISTERED"
        /\ \A j \in Strategies : j # new => runs[j] # new
        /\ \A d \in Calls : call[d].at = "stop_of_reload" => call[d].new # new
    BY <1>2 DEF HotReloadUnstoppable, Fresh
  <2>2. runs[i] \in Strategies /\ book[runs[i]] = i /\ life \in [Strategies -> LifeStates]
    BY <2>1 DEF SandboxInv, SandboxTypes, BookFollowsId
  <2>3. call[c].at # "tick"
    BY <2>1 DEF Idle
  <2> QED BY <2>1, <2>2, <2>3, SwapStep
<1> QED BY <1>1, <1>2

\* A tick is handed out, and its strategy may change its book.
LEMMA TickBegins ==
  ASSUME SandboxInv, NEW c \in Calls,
         \/ \E y \in Symbols : FeedTick(c, y)
         \/ \E i \in Strategies : RouteTick(c, i)
  PROVE  SandboxInv'
<1>1. /\ call[c].at \in {"idle", "route"}
      /\ UNCHANGED <<life, registry, runs, index, errors, book, over, restarted>>
      /\ \A d \in Calls : d # c => call'[d] = call[d]
      /\ call' = [d \in Calls |-> call'[d]]
  <2>1. \E v : call' = [call EXCEPT ![c] = v]
    BY Zenon DEF FeedTick, RouteTick
  <2>2. \A d \in Calls : d # c => call'[d] = call[d]
    BY <2>1 DEF SandboxInv, SandboxTypes
  <2>3. call' = [d \in Calls |-> call'[d]]
    BY <2>1 DEF SandboxInv, SandboxTypes
  <2>4. UNCHANGED <<life, registry, runs, index, errors, book, over, restarted>>
    BY Zenon DEF FeedTick, RouteTick
  <2>5. call[c] = Idle \/ call[c].at = "route"
    BY Zenon DEF FeedTick, RouteTick
  <2>6. call[c].at \in {"idle", "route"}
    BY <2>5 DEF Idle
  <2> QED BY <2>2, <2>3, <2>4, <2>6
<1>2. \/ call'[c].at \in {"idle", "route"}
      \/ /\ call'[c].at = "tick" /\ call'[c].id \in registry
         /\ call'[c].of = runs[call'[c].id] /\ life[call'[c].of] = "ACTIVE"
  <2>1. CASE \E y \in Symbols : FeedTick(c, y)
    BY <2>1 DEF FeedTick, SandboxInv, SandboxTypes
  <2>2. ASSUME NEW i \in Strategies, RouteTick(c, i)
        PROVE  \/ call'[c].at \in {"idle", "route"}
               \/ /\ call'[c].at = "tick" /\ call'[c].id \in registry
                  /\ call'[c].of = runs[call'[c].id] /\ life[call'[c].of] = "ACTIVE"
    <3> DEFINE rest == call[c].todo \ {i}
    <3>1. call'[c] = IF i \in registry /\ life[runs[i]] = "ACTIVE"
                     THEN [at |-> "tick", id |-> i, of |-> runs[i], todo |-> rest] ELSE Routed(rest)
      BY <2>2 DEF RouteTick, SandboxInv, SandboxTypes
    <3>2. Routed(rest).at \in {"idle", "route"}
      BY DEF Routed, Idle
    <3> HIDE DEF rest
    <3>3. CASE i \in registry /\ life[runs[i]] = "ACTIVE"
      BY <3>1, <3>3
    <3>4. CASE ~(i \in registry /\ life[runs[i]] = "ACTIVE")
      BY <3>1, <3>2, <3>4
    <3> QED BY <3>3, <3>4
  <2> QED BY <2>1, <2>2
<1>3. SandboxTypes'
  <2>1. CallTypes'
    BY <1>1, <1>2 DEF SandboxInv, SandboxTypes, CallTypes, Holding
  <2> QED BY <1>1, <2>1 DEF SandboxInv, SandboxTypes
<1>4. IndexIsCurrent' /\ BookFollowsId'
  BY <1>1, <1>2 DEF SandboxInv, IndexIsCurrent, BookFollowsId, Holding
<1>5. WorkedOnIsStarted'
  BY <1>1, <1>2 DEF SandboxInv, WorkedOnIsStarted, Holding
<1>6. PendingIsFresh'
  BY <1>1, <1>2 DEF SandboxInv, PendingIsFresh
<1>7. BreachEndsActivity'
  BY <1>1 DEF SandboxInv, BreachEndsActivity, Breached
<1> QED BY <1>3, <1>4, <1>5, <1>6, <1>7 DEF SandboxInv

\* A book that crosses a limit does so in the hands of a tick.
LEMMA FillStep ==
  ASSUME SandboxInv, NEW c \in Calls, RecordFill(c)
  PROVE  SandboxInv'
<1> DEFINE b == book[call[c].of]
<1>1. /\ call[c].at = "tick"
      /\ UNCHANGED <<life, registry, runs, index, errors, book, call, restarted>>
  BY DEF RecordFill
<1>2. call[c].of \in Strategies /\ b \in Strategies
  BY <1>1 DEF SandboxInv, SandboxTypes, CallTypes, Holding
<1>3. over' \in [Strategies -> SUBSET Breaches] /\ \A t \in Strategies : t # b => over'[t] = over[t]
  <2>1. PICK limit \in Breaches :
          over' = [over EXCEPT ![b] = IF limit \in @ THEN @ \ {limit} ELSE @ \cup {limit}]
    BY DEF RecordFill
  <2> QED BY <1>2, <2>1 DEF SandboxInv, SandboxTypes
<1>4. SandboxTypes'
  BY <1>1, <1>3 DEF SandboxInv, SandboxTypes, CallTypes
<1>5. IndexIsCurrent' /\ BookFollowsId' /\ WorkedOnIsStarted' /\ PendingIsFresh'
  BY <1>1 DEF SandboxInv, IndexIsCurrent, BookFollowsId, WorkedOnIsStarted, PendingIsFresh
<1>6. BreachEndsActivity'
  <2> SUFFICES ASSUME NEW j \in registry, life[runs[j]] = "ACTIVE", over'[book[runs[j]]] \cap Enforced # {},
                      j \notin restarted, ~(errors[j] > 0)
               PROVE  \E d \in Calls : call[d].at = "tick" /\ book[call[d].of] = book[runs[j]]
    BY <1>1 DEF BreachEndsActivity, Breached
  <2>1. book[runs[j]] \in Strategies
    BY DEF SandboxInv, SandboxTypes
  <2>2. CASE book[runs[j]] = b
    BY <1>1, <2>2
  <2>3. CASE book[runs[j]] # b
    BY <1>3, <2>1, <2>3 DEF SandboxInv, BreachEndsActivity, Breached
  <2> QED BY <2>2, <2>3
<1> QED BY <1>4, <1>5, <1>6 DEF SandboxInv

\* The end of a tick: the limits are checked, or an error is counted, for the
\* id the tick was for; no other id has its book.
LEMMA TickEnds ==
  ASSUME SandboxInv, NEW c \in Calls, OnTickReturns(c) \/ OnTickRaises(c)
  PROVE  SandboxInv'
<1> DEFINE i == call[c].id
<1>1. /\ call[c].at = "tick" /\ restarted' = restarted \ {i}
      /\ UNCHANGED <<registry, runs, index, book, over>>
      /\ \A d \in Calls : d # c => call'[d] = call[d]
      /\ call' = [d \in Calls |-> call'[d]]
  BY DEF OnTickReturns, OnTickRaises, SandboxInv, SandboxTypes
<1>2. /\ i \in Strategies /\ runs[i] \in Strategies /\ call[c].of \in Strategies
      /\ book[call[c].of] = i
  BY <1>1 DEF SandboxInv, SandboxTypes, CallTypes, BookFollowsId, Holding
<1>3. call'[c].at \in {"idle", "route"}
  <2>1. Routed(call[c].todo).at \in {"idle", "route"} /\ Idle.at = "idle"
    BY DEF Routed, Idle
  <2>2. call'[c] \in {Routed(call[c].todo), Idle}
    BY DEF OnTickReturns, OnTickRaises, SandboxInv, SandboxTypes
  <2> QED BY <2>1, <2>2
<1>4. life' = life \/ (i \in registry /\ life' = [life EXCEPT ![runs[i]] = "QUARANTINED"])
  BY DEF OnTickReturns, OnTickRaises, QuarantinedByRisk
<1>5. /\ life' \in [Strategies -> LifeStates]
      /\ \A s \in Strategies : life'[s] = "ACTIVE" => life[s] = "ACTIVE"
      /\ \A s \in Strategies : life'[s] = "REGISTERED" => life[s] = "REGISTERED"
      /\ \A s \in Strategies : life'[s] # life[s] => i \in registry /\ s = runs[i]
  BY <1>2, <1>4 DEF SandboxInv, SandboxTypes, LifeStates
<1>6. /\ errors' \in [Strategies -> Nat] /\ \A j \in Strategies \ {i} : errors'[j] = errors[j]
      /\ i \in registry /\ life'[runs[i]] = "ACTIVE" /\ Breached(book[runs[i]]) => errors'[i] > 0
  <2>1. CASE OnTickReturns(c)
    <3>1. /\ errors' = errors
          /\ life' = IF QuarantinedByRisk(i) THEN [life EXCEPT ![runs[i]] = "QUARANTINED"] ELSE life
      BY <2>1 DEF OnTickReturns
    <3> QED BY <1>2, <3>1 DEF QuarantinedByRisk, SandboxInv, SandboxTypes
  <2>2. CASE OnTickRaises(c)
    <3>1. errors' = [errors EXCEPT ![i] = OneMore(i)]
      BY <2>2 DEF OnTickRaises
    <3>2. OneMore(i) \in Nat /\ OneMore(i) > 0
      <4>1. errors[i] \in Nat
        BY <1>2 DEF SandboxInv, SandboxTypes
      <4> QED BY <4>1, SandboxAssumption DEF OneMore
    <3>3. errors \in [Strategies -> Nat]
      BY DEF SandboxInv, SandboxTypes
    <3> QED BY <1>2, <3>1, <3>2, <3>3
  <2> QED BY <2>1, <2>2
<1>7. SandboxTypes'
  <2>1. CallTypes'
    BY <1>1, <1>3 DEF SandboxInv, SandboxTypes, CallTypes, Holding
  <2> QED BY <1>1, <1>5, <1>6, <2>1 DEF SandboxInv, SandboxTypes
<1>8. IndexIsCurrent' /\ BookFollowsId'
  BY <1>1, <1>3 DEF SandboxInv, IndexIsCurrent, BookFollowsId, Holding
<1>9. WorkedOnIsStarted'
  BY <1>1, <1>3, <1>5 DEF SandboxInv, SandboxTypes, CallTypes, WorkedOnIsStarted, Holding
<1>10. PendingIsFresh'
  <2>1. \A d \in Calls : call'[d].at = "stop_of_reload" => call'[d] = call[d]
    BY <1>1, <1>3
  <2>2. \A d \in Calls : call[d].at = "stop_of_reload" =>
          call[d].new \in Strategies /\ life'[call[d].new] = life[call[d].new]
    BY <1>5, EntryIsNotPending DEF SandboxInv, SandboxTypes, CallTypes
  <2> QED BY <1>1, <2>1, <2>2 DEF SandboxInv, PendingIsFresh
<1>11. BreachEndsActivity'
  <2> SUFFICES ASSUME NEW j \in registry, life'[runs[j]] = "ACTIVE", Breached(book[runs[j]]),
                      j \notin restarted', ~(errors'[j] > 0)
               PROVE  \E d \in Calls : call'[d].at = "tick" /\ book[call'[d].of] = book[runs[j]]
    BY <1>1 DEF BreachEndsActivity, Breached
  <2>1. j # i
    BY <1>6
  <2>2. /\ runs[j] \in Strategies /\ life[runs[j]] = "ACTIVE" /\ j \notin restarted
        /\ errors'[j] = errors[j] /\ book[runs[j]] = j
    BY <1>1, <1>5, <1>6, <2>1 DEF SandboxInv, SandboxTypes, BookFollowsId
  <2>3. PICK d \in Calls : call[d].at = "tick" /\ book[call[d].of] = book[runs[j]]
    BY <2>2 DEF SandboxInv, BreachEndsActivity
  <2>4. d # c
    BY <1>2, <2>1, <2>2, <2>3
  <2> QED BY <1>1, <2>3, <2>4
<1> QED BY <1>7, <1>8, <1>9, <1>10, <1>11 DEF SandboxInv

\* However starts, stops, reloads, removals and ticks overlap, an active
\* strategy is in the index for all it watches, and one beyond its daily loss,
\* drawdown or open positions is stopped by the next tick that ends without an
\* error. The notional of a position stops nothing.
THEOREM SandboxServesAndStops == SandboxSpec => []SandboxIsSound
<1>1. SandboxInit => SandboxInv
  <2> SUFFICES ASSUME SandboxInit PROVE SandboxInv
    OBVIOUS
  <2>1. /\ life = [s \in Strategies |-> "REGISTERED"] /\ registry = {}
        /\ runs = [s \in Strategies |-> s] /\ index = [y \in Symbols |-> {}]
        /\ errors = [s \in Strategies |-> 0] /\ book = [s \in Strategies |-> s]
        /\ call = [c \in Calls |-> Idle] /\ Idle.at = "idle"
    BY DEF SandboxInit, Idle
  <2>2. over \in [Strategies -> SUBSET Breaches]
    BY DEF SandboxInit
  <2>3. SandboxTypes
    BY <2>1, <2>2 DEF SandboxTypes, CallTypes, Holding, LifeStates
  <2>4. IndexIsCurrent /\ BookFollowsId /\ WorkedOnIsStarted /\ PendingIsFresh /\ BreachEndsActivity
    BY <2>1 DEF IndexIsCurrent, BookFollowsId, WorkedOnIsStarted, PendingIsFresh, BreachEndsActivity, Holding
  <2> QED BY <2>3, <2>4 DEF SandboxInv
<1>2. SandboxInv /\ [SandboxNext]_sandboxVars => SandboxInv'
  <2> SUFFICES ASSUME SandboxInv, [SandboxNext]_sandboxVars PROVE SandboxInv'
    OBVIOUS
  <2>1. CASE UNCHANGED sandboxVars
    BY <2>1 DEF sandboxVars, SandboxInv, SandboxTypes, CallTypes, IndexIsCurrent, BookFollowsId,
                WorkedOnIsStarted, PendingIsFresh, BreachEndsActivity, Breached
  <2>2. ASSUME NEW i \in Strategies, Register(i) \/ Deregister(i) PROVE SandboxInv'
    BY <2>2, RegisterStep, DeregisterStep
  <2>3. ASSUME NEW i \in Strategies, PauseStrategy(i) \/ ResumeStrategy(i) PROVE SandboxInv'
    BY <2>3, PauseStep
  <2>4. ASSUME NEW c \in Calls, NEW i \in Strategies,
               StartStrategy(c, i) \/ StopStrategy(c, i) \/ RouteTick(c, i)
        PROVE  SandboxInv'
    BY <2>4, CallStep, TickBegins
  <2>5. ASSUME NEW c \in Calls, NEW i \in Strategies, NEW new \in Strategies,
               HotReload(c, i, new) \/ HotReloadUnstoppable(c, i, new)
        PROVE  SandboxInv'
    BY <2>5, ReloadBegins, ReloadEnds
  <2>6. ASSUME NEW c \in Calls,
               \/ \E ok \in BOOLEAN : OnStartDone(c, ok)
               \/ \E y \in Symbols : FeedTick(c, y)
               \/ OnStopDone(c) \/ SwapAfterStop(c) \/ RecordFill(c) \/ OnTickReturns(c) \/ OnTickRaises(c)
        PROVE  SandboxInv'
    BY <2>6, CallDone, TickBegins, ReloadEnds, FillStep, TickEnds
  <2> QED BY <2>1, <2>2, <2>3, <2>4, <2>5, <2>6 DEF SandboxNext
<1>3. SandboxInv => SandboxIsSound
  BY DEF SandboxInv, IndexIsCurrent, SandboxIsSound, ActiveSeesItsTicks
<1> QED BY <1>1, <1>2, <1>3, PTL DEF SandboxSpec

-----------------------------------------------------------------------------
(* System health. *)

\* What _MetricState adds up is the sum of the window.
LEMMA WindowSum ==
  ASSUME NEW s \in Seq(Nat)
  PROVE  \E f : Sums(s, Len(s), f) /\ SampleSum(s) = f[Len(s)]
<1>1. \E f : Sums(s, Len(s), f)
  <2>1. Len(s) \in Nat
    OBVIOUS
  <2> QED BY <2>1, SumsExist, Zenon
<1> DEFINE sum[i \in 0 .. Len(s)] == IF i = 0 THEN 0 ELSE sum[i - 1] + s[i]
<1>2. sum = [i \in 0 .. Len(s) |-> IF i = 0 THEN 0 ELSE sum[i - 1] + s[i]]
  <2>1. \E f : f = [i \in 0 .. Len(s) |-> IF i = 0 THEN 0 ELSE f[i - 1] + s[i]]
    BY <1>1, Zenon DEF Sums
  <2> QED BY <2>1, Zenon
<1>3. SampleSum(s) = sum[Len(s)]
  BY DEF SampleSum
<1> HIDE DEF sum
<1>4. Sums(s, Len(s), sum)
  BY <1>2, Zenon DEF Sums
<1> QED BY <1>3, <1>4

\* One sample of at most top and the others of at most most bound the sum.
LEMMA SumIsBounded ==
  ASSUME NEW s \in Seq(Nat), NEW most \in Nat, NEW top \in Nat,
         NEW k \in 1 .. Len(s), s[k] <= top, \A i \in 1 .. Len(s) : i # k => s[i] <= most
  PROVE  SampleSum(s) \in Int /\ SampleSum(s) <= (Len(s) - 1) * most + top
<1>1. PICK f : Sums(s, Len(s), f) /\ SampleSum(s) = f[Len(s)]
  BY WindowSum
<1> DEFINE n == Len(s)
<1>2. n \in Nat /\ k \in 1 .. n /\ s[k] \in Nat /\ \A i \in 1 .. n : i # k => s[i] \in Nat /\ s[i] <= most
  OBVIOUS
<1> HIDE DEF n
<1>3. f[n] \in Int /\ f[n] <= (n - 1) * most + top
  BY <1>1, <1>2, SumsBound DEF n
<1> QED BY <1>1, <1>3 DEF n

\* The window holds what was read, at most as many as it has places; a halt on
\* a metric was published when its average was critical.
HealthInv ==
  /\ busLatency \in Nat
  /\ samples \in [Dims -> Seq(Nat)]
  /\ \A d \in Dims : Len(samples[d]) <= Smoothing
  /\ \A d \in Percent : \A i \in 1 .. Len(samples[d]) : samples[d][i] <= Full
  /\ command = "HALT_COMMAND" => \E d \in Dims : Reaches(samples[d], Critical[d])

\* The newest sample takes the place of the oldest one of a full window.
LEMMA WindowStep ==
  ASSUME HealthInv, NEW d \in Dims, NEW value \in Nat, d \in Percent => value <= Full
  PROVE  /\ Latest(d, value) \in Seq(Nat) /\ Len(Latest(d, value)) <= Smoothing
         /\ d \in Percent => \A i \in 1 .. Len(Latest(d, value)) : Latest(d, value)[i] <= Full
<1>1. /\ samples[d] \in Seq(Nat) /\ Len(samples[d]) \in Nat /\ Len(samples[d]) <= Smoothing
      /\ d \in Percent => \A i \in 1 .. Len(samples[d]) : samples[d][i] <= Full
      /\ Smoothing \in Nat \ {0}
  BY HealthAssumption DEF HealthInv
<1>2. CASE Len(samples[d]) = Smoothing
  <2> DEFINE t == Tail(samples[d])
  <2>1. /\ t \in Seq(Nat) /\ Len(t) = Len(samples[d]) - 1
        /\ \A i \in 1 .. Len(t) : t[i] = samples[d][i + 1] /\ i + 1 \in 1 .. Len(samples[d])
    BY <1>1, <1>2
  <2>2. Latest(d, value) = Append(t, value)
    BY <1>2 DEF Latest
  <2> HIDE DEF t
  <2>3. /\ Append(t, value) \in Seq(Nat) /\ Len(Append(t, value)) = Len(t) + 1
        /\ \A i \in 1 .. Len(t) : Append(t, value)[i] = t[i]
        /\ Append(t, value)[Len(t) + 1] = value /\ Len(t) \in Nat
    BY <2>1
  <2>4. \A i \in 1 .. Len(t) + 1 : i \in 1 .. Len(t) \/ i = Len(t) + 1
    BY <2>3
  <2>5. d \in Percent => \A i \in 1 .. Len(t) : t[i] <= Full
    BY <1>1, <2>1
  <2>6. Len(t) + 1 <= Smoothing
    BY <1>1, <1>2, <2>1
  <2> QED BY <2>2, <2>3, <2>4, <2>5, <2>6
<1>3. CASE Len(samples[d]) # Smoothing
  <2> DEFINE t == samples[d]
  <2>2. Latest(d, value) = Append(t, value)
    BY <1>3 DEF Latest
  <2>3. /\ Append(t, value) \in Seq(Nat) /\ Len(Append(t, value)) = Len(t) + 1
        /\ \A i \in 1 .. Len(t) : Append(t, value)[i] = t[i]
        /\ Append(t, value)[Len(t) + 1] = value /\ Len(t) \in Nat
    BY <1>1
  <2>4. \A i \in 1 .. Len(t) + 1 : i \in 1 .. Len(t) \/ i = Len(t) + 1
    BY <2>3
  <2> HIDE DEF t
  <2>5. Len(t) + 1 <= Smoothing
    BY <1>1, <1>3, <2>3 DEF t
  <2>6. d \in Percent => \A i \in 1 .. Len(t) : t[i] <= Full
    BY <1>1 DEF t
  <2> QED BY <2>2, <2>3, <2>4, <2>5, <2>6
<1> QED BY <1>2, <1>3

\* A tick of the clock and a poll keep the invariant.
LEMMA HealthStep == HealthInv /\ [HealthNext]_healthVars => HealthInv'
<1> SUFFICES ASSUME HealthInv, [HealthNext]_healthVars PROVE HealthInv'
  OBVIOUS
<1>1. CASE UNCHANGED <<samples, command>> /\ busLatency' \in Nat
  BY <1>1 DEF HealthInv, Reaches
<1>2. ASSUME NEW reading \in Measurements, NEW linked \in BOOLEAN, Poll(reading, linked)
      PROVE  HealthInv'
  <2> DEFINE value(d) == IF d = "bus" THEN busLatency ELSE reading[d]
  <2>1. ASSUME NEW d \in Dims PROVE value(d) \in Nat /\ (d \in Percent => value(d) <= Full)
    <3>1. /\ reading[d] \in Readings[d] /\ Readings[d] \subseteq Nat /\ busLatency \in Nat
          /\ d \in Percent => d # "bus" /\ Readings[d] \subseteq 0 .. Full /\ Full \in Nat
      BY HealthAssumption DEF HealthInv, Measurements
    <3>2. reading[d] \in Nat /\ (d \in Percent => reading[d] \in 0 .. Full)
      BY <3>1
    <3> QED BY <3>1, <3>2
  <2>2. /\ samples' = [d \in Dims |-> Latest(d, value(d))]
        /\ command' = CommandFor(samples', linked) /\ busLatency' = busLatency
    BY <1>2 DEF Poll
  <2> HIDE DEF value
  <2>3. ASSUME NEW d \in Dims
        PROVE  /\ samples'[d] \in Seq(Nat) /\ Len(samples'[d]) <= Smoothing
               /\ d \in Percent => \A i \in 1 .. Len(samples'[d]) : samples'[d][i] <= Full
    <3>1. samples'[d] = Latest(d, value(d))
      BY <2>2
    <3> QED BY <2>1, <3>1, WindowStep
  <2>4. command' = "HALT_COMMAND" => \E d \in Dims : Reaches(samples'[d], Critical[d])
    BY <2>2, Zenon DEF CommandFor
  <2>5. samples' \in [Dims -> Seq(Nat)]
    BY <2>2, <2>3
  <2>6. /\ \A d \in Dims : Len(samples'[d]) <= Smoothing
        /\ \A d \in Percent : \A i \in 1 .. Len(samples'[d]) : samples'[d][i] <= Full
    BY <2>3, HealthAssumption
  <2>7. (\E d \in Dims : Reaches(samples[d], Critical[d]))' <=> \E d \in Dims : Reaches(samples'[d], Critical[d])
    BY DEF Reaches
  <2> QED BY <2>2, <2>4, <2>5, <2>6, <2>7 DEF HealthInv
<1> QED BY <1>1, <1>2, HealthAssumption DEF HealthNext, ClockTick, healthVars, HealthInv

\* Once the window is full, a halt on a percentage means that two of its samples
\* were at the warning threshold or above: one transient spike does not halt.
THEOREM SpikeIsSmoothed == HealthSpec => []SpikeDoesNotHalt
<1>1. HealthInit => HealthInv
  <2> SUFFICES ASSUME HealthInit PROVE HealthInv
    OBVIOUS
  <2>1. busLatency = 0 /\ samples = [d \in Dims |-> <<>>] /\ command = "none"
    BY DEF HealthInit
  <2> QED BY <2>1, HealthAssumption DEF HealthInv
<1>2. HealthInv => SpikeDoesNotHalt
  <2> SUFFICES ASSUME HealthInv, command = "HALT_COMMAND", \A d \in Dims : ~(Len(samples[d]) < Smoothing),
                      NEW d \in Dims, Reaches(samples[d], Critical[d]), d \in Percent
               PROVE  \E i, j \in 1 .. Smoothing :
                        i # j /\ samples[d][i] >= Warning[d] /\ samples[d][j] >= Warning[d]
    BY DEF SpikeDoesNotHalt, HealthInv
  <2> DEFINE s == samples[d]
             w == Warning[d]
             crit == Critical[d]
  <2>1. /\ s \in Seq(Nat) /\ Len(s) = Smoothing /\ \A i \in 1 .. Len(s) : s[i] <= Full /\ s[i] \in Nat
        /\ w \in Nat /\ crit \in Nat /\ Full \in Nat /\ Smoothing \in Nat \ {0, 1}
    <3>1. s \in Seq(Nat) /\ Len(s) \in Nat /\ Len(s) <= Smoothing /\ ~(Len(s) < Smoothing)
      BY DEF HealthInv
    <3>2. \A i \in 1 .. Len(s) : s[i] <= Full
      BY DEF HealthInv
    <3> QED BY <3>1, <3>2, HealthAssumption
  <2>2. Full + (Smoothing - 1) * w <= crit * Smoothing /\ SampleSum(s) >= crit * Smoothing
    BY <2>1, ThresholdAssumption DEF Reaches
  <2> SUFFICES ASSUME \A i, j \in 1 .. Smoothing : i # j => ~(s[i] >= w /\ s[j] >= w) PROVE FALSE
    OBVIOUS
  <2> HIDE DEF s, w, crit
  <2>3. \E k \in 1 .. Smoothing : \A i \in 1 .. Smoothing : i # k => s[i] < w
    <3>1. CASE \E k \in 1 .. Smoothing : s[k] >= w
      <4>1. PICK k \in 1 .. Smoothing : s[k] >= w
        BY <3>1
      <4>2. ASSUME NEW i \in 1 .. Smoothing, i # k PROVE s[i] < w
        <5>1. ~(s[i] >= w)
          BY <4>1, <4>2
        <5>2. s[i] \in Int /\ w \in Int
          BY <2>1
        <5> QED BY <5>1, <5>2
      <4> QED BY <4>2
    <3>2. CASE ~\E k \in 1 .. Smoothing : s[k] >= w
      <4>1. 1 \in 1 .. Smoothing
        BY <2>1
      <4> QED BY <2>1, <3>2, <4>1
    <3> QED BY <3>1, <3>2
  <2>4. PICK k \in 1 .. Smoothing : \A i \in 1 .. Smoothing : i # k => s[i] < w
    BY <2>3
  <2>5. w - 1 \in Nat
    <3>1. PICK i \in 1 .. Smoothing : i # k
      <4>1. 1 \in 1 .. Smoothing /\ 2 \in 1 .. Smoothing
        BY <2>1
      <4> QED BY <4>1
    <3>2. s[i] < w /\ s[i] \in Nat
      BY <2>1, <2>4, <3>1
    <3> QED BY <2>1, <3>2
  <2>6. s[k] <= Full /\ k \in 1 .. Len(s) /\ \A i \in 1 .. Len(s) : i # k => s[i] <= w - 1
    BY <2>1, <2>4
  <2>7. SampleSum(s) \in Int /\ SampleSum(s) <= (Smoothing - 1) * (w - 1) + Full
    BY <2>1, <2>5, <2>6, SumIsBounded
  <2>8. (Smoothing - 1) * (w - 1) = (Smoothing - 1) * w - (Smoothing - 1)
    <3>1. \A x \in Int, y \in Int : x * (y - 1) = x * y - x
      OBVIOUS
    <3> QED BY <2>1, <3>1
  <2>9. crit * Smoothing \in Int /\ (Smoothing - 1) * w \in Int
    BY <2>1
  <2> QED BY <2>1, <2>2, <2>7, <2>8, <2>9
<1> QED BY <1>1, <1>2, HealthStep, PTL DEF HealthSpec

-----------------------------------------------------------------------------
(* The recorded session. *)

RecorderInv ==
  /\ session \subseteq Events
  /\ lines \in Seq(Events)
  /\ recording \in [Recorders -> Events \cup {0}]
  /\ \A r \in Recorders : recording[r] # 0 => recording[r] \in session
  /\ FileMatchesDatabase

\* Recording and writing keep it; a replay changes nothing of it.
LEMMA RecorderStep == RecorderInv /\ [ReplayNext]_replayVars => RecorderInv'
<1> SUFFICES ASSUME RecorderInv, [ReplayNext]_replayVars PROVE RecorderInv'
  OBVIOUS
<1>0. 0 \notin Events
  BY ReplayAssumption
<1>1. CASE UNCHANGED <<session, lines, recording>>
  BY <1>1 DEF RecorderInv, FileMatchesDatabase
<1>2. ASSUME NEW r \in Recorders, NEW e \in Events, RecordEvent(r, e) PROVE RecorderInv'
  <2>1. /\ recording[r] = 0 /\ session' = session \cup {e} /\ lines' = lines
        /\ recording' = [recording EXCEPT ![r] = e]
    BY <1>2 DEF RecordEvent, Inserted
  <2>2. recording'[r] = e /\ \A q \in Recorders : q # r => recording'[q] = recording[q]
    BY <2>1 DEF RecorderInv
  <2>3. FileMatchesDatabase'
    BY <1>0, <2>1, <2>2 DEF RecorderInv, FileMatchesDatabase
  <2> QED BY <2>1, <2>2, <2>3 DEF RecorderInv
<1>3. ASSUME NEW r \in Recorders, WriteLine(r) PROVE RecorderInv'
  <2> DEFINE e == recording[r]
  <2>1. /\ e # 0 /\ session' = session /\ lines' = Append(lines, e)
        /\ recording' = [recording EXCEPT ![r] = 0]
    BY <1>3 DEF WriteLine
  <2>2. recording'[r] = 0 /\ \A q \in Recorders : q # r => recording'[q] = recording[q]
    BY <2>1 DEF RecorderInv
  <2>3. e \in Events /\ e \in session
    BY <2>1 DEF RecorderInv
  <2>4. /\ lines' \in Seq(Events) /\ Len(lines') = Len(lines) + 1 /\ Len(lines) \in Nat
        /\ \A i \in 1 .. Len(lines) : lines'[i] = lines[i]
        /\ lines'[Len(lines')] = e
    BY <2>1, <2>3 DEF RecorderInv
  <2>5. \A i \in 1 .. Len(lines') : i \in 1 .. Len(lines) \/ i = Len(lines')
    BY <2>4
  <2>6. 1 .. Len(lines) \subseteq 1 .. Len(lines') /\ Len(lines') \in 1 .. Len(lines')
    BY <2>4
  <2>7. \A i \in 1 .. Len(lines') : lines'[i] \in session
    BY <2>3, <2>4, <2>5 DEF RecorderInv, FileMatchesDatabase
  <2>8. ASSUME NEW f \in session
        PROVE  (\E i \in 1 .. Len(lines') : lines'[i] = f) \/ (\E q \in Recorders : recording'[q] = f)
    <3>1. CASE f = e
      BY <2>4, <2>6, <3>1
    <3>2. CASE f # e /\ \E i \in 1 .. Len(lines) : lines[i] = f
      BY <2>4, <2>6, <3>2
    <3>3. CASE f # e /\ \E q \in Recorders : recording[q] = f
      BY <2>2, <3>3
    <3> QED BY <3>1, <3>2, <3>3 DEF RecorderInv, FileMatchesDatabase
  <2>9. FileMatchesDatabase'
    BY <2>1, <2>7, <2>8 DEF FileMatchesDatabase
  <2> QED BY <2>1, <2>2, <2>3, <2>4, <2>9 DEF RecorderInv
<1> QED BY <1>1, <1>2, <1>3
        DEF ReplayNext, BeginReplay, ReplayEvent, EndPass, PublishReport, recorder, replayVars

\* The text file and the database tell the same session, but for what a
\* recorder has in its hands: no message is lost between them, and none is in
\* the file alone, whatever is doubled, late or replayed meanwhile.
THEOREM SessionIsRecordedTwice == ReplaySpec => []FileMatchesDatabase
<1>1. ReplayInit => RecorderInv
  <2> SUFFICES ASSUME ReplayInit PROVE RecorderInv
    OBVIOUS
  <2>1. session = {} /\ lines = <<>> /\ recording = [r \in Recorders |-> 0]
    BY DEF ReplayInit
  <2> QED BY <2>1 DEF RecorderInv, FileMatchesDatabase
<1>2. RecorderInv => FileMatchesDatabase
  BY DEF RecorderInv
<1> QED BY <1>1, <1>2, RecorderStep, PTL DEF ReplaySpec

-----------------------------------------------------------------------------
(* The replayed session. *)

\* The profits of the events, and what they sum up to after the first k.
Profits(events) == [i \in 1 .. Len(events) |-> Pnl[events[i]]]
After(events, k) == Total(Profits(events), k)

\* The sum of the definition is the total of the profits.
LEMMA SumIsTotal ==
  ASSUME NEW events \in Seq(Events)
  PROVE  SumOf(events) = After(events, Len(events))
<1> DEFINE n == Len(events)
<1>0. n \in Nat
  BY LenProperties
<1>1. \E f : f = [i \in 0 .. Len(events) |-> IF i = 0 THEN 0 ELSE f[i - 1] + Pnl[events[i]]]
  <2>1. PICK f : Sums(Profits(events), n, f)
    BY <1>0, SumsExist
  <2>2. f = [i \in 0 .. n |-> IF i = 0 THEN 0 ELSE f[i - 1] + Profits(events)[i]]
    BY <2>1, Zenon DEF Sums
  <2>3. \A i \in 0 .. n : i # 0 => Profits(events)[i] = Pnl[events[i]]
    BY <1>0 DEF Profits
  <2>4. f = [i \in 0 .. n |-> IF i = 0 THEN 0 ELSE f[i - 1] + Pnl[events[i]]]
    BY <2>2, <2>3
  <2> QED BY <2>4
<1> DEFINE sum[i \in 0 .. Len(events)] == IF i = 0 THEN 0 ELSE sum[i - 1] + Pnl[events[i]]
<1>2. sum = [i \in 0 .. Len(events) |-> IF i = 0 THEN 0 ELSE sum[i - 1] + Pnl[events[i]]]
  BY <1>1, Zenon
<1>3. SumOf(events) = sum[Len(events)]
  BY DEF SumOf
<1> HIDE DEF sum
<1>4. \A i \in 0 .. n : i # 0 => Profits(events)[i] = Pnl[events[i]]
  BY <1>0 DEF Profits
<1>5. sum = [i \in 0 .. n |-> IF i = 0 THEN 0 ELSE sum[i - 1] + Profits(events)[i]]
  BY <1>2, <1>4
<1>6. Sums(Profits(events), n, sum)
  BY <1>5, Zenon DEF Sums
<1> QED BY <1>0, <1>3, <1>6, TotalIs DEF After

\* Profits are integers, and so are their sums.
LEMMA AfterType ==
  ASSUME NEW events \in Seq(Events)
  PROVE  /\ Len(events) \in Nat
         /\ \A i \in 1 .. Len(events) : Profits(events)[i] \in Int /\ Profits(events)[i] = Pnl[events[i]]
         /\ \A k \in 0 .. Len(events) : After(events, k) \in Int
<1>1. Len(events) \in Nat /\ \A i \in 1 .. Len(events) : events[i] \in Events
  BY LenProperties, ElementOfSeq
<1>2. \A i \in 1 .. Len(events) : Profits(events)[i] = Pnl[events[i]] /\ Pnl[events[i]] \in Int
  BY <1>1, ReplayAssumption DEF Profits
<1>3. ASSUME NEW k \in 0 .. Len(events) PROVE After(events, k) \in Int
  <2>1. k \in Nat /\ \A i \in 1 .. k : i \in 1 .. Len(events)
    BY <1>1
  <2>2. \A i \in 1 .. k : Profits(events)[i] \in Int
    BY <1>2, <2>1
  <2> QED BY <2>1, <2>2, TotalType DEF After
<1> QED BY <1>1, <1>2, <1>3

\* A stretch of the session earns the difference of the sums at its ends.
LEMMA StretchEarns ==
  ASSUME NEW events \in Seq(Events), NEW i \in 0 .. Len(events), NEW j \in 0 .. Len(events)
  PROVE  SumOf(SubSeq(events, i + 1, j)) =
           IF i <= j THEN After(events, j) - After(events, i) ELSE 0
<1> DEFINE part == SubSeq(events, i + 1, j)
<1>1. Len(events) \in Nat /\ i \in Nat /\ j \in Nat
  BY AfterType
<1>2. \A k \in i + 1 .. j : events[k] \in Events
  <2>1. \A k \in i + 1 .. j : k \in 1 .. Len(events)
    BY <1>1
  <2> QED BY <2>1, ElementOfSeq
<1>3. /\ part \in Seq(Events) /\ Len(part) = IF i + 1 <= j THEN j - (i + 1) + 1 ELSE 0
      /\ \A k \in 1 .. j - (i + 1) + 1 : part[k] = events[i + 1 + k - 1]
  <2>1. i + 1 \in Int /\ j \in Int
    BY <1>1
  <2> QED BY <1>2, <2>1, SubSeqProperties
<1> HIDE DEF part
<1>4. CASE i <= j
  <2> DEFINE m == j - i
  <2>1. m \in Nat /\ Len(part) = m /\ i + m = j
    BY <1>1, <1>3, <1>4
  <2>2. \A k \in 1 .. m : part[k] = events[i + k] /\ i + k \in 1 .. Len(events) /\ k \in 1 .. Len(part)
    <3>1. \A k \in 1 .. m : k \in 1 .. j - (i + 1) + 1 /\ i + 1 + k - 1 = i + k /\ i + k \in 1 .. Len(events)
      BY <1>1, <1>4
    <3> QED BY <1>3, <2>1, <3>1
  <2>3. Follows(Profits(events), Profits(part), i, m)
    <3>1. \A k \in 1 .. m : Profits(part)[k] = Pnl[part[k]] /\ Profits(events)[i + k] = Pnl[events[i + k]]
      BY <1>3, <2>2, AfterType
    <3> QED BY <2>2, <3>1 DEF Follows
  <2>4. \A k \in 1 .. i + m : Profits(events)[k] \in Int
    <3>1. \A k \in 1 .. i + m : k \in 1 .. Len(events)
      BY <1>1, <2>1
    <3> QED BY <3>1, AfterType
  <2> HIDE DEF m
  <2>5. Total(Profits(events), i + m) = Total(Profits(events), i) + Total(Profits(part), m)
        /\ Total(Profits(events), i) \in Int /\ Total(Profits(part), m) \in Int
    BY <1>1, <2>1, <2>3, <2>4, TotalSplit
  <2>6. SumOf(part) = Total(Profits(part), m)
    BY <1>3, <2>1, SumIsTotal DEF After
  <2>7. SumOf(part) = After(events, j) - After(events, i)
    BY <2>1, <2>5, <2>6 DEF After
  <2> QED BY <1>4, <2>7 DEF part
<1>5. CASE ~(i <= j)
  <2>1. Len(part) = 0
    BY <1>1, <1>3, <1>5
  <2>2. SumOf(part) = Total(Profits(part), 0)
    BY <1>3, <2>1, SumIsTotal DEF After
  <2>3. 0 \in Nat /\ Total(Profits(part), 0) = 0
    BY TotalUnfolds
  <2> QED BY <1>5, <2>2, <2>3 DEF part
<1> QED BY <1>4, <1>5

Contexts == [current : Int, peak : Int, drawdown : Int, trades : Nat]

\* The highest point of the first k events, and the deepest fall in them.
PeakIs(events, k, p) ==
  /\ \E i \in 0 .. k : p = After(events, i)
  /\ \A i \in 0 .. k : After(events, i) <= p
FallIs(events, k, d) ==
  /\ \E i, j \in 0 .. k : i <= j /\ d = After(events, i) - After(events, j)
  /\ \A i, j \in 0 .. k : i <= j => After(events, i) - After(events, j) <= d

\* The context is what the first k events make of it.
Tallied(c, events, k) ==
  /\ c \in Contexts
  /\ c.current = After(events, k) /\ c.trades = k
  /\ PeakIs(events, k, c.peak)
  /\ FallIs(events, k, c.drawdown)

\* A pass begins with nothing.
LEMMA FreshIsTallied ==
  ASSUME NEW events \in Seq(Events)
  PROVE  Tallied(FreshContext, events, 0)
<1>1. After(events, 0) = 0
  <2>1. 0 \in Nat
    OBVIOUS
  <2> QED BY <2>1, TotalUnfolds DEF After
<1>2. \A i \in 0 .. 0 : i = 0
  OBVIOUS
<1>3. PeakIs(events, 0, 0) /\ FallIs(events, 0, 0)
  BY <1>1, <1>2 DEF PeakIs, FallIs
<1> QED BY <1>1, <1>3 DEF Tallied, FreshContext, Contexts

\* record_trade_closed adds one event.
LEMMA TradeIsTallied ==
  ASSUME NEW events \in Seq(Events), NEW k \in 0 .. Len(events) - 1, NEW c, Tallied(c, events, k)
  PROVE  Tallied(AfterTrade(c, Pnl[events[k + 1]]), events, k + 1)
<1> DEFINE now == c.current + Pnl[events[k + 1]]
           peak == Larger(c.peak, now)
           fall == Larger(c.drawdown, peak - now)
           e == AfterTrade(c, Pnl[events[k + 1]])
<1>1. /\ Len(events) \in Nat /\ k \in Nat /\ k + 1 \in 1 .. Len(events) /\ k \in 0 .. Len(events)
      /\ k + 1 \in 0 .. Len(events)
  BY AfterType
<1>2. c.current \in Int /\ c.peak \in Int /\ c.drawdown \in Int /\ c.trades = k
  BY DEF Tallied, Contexts
<1>3. now = After(events, k + 1) /\ now \in Int
  <2>1. Profits(events)[k + 1] = Pnl[events[k + 1]]
    BY <1>1, AfterType
  <2>2. After(events, k + 1) = After(events, k) + Profits(events)[k + 1]
    BY <1>1, TotalUnfolds DEF After
  <2>3. c.current = After(events, k)
    BY DEF Tallied
  <2>4. After(events, k + 1) \in Int
    BY <1>1, AfterType
  <2> QED BY <2>1, <2>2, <2>3, <2>4
<1>4. e = [current |-> now, peak |-> peak, drawdown |-> fall, trades |-> k + 1]
  BY <1>2 DEF AfterTrade
<1> HIDE DEF now
<1>5. /\ peak \in Int /\ peak >= now /\ peak >= c.peak /\ (peak = now \/ peak = c.peak)
  BY <1>2, <1>3 DEF Larger
<1> HIDE DEF peak
<1>6. /\ fall \in Int /\ fall >= c.drawdown /\ fall >= peak - now
      /\ (fall = c.drawdown \/ fall = peak - now)
  BY <1>2, <1>3, <1>5 DEF Larger
<1> HIDE DEF fall
<1>7. \A i \in 0 .. k + 1 : After(events, i) \in Int /\ (i \in 0 .. k \/ i = k + 1)
  <2>1. \A i \in 0 .. k + 1 : i \in 0 .. Len(events) /\ (i \in 0 .. k \/ i = k + 1)
    BY <1>1
  <2> QED BY <2>1, AfterType
<1>8. 0 .. k \subseteq 0 .. k + 1 /\ k + 1 \in 0 .. k + 1
  BY <1>1
<1>9. PeakIs(events, k, c.peak) /\ FallIs(events, k, c.drawdown)
  BY DEF Tallied
<1>10. PeakIs(events, k + 1, peak)
  <2>1. \E i \in 0 .. k + 1 : peak = After(events, i)
    BY <1>3, <1>5, <1>8, <1>9 DEF PeakIs
  <2>2. ASSUME NEW i \in 0 .. k + 1 PROVE After(events, i) <= peak
    <3>1. CASE i \in 0 .. k
      <4>1. After(events, i) <= c.peak
        BY <1>9, <3>1 DEF PeakIs
      <4> QED BY <1>2, <1>5, <1>7, <4>1
    <3>2. CASE i = k + 1
      BY <1>3, <1>5, <3>2
    <3> QED BY <1>7, <3>1, <3>2
  <2> QED BY <2>1, <2>2 DEF PeakIs
<1>11. FallIs(events, k + 1, fall)
  <2>1. \E i, j \in 0 .. k + 1 : i <= j /\ fall = After(events, i) - After(events, j)
    <3>1. CASE fall = c.drawdown
      BY <1>8, <1>9, <3>1 DEF FallIs
    <3>2. CASE fall = peak - now
      <4>1. PICK i \in 0 .. k + 1 : peak = After(events, i)
        BY <1>10 DEF PeakIs
      <4>2. i <= k + 1
        BY <1>1
      <4> QED BY <1>3, <1>8, <3>2, <4>1, <4>2
    <3> QED BY <1>6, <3>1, <3>2
  <2>2. ASSUME NEW i \in 0 .. k + 1, NEW j \in 0 .. k + 1, i <= j
        PROVE  After(events, i) - After(events, j) <= fall
    <3>1. CASE j \in 0 .. k
      <4>1. i \in 0 .. k
        BY <1>1, <2>2, <3>1
      <4>2. After(events, i) - After(events, j) <= c.drawdown
        BY <1>9, <2>2, <3>1, <4>1 DEF FallIs
      <4> QED BY <1>2, <1>6, <1>7, <4>2
    <3>2. CASE j = k + 1
      <4>1. After(events, i) <= peak
        BY <1>10 DEF PeakIs
      <4> QED BY <1>3, <1>5, <1>6, <1>7, <3>2, <4>1
    <3> QED BY <1>7, <3>1, <3>2
  <2> QED BY <2>1, <2>2 DEF FallIs
<1>12. /\ e.current = now /\ e.peak = peak /\ e.drawdown = fall /\ e.trades = k + 1 /\ e \in Contexts
  BY <1>1, <1>3, <1>4, <1>5, <1>6 DEF Contexts
<1> HIDE DEF e
<1>13. Tallied(e, events, k + 1)
  BY <1>3, <1>10, <1>11, <1>12 DEF Tallied
<1> QED BY <1>13 DEF e

\* Two passes over the same events end alike.
LEMMA TallyIsUnique ==
  ASSUME NEW events \in Seq(Events), NEW k \in 0 .. Len(events),
         NEW c, NEW d, Tallied(c, events, k), Tallied(d, events, k)
  PROVE  c = d
<1>0. \A i \in 0 .. k : After(events, i) \in Int
  <2>1. \A i \in 0 .. k : i \in 0 .. Len(events)
    BY AfterType
  <2> QED BY <2>1, AfterType
<1>1. c \in Contexts /\ d \in Contexts /\ c.current = d.current /\ c.trades = d.trades
  BY DEF Tallied
<1>2. c.peak = d.peak
  <2>1. PeakIs(events, k, c.peak) /\ PeakIs(events, k, d.peak)
    BY DEF Tallied
  <2>2. c.peak <= d.peak /\ d.peak <= c.peak /\ c.peak \in Int /\ d.peak \in Int
    BY <1>0, <2>1 DEF PeakIs
  <2> QED BY <2>2
<1>3. c.drawdown = d.drawdown
  <2>1. FallIs(events, k, c.drawdown) /\ FallIs(events, k, d.drawdown)
    BY DEF Tallied
  <2>2. c.drawdown <= d.drawdown /\ d.drawdown <= c.drawdown
    BY <2>1 DEF FallIs
  <2>3. c.drawdown \in Int /\ d.drawdown \in Int
    BY <1>1 DEF Contexts
  <2> QED BY <2>2, <2>3
<1> QED BY <1>1, <1>2, <1>3 DEF Contexts

\* The context of a whole pass has the profit and the drawdown of the session.
LEMMA TallyIsExact ==
  ASSUME NEW events \in Seq(Events), NEW c, Tallied(c, events, Len(events))
  PROVE  c.current = SumOf(events) /\ c.drawdown = DrawdownOf(events) /\ c.trades = Len(events)
<1> DEFINE n == Len(events)
           Lost(i, j) == SumOf(SubSeq(events, i + 1, j))
<1>1. n \in Nat /\ \A i \in 0 .. n : After(events, i) \in Int
  BY AfterType
<1>2. \A i, j \in 0 .. n : Lost(i, j) = IF i <= j THEN After(events, j) - After(events, i) ELSE 0
  BY StretchEarns
<1>3. \A i, j \in 0 .. n : Lost(i, j) \in Int
  BY <1>1, <1>2
<1>4. FallIs(events, n, c.drawdown) /\ c.drawdown \in Int
  BY DEF Tallied, Contexts
<1> HIDE DEF Lost
<1>5. \A i, j \in 0 .. n : c.drawdown >= (-1) * Lost(i, j)
  <2> SUFFICES ASSUME NEW i \in 0 .. n, NEW j \in 0 .. n PROVE c.drawdown >= (-1) * Lost(i, j)
    OBVIOUS
  <2>1. CASE i <= j
    <3>1. After(events, i) - After(events, j) <= c.drawdown /\ Lost(i, j) = After(events, j) - After(events, i)
      BY <1>2, <1>4, <2>1 DEF FallIs
    <3> QED BY <1>1, <1>4, <3>1
  <2>2. CASE ~(i <= j)
    <3>1. After(events, i) - After(events, i) <= c.drawdown /\ Lost(i, j) = 0
      BY <1>1, <1>2, <1>4, <2>2 DEF FallIs
    <3> QED BY <1>1, <1>4, <3>1
  <2> QED BY <2>1, <2>2
<1>6. \E i, j \in 0 .. n : c.drawdown = Lost(i, j) * (-1)
  <2>1. PICK i \in 0 .. n, j \in 0 .. n : i <= j /\ c.drawdown = After(events, i) - After(events, j)
    BY <1>4 DEF FallIs
  <2>2. Lost(i, j) = After(events, j) - After(events, i)
    BY <1>2, <2>1
  <2>3. c.drawdown = Lost(i, j) * (-1)
    BY <1>1, <2>1, <2>2
  <2> QED BY <2>3
<1> DEFINE D == {Lost(i, j) * (-1) : i, j \in 0 .. n}
           Is(d) == \A i, j \in 0 .. n : d >= (-1) * Lost(i, j)
<1>7. c.drawdown \in D /\ Is(c.drawdown)
  BY <1>5, <1>6
<1>8. ASSUME NEW d \in D, Is(d) PROVE d = c.drawdown
  <2>1. PICK i \in 0 .. n, j \in 0 .. n : d = Lost(i, j) * (-1)
    OBVIOUS
  <2>2. PICK k \in 0 .. n, l \in 0 .. n : c.drawdown = Lost(k, l) * (-1)
    BY <1>6
  <2>3. Lost(i, j) \in Int /\ Lost(k, l) \in Int
    BY <1>3
  <2>4. c.drawdown >= (-1) * Lost(i, j) /\ d >= (-1) * Lost(k, l)
    BY <1>5, <1>8
  <2> QED BY <2>1, <2>2, <2>3, <2>4
<1>9. (CHOOSE d \in D : Is(d)) = c.drawdown
  <2> HIDE DEF D, Is
  <2>1. (CHOOSE d \in D : Is(d)) \in D /\ Is(CHOOSE d \in D : Is(d))
    BY <1>7, Zenon
  <2> QED BY <1>8, <2>1
<1>10. DrawdownOf(events) = CHOOSE d \in D : Is(d)
  BY DEF DrawdownOf, Lost
<1>11. c.current = SumOf(events) /\ c.trades = n
  BY SumIsTotal DEF Tallied
<1> QED BY <1>9, <1>10, <1>11

\* A finite session sorted by time has every event in one place.
LEMMA SortedIsSequence ==
  ASSUME NEW S \in SUBSET Events, IsFiniteSet(S)
  PROVE  Sorted(S) \in Seq(S) /\ Len(Sorted(S)) = Cardinality(S) /\ Sorted(S) = ByTime(S)
<1> DEFINE R == {x \in Events \X Events : Earlier(x[1], x[2])}
           n == Cardinality(S)
<1>1. n \in Nat
  BY FS_CardinalityType
<1>2. \A a, b \in S : <<a, b>> \in R <=> Earlier(a, b)
  OBVIOUS
<1>3. \A a \in S : a \in Nat /\ Stamp[a] \in Nat
  BY ReplayAssumption
<1> HIDE DEF R
<1>4. TotalOrder(R, S)
  <2>1. \A x \in S : ~Earlier(x, x)
    BY <1>3 DEF Earlier
  <2>2. \A x, y, z \in S : Earlier(x, y) /\ Earlier(y, z) => Earlier(x, z)
    BY <1>3 DEF Earlier
  <2>3. \A x, y \in S : x # y => Earlier(x, y) \/ Earlier(y, x)
    BY <1>3 DEF Earlier
  <2> QED BY <1>2, <2>1, <2>2, <2>3 DEF TotalOrder
<1>5. \A e \in S : Rank(R, S, e) = Cardinality({f \in S : Earlier(f, e)})
  <2> SUFFICES ASSUME NEW e \in S PROVE Rank(R, S, e) = Cardinality({f \in S : Earlier(f, e)})
    OBVIOUS
  <2>1. Before(R, S, e) = {f \in S : Earlier(f, e)}
    BY <1>2 DEF Before
  <2> QED BY <2>1 DEF Rank
<1> DEFINE At(i) == CHOOSE e \in S : Cardinality({f \in S : Earlier(f, e)}) = i - 1
<1>6. ASSUME NEW i \in 1 .. n PROVE At(i) \in S
  <2>1. i - 1 \in 0 .. n - 1
    BY <1>1
  <2>2. \E e \in S : Rank(R, S, e) = i - 1
    BY <1>4, <2>1, RankIsExact
  <2>3. \E e \in S : Cardinality({f \in S : Earlier(f, e)}) = i - 1
    BY <1>5, <2>2
  <2> QED BY <2>3, Zenon
<1>7. Sorted(S) = [i \in 1 .. n |-> At(i)]
  BY DEF Sorted
<1>8. Sorted(S) = ByTime(S)
  BY Zenon DEF Sorted, ByTime, Earlier
<1> HIDE DEF At, n
<1>9. Sorted(S) \in [1 .. n -> S]
  BY <1>6, <1>7
<1>10. Sorted(S) \in Seq(S) /\ Len(Sorted(S)) = n
  BY <1>1, <1>9
<1> QED BY <1>8, <1>10 DEF n

\* What a request replays of it is a sequence of events too.
LEMMA SideIsSequence ==
  ASSUME NEW S, NEW events \in Seq(S), NEW mode
  PROVE  Side(mode, events) \in Seq(S)
<1> DEFINE half == Len(events) \div 2
<1>1. Len(events) \in Nat /\ half \in Nat /\ half <= Len(events)
  <2>1. Len(events) \in Nat
    BY LenProperties
  <2> QED BY <2>1
<1>2. \A i \in 1 .. Len(events) : events[i] \in S
  BY ElementOfSeq
<1>3. 1 .. half \subseteq 1 .. Len(events) /\ half + 1 .. Len(events) \subseteq 1 .. Len(events)
  BY <1>1
<1>4. SubSeq(events, 1, half) \in Seq(S)
  <2>1. \A i \in 1 .. half : events[i] \in S
    BY <1>2, <1>3
  <2>2. 1 \in Int /\ half \in Int
    BY <1>1
  <2> HIDE DEF half
  <2> QED BY <2>1, <2>2, SubSeqProperties
<1>5. SubSeq(events, half + 1, Len(events)) \in Seq(S)
  <2>1. \A i \in half + 1 .. Len(events) : events[i] \in S
    BY <1>2, <1>3
  <2>2. half + 1 \in Int /\ Len(events) \in Int
    BY <1>1
  <2> HIDE DEF half
  <2> QED BY <2>1, <2>2, SubSeqProperties
<1> QED BY <1>4, <1>5, Zenon DEF Side

\* The events that a replay for mode takes from the rows S.
Taken(mode, S) ==
  LET half == Cardinality(S) \div 2 IN
  CASE mode = "a_side" -> SubSeq(ByTime(S), 1, half)
    [] mode = "b_side" -> SubSeq(ByTime(S), half + 1, Cardinality(S))
    [] OTHER -> ByTime(S)

\* The halves of _run_replay are the halves of the session.
LEMMA SideIsTaken ==
  ASSUME NEW S \in SUBSET Events, IsFiniteSet(S), NEW mode
  PROVE  Side(mode, Sorted(S)) = Taken(mode, S) /\ Taken(mode, S) \in Seq(Events)
<1>1. Sorted(S) \in Seq(S) /\ Len(Sorted(S)) = Cardinality(S) /\ Sorted(S) = ByTime(S)
  BY SortedIsSequence
<1>2. Side(mode, Sorted(S)) = Taken(mode, S)
  BY <1>1, Zenon DEF Side, Taken
<1>3. Side(mode, Sorted(S)) \in Seq(S)
  BY <1>1, SideIsSequence
<1> QED BY <1>2, <1>3, SeqMonotonic

\* A replay that runs works on events of the session, has tallied the first
\* ones, and keeps the tally of the pass before it.
ReplayRuns ==
  /\ lockHeld \in Requests
  /\ \E S \in SUBSET session : S # {} /\ loaded = Taken(Mode[lockHeld], S)
  /\ loaded \in Seq(Events)
  /\ position \in 0 .. Len(loaded)
  /\ Tallied(context, loaded, position)
  /\ results = <<>> \/ \E c : results = <<c>> /\ Tallied(c, loaded, Len(loaded))

ReplayInv ==
  /\ session \subseteq Events /\ IsFiniteSet(session)
  /\ DOMAIN answers = Requests
  /\ lockHeld # "none" => ReplayRuns
  /\ ReplayIsExact

\* An answer is what events of the session give.
ExactFor(answer, mode) ==
  /\ answer.baseline = answer.candidate
  /\ \E S \in SUBSET answer.events :
       /\ S # {}
       /\ answer.baseline.current = SumOf(Taken(mode, S))
       /\ answer.baseline.drawdown = DrawdownOf(Taken(mode, S))
       /\ answer.baseline.trades = Len(Taken(mode, S))

\* The property asks this of every answer.
LEMMA ExactAnswers ==
  ReplayIsExact <=> \A q \in Requests : answers[q].status = "completed" => ExactFor(answers[q], Mode[q])
BY Zenon DEF ReplayIsExact, ExactFor, Taken

\* Recording goes on behind a replay.
LEMMA RecordKeepsReplay ==
  ASSUME ReplayInv, session' \subseteq Events, IsFiniteSet(session'), session \subseteq session',
         UNCHANGED <<lockHeld, replay, answers>>
  PROVE  ReplayInv'
<1>1. ReplayRuns => ReplayRuns'
  BY DEF ReplayRuns, replay
<1>2. ReplayIsExact'
  BY DEF ReplayInv, ReplayIsExact
<1> QED BY <1>1, <1>2 DEF ReplayInv

\* A request that gets the lock.
LEMMA BeginKeepsReplay ==
  ASSUME ReplayInv, NEW q \in Requests, BeginReplay(q)
  PROVE  ReplayInv'
<1>1. session' = session
  BY DEF BeginReplay, recorder
<1>2. CASE session = {}
  <2>1. answers' = [answers EXCEPT ![q] = [status |-> "failed"]] /\ UNCHANGED <<lockHeld, replay>>
    BY <1>2 DEF BeginReplay
  <2>2. /\ DOMAIN answers' = Requests /\ answers'[q].status = "failed"
        /\ \A p \in Requests : p # q => answers'[p] = answers[p]
    BY <2>1 DEF ReplayInv
  <2>3. ReplayIsExact'
    <3>1. \A p \in Requests : answers'[p].status = "completed" => ExactFor(answers'[p], Mode[p])
      BY <2>2, ExactAnswers DEF ReplayInv
    <3> QED BY <3>1, Zenon DEF ReplayIsExact, ExactFor, Taken
  <2>4. ReplayRuns => ReplayRuns'
    BY <1>1, <2>1 DEF ReplayRuns, replay
  <2> QED BY <1>1, <2>1, <2>2, <2>3, <2>4 DEF ReplayInv
<1>3. CASE session # {}
  <2>1. /\ lockHeld' = q /\ loaded' = Side(Mode[q], Sorted(session))
        /\ position' = 0 /\ context' = FreshContext /\ results' = <<>> /\ answers' = answers
    BY <1>3 DEF BeginReplay
  <2>2. loaded' = Taken(Mode[q], session) /\ loaded' \in Seq(Events)
    BY <2>1, SideIsTaken DEF ReplayInv
  <2>3. position' \in 0 .. Len(loaded') /\ Tallied(context', loaded', position')
    <3>1. Len(loaded') \in Nat /\ Tallied(FreshContext, loaded', 0)
      BY <2>2, AfterType, FreshIsTallied
    <3> QED BY <2>1, <3>1
  <2>4. \E S \in SUBSET session' : S # {} /\ loaded' = Taken(Mode[lockHeld'], S)
    BY <1>1, <1>3, <2>1, <2>2
  <2>5. ReplayRuns'
    BY <2>1, <2>2, <2>3, <2>4 DEF ReplayRuns
  <2>6. ReplayIsExact'
    BY <2>1 DEF ReplayInv, ReplayIsExact
  <2> QED BY <1>1, <2>1, <2>5, <2>6 DEF ReplayInv
<1> QED BY <1>2, <1>3

\* One event more, or the second pass.
LEMMA PassKeepsReplay ==
  ASSUME ReplayInv, ReplayEvent \/ EndPass
  PROVE  ReplayInv'
<1>1. /\ UNCHANGED <<session, lockHeld, loaded, answers>> /\ lockHeld # "none"
  BY DEF ReplayEvent, EndPass, recorder
<1>2. ReplayRuns /\ Len(loaded) \in Nat
  <2>1. ReplayRuns
    BY <1>1 DEF ReplayInv
  <2> QED BY <2>1, AfterType DEF ReplayRuns
<1>3. /\ position' \in 0 .. Len(loaded) /\ Tallied(context', loaded, position')
      /\ results' = <<>> \/ \E c : results' = <<c>> /\ Tallied(c, loaded, Len(loaded))
  <2>1. CASE ReplayEvent
    <3>1. /\ position < Len(loaded) /\ position' = position + 1 /\ results' = results
          /\ context' = AfterTrade(context, Pnl[loaded[position + 1]])
      BY <2>1 DEF ReplayEvent
    <3>2. position \in 0 .. Len(loaded) - 1 /\ position + 1 \in 0 .. Len(loaded)
      BY <1>2, <3>1 DEF ReplayRuns
    <3>3. Tallied(context', loaded, position + 1)
      BY <1>2, <3>1, <3>2, TradeIsTallied DEF ReplayRuns
    <3> QED BY <1>2, <3>1, <3>2, <3>3 DEF ReplayRuns
  <2>2. CASE EndPass
    <3>1. /\ position = Len(loaded) /\ position' = 0 /\ results' = <<context>>
          /\ context' = FreshContext
      BY <2>2 DEF EndPass
    <3>2. Tallied(FreshContext, loaded, 0) /\ Tallied(context, loaded, Len(loaded))
      BY <1>2, <3>1, FreshIsTallied DEF ReplayRuns
    <3> QED BY <1>2, <3>1, <3>2
  <2> QED BY <2>1, <2>2
<1>4. ReplayRuns'
  BY <1>1, <1>2, <1>3 DEF ReplayRuns
<1>5. ReplayIsExact'
  BY <1>1 DEF ReplayInv, ReplayIsExact
<1> QED BY <1>1, <1>4, <1>5 DEF ReplayInv

\* The report.
LEMMA ReportIsExact ==
  ASSUME ReplayInv, PublishReport
  PROVE  ReplayInv'
<1> DEFINE q == lockHeld
           base == IF results = <<>> THEN context ELSE results[1]
           report == ReportOf(base, context)
<1>1. /\ q # "none" /\ position = Len(loaded) /\ lockHeld' = "none" /\ session' = session
      /\ answers' = [answers EXCEPT ![q] = report]
  BY DEF PublishReport, recorder
<1>2. ReplayRuns
  BY <1>1 DEF ReplayInv
<1>3. /\ DOMAIN answers' = Requests /\ answers'[q] = report
      /\ \A p \in Requests : p # q => answers'[p] = answers[p]
  BY <1>1, <1>2 DEF ReplayInv, ReplayRuns
<1>4. Tallied(context, loaded, Len(loaded)) /\ Tallied(base, loaded, Len(loaded))
  BY <1>1, <1>2 DEF ReplayRuns
<1>5. /\ base = context /\ base.current = SumOf(loaded) /\ base.drawdown = DrawdownOf(loaded)
      /\ base.trades = Len(loaded)
  <2> HIDE DEF base
  <2>1. loaded \in Seq(Events) /\ Len(loaded) \in 0 .. Len(loaded)
    BY <1>2, AfterType DEF ReplayRuns
  <2>2. base = context
    BY <1>4, <2>1, TallyIsUnique
  <2> QED BY <1>4, <2>1, <2>2, TallyIsExact
<1>6. PICK S \in SUBSET session : S # {} /\ loaded = Taken(Mode[q], S)
  BY <1>2 DEF ReplayRuns
<1> HIDE DEF base
<1>7. report.events = session /\ report.baseline = base /\ report.candidate = context
  BY DEF ReportOf
<1> HIDE DEF report, q
<1>8. ExactFor(report, Mode[q])
  BY <1>5, <1>6, <1>7 DEF ExactFor
<1>9. \A p \in Requests : answers'[p].status = "completed" => ExactFor(answers'[p], Mode[p])
  BY <1>3, <1>8, ExactAnswers DEF ReplayInv
<1>10. ReplayIsExact'
  BY <1>9, Zenon DEF ReplayIsExact, ExactFor, Taken
<1> QED BY <1>1, <1>3, <1>10 DEF ReplayInv

\* A recorded session is the same in both places, and every report gives the
\* profit, the drawdown and the number of trades of events of the session in
\* the order of time, whatever is recorded, doubled or late while it is made.
THEOREM ReplayIsDeterministic == ReplaySpec => []ReplayIsFaithful
<1>1. ReplayInit => ReplayInv
  <2> SUFFICES ASSUME ReplayInit PROVE ReplayInv
    OBVIOUS
  <2>1. session = {} /\ lockHeld = "none" /\ answers = [q \in Requests |-> NoAnswer]
    BY DEF ReplayInit
  <2>2. IsFiniteSet(session)
    BY <2>1, FS_EmptySet
  <2>3. \A q \in Requests : answers[q].status = "none"
    BY <2>1 DEF NoAnswer
  <2> QED BY <2>1, <2>2, <2>3 DEF ReplayInv, ReplayIsExact
<1>2. ReplayInv /\ [ReplayNext]_replayVars => ReplayInv'
  <2> SUFFICES ASSUME ReplayInv, [ReplayNext]_replayVars PROVE ReplayInv'
    OBVIOUS
  <2>1. CASE UNCHANGED replayVars
    <3>1. UNCHANGED <<session, lockHeld, replay, answers>>
      BY <2>1 DEF replayVars, recorder
    <3> QED BY <3>1, RecordKeepsReplay DEF ReplayInv
  <2>2. ASSUME NEW r \in Recorders, WriteLine(r) PROVE ReplayInv'
    <3>1. UNCHANGED <<session, lockHeld, replay, answers>>
      BY <2>2 DEF WriteLine
    <3> QED BY <3>1, RecordKeepsReplay DEF ReplayInv
  <2>3. ASSUME NEW r \in Recorders, NEW e \in Events, RecordEvent(r, e) PROVE ReplayInv'
    <3>1. session' = session \cup {e} /\ UNCHANGED <<lockHeld, replay, answers>>
      BY <2>3 DEF RecordEvent, Inserted
    <3>2. IsFiniteSet(session \cup {e})
      BY FS_AddElement DEF ReplayInv
    <3>3. session \cup {e} \subseteq Events /\ session \subseteq session \cup {e}
      BY DEF ReplayInv
    <3>4. session' \subseteq Events /\ IsFiniteSet(session') /\ session \subseteq session'
      BY <3>1, <3>2, <3>3
    <3> QED BY <3>1, <3>4, RecordKeepsReplay
  <2>4. ASSUME NEW q \in Requests, BeginReplay(q) PROVE ReplayInv'
    BY <2>4, BeginKeepsReplay
  <2> QED BY <2>1, <2>2, <2>3, <2>4, PassKeepsReplay, ReportIsExact DEF ReplayNext
<1>3. ReplayInv => ReplayIsExact
  BY DEF ReplayInv
<1>4. ReplayIsExact /\ FileMatchesDatabase => ReplayIsFaithful
  BY DEF ReplayIsFaithful
<1> QED BY <1>1, <1>2, <1>3, <1>4, SessionIsRecordedTwice, PTL DEF ReplaySpec

-----------------------------------------------------------------------------
(* The tick warehouse. *)

TickOfFile == [id : Nat, ts : Int]
RecordOfFile == [id : Nat, delta : Nat]
BarLine == [start : Int, volume : Nat]

\* What a reader of the file will find once the buffer is written.
Stream == records \o buffered

WarehouseTypes ==
  /\ time \in Nat /\ ticks \in Nat /\ opens \in Nat
  /\ header \in Int /\ start \in Int /\ traded \in Nat /\ writer.last \in Int
  /\ records \in Seq(RecordOfFile) /\ buffered \in Seq(RecordOfFile)
  /\ written \in Seq(TickOfFile)
  /\ running \in BarLine /\ bars \in Seq(BarLine) /\ barLines \in Seq(BarLine)
  /\ batch \in Seq(Nat) /\ rows \in Seq(Nat) /\ inserting \subseteq Seq(Nat)

\* The stream holds the ticks written, in their order.
StreamIsWritten ==
  /\ Len(Stream) = Len(written)
  /\ \A i \in 1 .. Len(written) : Stream[i].id = written[i].id

\* The first writer times every record from the one before, and the first from the start.
TimeBefore(i) == IF i = 1 THEN start ELSE written[i - 1].ts

DeltasAreKept ==
  opens <= 1 => \A i \in 1 .. Len(written) : Stream[i].delta \in Deltas(written[i].ts, TimeBefore(i))

FirstWriter ==
  /\ opens = 0 => ~isOpen /\ written = <<>> /\ header = -1
  /\ ~isOpen => ~writer.on
  /\ isOpen /\ opens <= 1 =>
       IF writer.on THEN written # <<>> /\ writer.last = written[Len(written)].ts
       ELSE written = <<>> /\ header = -1
  /\ opens <= 1 /\ written # <<>> => header \in Nearest(start)

\* A closed warehouse has written all, and a close leaves the manifest true.
ClosedIsEmpty == ~isOpen => buffered = <<>>
CleanIsClosed == clean => ~isOpen /\ manifest = Len(records)

FileInv == StreamIsWritten /\ DeltasAreKept /\ FirstWriter /\ ClosedIsEmpty /\ CleanIsClosed

\* The time of a record is the time before it and its delta.
LEMMA ReadTimeUnfolds ==
  ASSUME header \in Int, records \in Seq(RecordOfFile)
  PROVE  /\ ReadTime(0) = header
         /\ \A k \in 1 .. Len(records) : ReadTime(k) = ReadTime(k - 1) + records[k].delta
         /\ \A k \in 0 .. Len(records) : ReadTime(k) \in Int
<1> DEFINE n == Len(records)
           a == [i \in 1 .. n |-> records[i].delta]
           IsTime(g) == g = [k \in 0 .. Len(records) |->
                               IF k = 0 THEN header ELSE g[k - 1] + records[k].delta]
<1>0. n \in Nat /\ \A i \in 1 .. n : a[i] = records[i].delta /\ a[i] \in Int
  <2>1. \A i \in 1 .. n : records[i] \in RecordOfFile
    OBVIOUS
  <2>2. n \in Nat
    OBVIOUS
  <2> QED BY <2>1, <2>2 DEF RecordOfFile
<1>1. \E g : IsTime(g)
  <2> HIDE DEF a
  <2>1. PICK f : Sums(a, n, f)
    BY <1>0, SumsExist
  <2>2. \A k \in 0 .. n : f[k] \in Int
    BY <1>0, <2>1, SumsType
  <2>3. f[0] = 0 /\ \A i \in 0 .. n - 1 : f[i + 1] = f[i] + a[i + 1]
    BY <1>0, <2>1, SumsUnfold
  <2> DEFINE g == [k \in 0 .. n |-> header + f[k]]
  <2>4. ASSUME NEW k \in 0 .. n
        PROVE  g[k] = IF k = 0 THEN header ELSE g[k - 1] + records[k].delta
    <3>1. CASE k = 0
      BY <2>3, <3>1
    <3>2. CASE k # 0
      <4>1. k \in 1 .. n /\ k - 1 \in 0 .. n - 1 /\ k - 1 \in 0 .. n /\ (k - 1) + 1 = k
        BY <1>0, <3>2
      <4>2. f[k] = f[k - 1] + a[k]
        BY <2>3, <4>1
      <4>3. g[k] = header + f[k] /\ g[k - 1] = header + f[k - 1]
        BY <4>1
      <4>4. f[k - 1] \in Int /\ a[k] \in Int /\ a[k] = records[k].delta
        BY <1>0, <2>2, <4>1
      <4> HIDE DEF g, n
      <4> QED BY <3>2, <4>2, <4>3, <4>4
    <3> QED BY <3>1, <3>2
  <2>5. g = [k \in 0 .. n |-> g[k]]
    OBVIOUS
  <2> HIDE DEF g
  <2>6. g = [k \in 0 .. n |-> IF k = 0 THEN header ELSE g[k - 1] + records[k].delta]
    BY <2>4, <2>5
  <2> QED BY <2>6
<1> DEFINE t == CHOOSE g : IsTime(g)
<1>2. IsTime(t)
  BY <1>1, Zenon
<1>3. \A k : ReadTime(k) = t[k]
  BY Zenon DEF ReadTime
<1> HIDE DEF t
<1>4. t[0] = header /\ \A k \in 1 .. n : t[k] = t[k - 1] + records[k].delta
  <2>1. \A k \in 0 .. n : t[k] = IF k = 0 THEN header ELSE t[k - 1] + records[k].delta
    BY <1>2
  <2>2. 0 \in 0 .. n /\ \A k \in 1 .. n : k \in 0 .. n /\ k # 0
    BY <1>0
  <2> HIDE DEF n
  <2> QED BY <2>1, <2>2
<1> DEFINE G == {k \in 0 .. n : t[k] \in Int}
<1>5. 0 \in G
  BY <1>0, <1>4
<1>6. ASSUME NEW k \in 0 .. n - 1, k \in G PROVE k + 1 \in G
  <2>1. k + 1 \in 1 .. n /\ k + 1 \in 0 .. n /\ k + 1 - 1 = k
    BY <1>0
  <2>2. t[k + 1] = t[k] + records[k + 1].delta
    BY <1>4, <2>1
  <2>3. records[k + 1].delta \in Int
    BY <1>0, <2>1
  <2> QED BY <1>6, <2>1, <2>2, <2>3
<1> HIDE DEF G
<1>7. 0 .. n \subseteq G
  BY <1>0, <1>5, <1>6, UpTo
<1>8. \A k \in 0 .. n : t[k] \in Int
  BY <1>7 DEF G
<1> QED BY <1>3, <1>4, <1>8

\* What is on disk is the first part of the stream.
LEMMA DiskIsFirst ==
  ASSUME WarehouseTypes, StreamIsWritten
  PROVE  /\ Len(records) \in Nat /\ Len(records) <= Len(written) /\ Len(written) \in Nat
         /\ DOMAIN records = 1 .. Len(records) /\ DOMAIN written = 1 .. Len(written)
         /\ \A i \in 1 .. Len(records) : /\ i \in 1 .. Len(written) /\ Stream[i] = records[i]
                                         /\ records[i] \in RecordOfFile
         /\ \A i \in 1 .. Len(written) : written[i].ts \in Int
<1>1. Len(Stream) = Len(records) + Len(buffered) /\ Len(buffered) \in Nat /\ Len(records) \in Nat
  BY DEF Stream, WarehouseTypes
<1>2. \A i \in 1 .. Len(records) : Stream[i] = records[i] /\ records[i] \in RecordOfFile
  BY <1>1 DEF Stream, WarehouseTypes
<1>3. \A i \in 1 .. Len(written) : written[i] \in TickOfFile
  BY DEF WarehouseTypes
<1>4. Len(written) \in Nat /\ DOMAIN records = 1 .. Len(records) /\ DOMAIN written = 1 .. Len(written)
  BY DEF WarehouseTypes
<1>5. Len(records) <= Len(written)
  BY <1>1 DEF StreamIsWritten
<1>6. \A i \in 1 .. Len(written) : written[i].ts \in Int
  BY <1>3 DEF TickOfFile
<1>7. \A i \in 1 .. Len(records) : i \in 1 .. Len(written)
  BY <1>1, <1>4, <1>5
<1> QED BY <1>1, <1>2, <1>4, <1>5, <1>6, <1>7

\* A rounded time is whole, and half a millisecond off at most.
LEMMA NearestIsNear ==
  ASSUME NEW units \in Nat, NEW ms \in Nearest(units)
  PROVE  ms \in Nat /\ 2 * (Ms * ms - units) <= Ms /\ 2 * (units - Ms * ms) <= Ms
BY DEF Nearest

LEMMA DeltasAreNear ==
  ASSUME NEW ts \in Int, NEW last \in Int, NEW delta \in Deltas(ts, last)
  PROVE  /\ delta \in Nat /\ 2 * ((ts - last) - Ms * delta) <= Ms
         /\ last <= ts => 2 * (Ms * delta - (ts - last)) <= Ms
<1> DEFINE gap == IF ts > last THEN ts - last ELSE 0
<1>1. gap \in Nat /\ ts - last <= gap /\ (last <= ts => gap = ts - last)
  OBVIOUS
<1>2. delta \in Nearest(gap)
  BY DEF Deltas
<1> HIDE DEF gap
<1>3. delta \in Nat /\ 2 * (Ms * delta - gap) <= Ms /\ 2 * (gap - Ms * delta) <= Ms
  BY <1>1, <1>2, NearestIsNear
<1>4. Ms \in Nat /\ Ms * delta \in Int
  BY <1>3, WarehouseAssumption
<1> DEFINE read == Ms * delta
<1> HIDE DEF read
<1>5. read \in Int /\ 2 * (read - gap) <= Ms /\ 2 * (gap - read) <= Ms
  BY <1>3, <1>4 DEF read
<1>6. /\ 2 * ((ts - last) - read) <= Ms
      /\ last <= ts => 2 * (read - (ts - last)) <= Ms
  BY <1>1, <1>4, <1>5
<1> QED BY <1>3, <1>6 DEF read

\* One record more adds half a millisecond to the drift at most, to either side.
LEMMA DriftAdds ==
  ASSUME NEW k \in Nat, NEW r \in Int, NEW before \in Int, NEW ts \in Int,
         NEW delta \in Deltas(ts, before)
  PROVE  /\ 2 * (before - Ms * r) <= (k + 1) * Ms => 2 * (ts - Ms * (r + delta)) <= (k + 2) * Ms
         /\ before <= ts /\ 2 * (Ms * r - before) <= (k + 1) * Ms
              => 2 * (Ms * (r + delta) - ts) <= (k + 2) * Ms
<1>1. /\ delta \in Nat /\ 2 * ((ts - before) - Ms * delta) <= Ms
      /\ before <= ts => 2 * (Ms * delta - (ts - before)) <= Ms
  BY DeltasAreNear
<1>2. Ms \in Nat /\ Ms * r \in Int /\ Ms * delta \in Int /\ k * Ms \in Int
  BY <1>1, WarehouseAssumption
<1>3. Ms * (r + delta) = Ms * r + Ms * delta /\ (k + 1) * Ms = k * Ms + Ms /\ (k + 2) * Ms = k * Ms + 2 * Ms
  BY <1>1, <1>2
<1> DEFINE x == Ms * r
           y == Ms * delta
           z == k * Ms
<1>4. /\ x \in Int /\ y \in Int /\ z \in Int
      /\ 2 * ((ts - before) - y) <= Ms /\ (before <= ts => 2 * (y - (ts - before)) <= Ms)
      /\ Ms * (r + delta) = x + y /\ (k + 1) * Ms = z + Ms /\ (k + 2) * Ms = z + 2 * Ms
  BY <1>1, <1>2, <1>3
<1> DEFINE m == Ms * (r + delta)
           u == (k + 1) * Ms
           v == (k + 2) * Ms
<1>5. m = x + y /\ u = z + Ms /\ v = z + 2 * Ms
  BY <1>4
<1> HIDE DEF x, y, z, m, u, v
<1>6. /\ 2 * (before - x) <= u => 2 * (ts - m) <= v
      /\ before <= ts /\ 2 * (x - before) <= u => 2 * (m - ts) <= v
  BY <1>2, <1>4, <1>5
<1> QED BY <1>6 DEF x, m, u, v

\* What the first writer wrote is read back half a millisecond early for the header
\* and each delta at most, and, when the times never fell, no later than that.
LEMMA TimesReadBack ==
  ASSUME WarehouseTypes, StreamIsWritten, DeltasAreKept, FirstWriter, opens <= 1
  PROVE  /\ \A i \in DOMAIN records : 2 * (written[i].ts - Ms * ReadTime(i)) <= (i + 1) * Ms
         /\ (\A i, j \in DOMAIN records : i <= j => start <= written[i].ts /\ written[i].ts <= written[j].ts)
              => \A i \in DOMAIN records : 2 * (Ms * ReadTime(i) - written[i].ts) <= (i + 1) * Ms
<1> DEFINE n == Len(records)
           rises == \A i, j \in DOMAIN records :
                      i <= j => start <= written[i].ts /\ written[i].ts <= written[j].ts
           at(k) == TimeBefore(k + 1)
           early(k) == 2 * (at(k) - Ms * ReadTime(k)) <= (k + 1) * Ms
           late(k) == rises => 2 * (Ms * ReadTime(k) - at(k)) <= (k + 1) * Ms
           G == {k \in 0 .. n : early(k) /\ late(k)}
<1>0. /\ n \in Nat /\ DOMAIN records = 1 .. n /\ header \in Int /\ start \in Int
      /\ \A k \in 1 .. n : /\ k \in 1 .. Len(written) /\ written[k].ts \in Int
                           /\ records[k].delta \in Deltas(written[k].ts, TimeBefore(k))
  BY DiskIsFirst DEF DeltasAreKept, WarehouseTypes
<1>1. /\ ReadTime(0) = header
      /\ \A k \in 1 .. n : ReadTime(k) = ReadTime(k - 1) + records[k].delta
      /\ \A k \in 0 .. n : ReadTime(k) \in Int
  BY ReadTimeUnfolds DEF WarehouseTypes
<1>2. \A k \in 1 .. n : at(k) = written[k].ts
  BY <1>0 DEF TimeBefore
<1>3. ASSUME n # 0 PROVE 0 \in G
  <2>1. header \in Nearest(start) /\ start \in Nat /\ at(0) = start
    <3>1. written # <<>>
      BY <1>0, <1>3
    <3>2. header \in Nearest(start)
      BY <3>1 DEF FirstWriter
    <3>3. start \in Nat
      BY <1>0, <3>2 DEF Nearest
    <3> QED BY <3>2, <3>3 DEF TimeBefore
  <2>2. 2 * (Ms * header - start) <= Ms /\ 2 * (start - Ms * header) <= Ms
    BY <2>1, NearestIsNear
  <2>3. (0 + 1) * Ms = Ms
    BY WarehouseAssumption
  <2> HIDE DEF at, rises
  <2>4. early(0) /\ late(0)
    BY <1>1, <2>1, <2>2, <2>3
  <2> QED BY <1>0, <2>4
<1>4. ASSUME NEW k \in 0 .. n - 1, k \in G PROVE k + 1 \in G
  <2> DEFINE j == k + 1
  <2>1. j \in 1 .. n /\ j \in 0 .. n /\ j - 1 = k /\ k \in 0 .. n /\ k \in Nat /\ (k # 0 => k \in 1 .. n)
    BY <1>0
  <2>2. /\ ReadTime(j) = ReadTime(k) + records[j].delta /\ ReadTime(k) \in Int
        /\ records[j].delta \in Deltas(written[j].ts, at(k)) /\ written[j].ts \in Int
        /\ at(j) = written[j].ts
    BY <1>0, <1>1, <1>2, <2>1
  <2>3. at(k) \in Int /\ (rises => at(k) <= written[j].ts)
    <3>1. CASE k = 0
      <4>1. at(k) = start
        BY <3>1 DEF TimeBefore
      <4> QED BY <1>0, <2>1, <4>1
    <3>2. CASE k # 0
      <4>1. at(k) = written[k].ts /\ k <= j /\ k \in DOMAIN records /\ j \in DOMAIN records
        BY <1>0, <1>2, <2>1, <3>2
      <4>2. written[k].ts \in Int
        BY <1>0, <2>1, <3>2
      <4> HIDE DEF at, j
      <4> QED BY <4>1, <4>2
    <3> QED BY <3>1, <3>2
  <2> HIDE DEF at, rises, n
  <2>4. early(k) /\ late(k)
    BY <1>4
  <2>5. j + 1 = k + 2
    BY <2>1
  <2> HIDE DEF j
  <2>6. /\ 2 * (at(k) - Ms * ReadTime(k)) <= (k + 1) * Ms
             => 2 * (written[j].ts - Ms * ReadTime(j)) <= (k + 2) * Ms
        /\ at(k) <= written[j].ts /\ 2 * (Ms * ReadTime(k) - at(k)) <= (k + 1) * Ms
             => 2 * (Ms * ReadTime(j) - written[j].ts) <= (k + 2) * Ms
    BY <2>1, <2>2, <2>3, DriftAdds
  <2>7. early(j) /\ late(j)
    BY <2>2, <2>3, <2>4, <2>5, <2>6
  <2> QED BY <2>1, <2>7 DEF j
<1> HIDE DEF G
<1>5. ASSUME n # 0 PROVE 0 .. n \subseteq G
  BY <1>0, <1>3, <1>4, <1>5, UpTo
<1>6. ASSUME NEW k \in 1 .. n PROVE early(k) /\ late(k)
  <2>1. k \in 0 .. n /\ n # 0
    BY <1>0
  <2> QED BY <1>5, <2>1 DEF G
<1> HIDE DEF rises, n
<1>7. ASSUME NEW k \in 1 .. n
      PROVE  /\ 2 * (written[k].ts - Ms * ReadTime(k)) <= (k + 1) * Ms
             /\ rises => 2 * (Ms * ReadTime(k) - written[k].ts) <= (k + 1) * Ms
  <2>1. at(k) = written[k].ts /\ early(k) /\ late(k)
    BY <1>2, <1>6
  <2> HIDE DEF at
  <2> QED BY <2>1
<1> QED BY <1>0, <1>7 DEF rises

\* A tick goes behind the stream, whether the buffer is written or not.
LEMMA WriteAppends ==
  ASSUME WarehouseTypes, NEW ts \in Int, NEW volume \in Nat, Write(ts, volume)
  PROVE  /\ \E delta \in Deltas(ts, LastTime) : Stream' = Append(Stream, [id |-> ticks + 1, delta |-> delta])
         /\ records' \in Seq(RecordOfFile) /\ buffered' \in Seq(RecordOfFile)
<1>0. PICK delta \in Deltas(ts, LastTime) :
        LET full == Append(buffered, [id |-> ticks + 1, delta |-> delta]) IN
          IF Len(full) >= WriteBuffer
          THEN records' = records \o full /\ buffered' = <<>>
          ELSE buffered' = full /\ UNCHANGED records
  BY Zenon DEF Write
<1> DEFINE new == [id |-> ticks + 1, delta |-> delta]
           full == Append(buffered, new)
<1>1. LastTime \in Int /\ ticks + 1 \in Nat
  BY DEF WarehouseTypes, LastTime
<1>2. delta \in Nat
  BY <1>0, <1>1, DeltasAreNear
<1>3. new \in RecordOfFile
  BY <1>1, <1>2 DEF RecordOfFile
<1>4. IF Len(full) >= WriteBuffer
      THEN records' = records \o full /\ buffered' = <<>>
      ELSE buffered' = full /\ UNCHANGED records
  BY <1>0
<1> HIDE DEF new
<1>5. records \in Seq(RecordOfFile) /\ buffered \in Seq(RecordOfFile) /\ full \in Seq(RecordOfFile)
  BY <1>3 DEF WarehouseTypes
<1>6. records \o full = Append(records \o buffered, new)
  BY <1>3, <1>5
<1> HIDE DEF full
<1>7. records \o full \in Seq(RecordOfFile) /\ (records \o full) \o <<>> = records \o full
  BY <1>5
<1>8. ASSUME Len(full) >= WriteBuffer
      PROVE  Stream' = Append(Stream, new) /\ records' \in Seq(RecordOfFile) /\ buffered' \in Seq(RecordOfFile)
  <2>1. records' = records \o full /\ buffered' = <<>>
    BY <1>4, <1>8
  <2>2. Stream' = records \o full
    BY <1>7, <2>1 DEF Stream
  <2>3. <<>> \in Seq(RecordOfFile)
    OBVIOUS
  <2> QED BY <1>6, <1>7, <2>1, <2>2, <2>3 DEF Stream
<1>9. ASSUME ~(Len(full) >= WriteBuffer)
      PROVE  Stream' = Append(Stream, new) /\ records' \in Seq(RecordOfFile) /\ buffered' \in Seq(RecordOfFile)
  BY <1>4, <1>5, <1>6, <1>9 DEF Stream
<1>10. Stream' = Append(Stream, new) /\ records' \in Seq(RecordOfFile) /\ buffered' \in Seq(RecordOfFile)
  BY <1>8, <1>9
<1> QED BY <1>0, <1>10 DEF new

\* A flush writes what the stream held.
LEMMA FlushKeepsStream ==
  ASSUME WarehouseTypes, records' = records \o buffered, buffered' = <<>>
  PROVE  /\ Stream' = Stream /\ records' = Stream
         /\ records' \in Seq(RecordOfFile) /\ buffered' \in Seq(RecordOfFile)
<1>1. records \in Seq(RecordOfFile) /\ buffered \in Seq(RecordOfFile)
  BY DEF WarehouseTypes
<1>2. records \o buffered \in Seq(RecordOfFile) /\ (records \o buffered) \o <<>> = records \o buffered
  BY <1>1
<1> QED BY <1>2 DEF Stream

\* A tick is timed from the one before it.
LEMMA WriteKeepsFile ==
  ASSUME WarehouseTypes, FileInv, NEW ts \in Int, NEW volume \in Nat, Write(ts, volume)
  PROVE  FileInv'
<1>0. PICK delta \in Deltas(ts, LastTime) : Stream' = Append(Stream, [id |-> ticks + 1, delta |-> delta])
  BY WriteAppends
<1> DEFINE n == Len(written)
           tick == [id |-> ticks + 1, ts |-> ts]
           rec == [id |-> ticks + 1, delta |-> delta]
<1>1. /\ isOpen /\ written' = Append(written, tick) /\ writer' = [on |-> TRUE, last |-> ts]
      /\ header = -1 => header' \in Nearest(time) /\ start' = time
      /\ header # -1 => UNCHANGED <<header, start>>
      /\ UNCHANGED <<isOpen, opens, clean, manifest>>
  BY DEF Write, LastAfter
<1>2. /\ n \in Nat /\ written \in Seq(TickOfFile) /\ Stream \in Seq(RecordOfFile) /\ Len(Stream) = n
      /\ \A i \in 1 .. n : Stream[i].id = written[i].id
  BY DEF WarehouseTypes, FileInv, StreamIsWritten, Stream
<1>3. tick \in TickOfFile /\ tick.id = rec.id /\ tick.ts = ts /\ rec.delta = delta
      /\ rec \in RecordOfFile
  <2>1. LastTime \in Int /\ ticks + 1 \in Nat
    BY DEF WarehouseTypes, LastTime
  <2>2. delta \in Nat
    BY <1>0, <2>1, DeltasAreNear
  <2> QED BY <2>1, <2>2 DEF TickOfFile, RecordOfFile
<1>4. Stream' = Append(Stream, rec)
  BY <1>0
<1> HIDE DEF tick, rec
<1>5. /\ Len(written') = n + 1 /\ written'[n + 1] = tick /\ \A i \in 1 .. n : written'[i] = written[i]
      /\ Len(Stream') = n + 1 /\ Stream'[n + 1] = rec /\ \A i \in 1 .. n : Stream'[i] = Stream[i]
  BY <1>1, <1>2, <1>3, <1>4
<1>6. \A i \in 1 .. n + 1 : i \in 1 .. n \/ i = n + 1
  BY <1>2
<1>7. StreamIsWritten'
  <2>1. ASSUME NEW i \in 1 .. n + 1 PROVE Stream'[i].id = written'[i].id
    BY <1>2, <1>3, <1>5, <1>6
  <2> QED BY <1>5, <2>1 DEF StreamIsWritten
<1>8. opens <= 1 => IF writer.on THEN written # <<>> /\ writer.last = written[n].ts
                    ELSE written = <<>> /\ header = -1
  BY <1>1 DEF FileInv, FirstWriter
<1>9. /\ opens <= 1 /\ written # <<>> => header # -1 /\ header \in Nearest(start)
      /\ -1 \notin Nearest(start) /\ -1 \notin Nearest(time)
  BY DEF FileInv, FirstWriter, Nearest
<1>10. written = <<>> <=> n = 0
  BY <1>2
<1>11. DeltasAreKept'
  <2> SUFFICES ASSUME opens <= 1, NEW i \in 1 .. n + 1
               PROVE  Stream'[i].delta \in Deltas(written'[i].ts, TimeBefore(i)')
    BY <1>1, <1>5 DEF DeltasAreKept
  <2>1. CASE i \in 1 .. n
    <3>1. start' = start
      BY <1>1, <1>2, <1>9, <1>10, <2>1
    <3>2. i # 1 => i - 1 \in 1 .. n
      BY <1>2, <2>1
    <3>3. TimeBefore(i)' = TimeBefore(i)
      BY <1>5, <3>1, <3>2 DEF TimeBefore
    <3>4. Stream[i].delta \in Deltas(written[i].ts, TimeBefore(i))
      BY <2>1 DEF FileInv, DeltasAreKept
    <3> QED BY <1>5, <2>1, <3>3, <3>4
  <2>2. CASE i = n + 1
    <3>1. TimeBefore(i)' = LastTime
      <4>1. CASE writer.on
        <5>1. n # 0 /\ n \in 1 .. n /\ i # 1 /\ i - 1 = n
          BY <1>2, <1>8, <1>10, <2>2, <4>1
        <5>2. TimeBefore(i)' = written[n].ts
          BY <1>5, <5>1 DEF TimeBefore
        <5> QED BY <1>8, <4>1, <5>2 DEF LastTime
      <4>2. CASE ~writer.on
        <5>1. n = 0 /\ i = 1 /\ start' = time
          BY <1>1, <1>8, <1>10, <2>2, <4>2
        <5> QED BY <4>2, <5>1 DEF TimeBefore, LastTime
      <4> QED BY <4>1, <4>2
    <3>2. Stream'[i].delta \in Deltas(ts, LastTime) /\ written'[i].ts = ts
      BY <1>0, <1>3, <1>5, <2>2
    <3> QED BY <3>1, <3>2
  <2> QED BY <1>6, <2>1, <2>2
<1>12. FirstWriter'
  <2>1. written' # <<>> /\ writer'.on /\ writer'.last = written'[Len(written')].ts
    BY <1>1, <1>2, <1>3, <1>5
  <2>2. opens # 0
    BY <1>1 DEF FileInv, FirstWriter
  <2>3. opens <= 1 => header' \in Nearest(start')
    <3>1. CASE header = -1
      BY <1>1, <3>1
    <3>2. CASE header # -1
      <4>1. opens <= 1 => written # <<>>
        BY <1>1, <3>2 DEF FileInv, FirstWriter
      <4> QED BY <1>1, <1>9, <3>2, <4>1
    <3> QED BY <3>1, <3>2
  <2> QED BY <1>1, <2>1, <2>2, <2>3 DEF FirstWriter
<1>13. ClosedIsEmpty' /\ CleanIsClosed'
  BY <1>1 DEF FileInv, ClosedIsEmpty, CleanIsClosed
<1> QED BY <1>7, <1>11, <1>12, <1>13 DEF FileInv

\* The stream, the ticks written and the first writer stay as they are.
LEMMA SameStream ==
  ASSUME FileInv, Stream' = Stream, written' = written, opens' = opens, header' = header,
         start' = start, isOpen' => isOpen, ~isOpen' => ~writer'.on, isOpen' => writer' = writer
  PROVE  StreamIsWritten' /\ DeltasAreKept' /\ FirstWriter'
<1>1. StreamIsWritten'
  BY DEF FileInv, StreamIsWritten
<1>2. DeltasAreKept'
  BY DEF FileInv, DeltasAreKept, TimeBefore
<1>3. FirstWriter'
  BY DEF FileInv, FirstWriter
<1> QED BY <1>1, <1>2, <1>3

\* Opening, flushing and closing leave the stream as it was.
LEMMA QuietStepsKeepFile ==
  ASSUME WarehouseTypes, FileInv,
         \/ OpenWarehouse \/ FlushLoop \/ Flush \/ CloseWarehouse \/ UNCHANGED fileVars
  PROVE  FileInv'
<1>1. CASE OpenWarehouse
  <2>1. /\ ~isOpen /\ isOpen' /\ opens' = opens + 1 /\ ~clean'
        /\ UNCHANGED <<written, writer, header, start, records, buffered>>
    BY <1>1 DEF OpenWarehouse
  <2>2. opens' <= 1 => opens = 0 /\ written = <<>> /\ header = -1 /\ ~writer.on
    BY <2>1 DEF FileInv, FirstWriter, WarehouseTypes
  <2>3. StreamIsWritten'
    BY <2>1 DEF FileInv, StreamIsWritten, Stream
  <2>4. opens' <= 1 => Len(written') = 0
    BY <2>1, <2>2
  <2>5. DeltasAreKept'
    BY <2>4 DEF DeltasAreKept
  <2>6. FirstWriter'
    <3>1. opens' # 0 /\ isOpen'
      BY <2>1 DEF WarehouseTypes
    <3>2. opens' <= 1 => ~writer'.on /\ written' = <<>> /\ header' = -1
      BY <2>1, <2>2
    <3> QED BY <3>1, <3>2, Zenon DEF FirstWriter
  <2>7. ClosedIsEmpty' /\ CleanIsClosed'
    BY <2>1 DEF ClosedIsEmpty, CleanIsClosed
  <2> QED BY <2>3, <2>5, <2>6, <2>7 DEF FileInv
<1>2. CASE FlushLoop \/ Flush
  <2>1. /\ records' = records \o buffered /\ buffered' = <<>> /\ isOpen
        /\ UNCHANGED <<isOpen, opens, written, writer, header, start, clean, manifest>>
    BY <1>2 DEF FlushLoop, Flush
  <2>2. Stream' = Stream
    BY <2>1, FlushKeepsStream
  <2>3. StreamIsWritten' /\ DeltasAreKept' /\ FirstWriter'
    BY <2>1, <2>2, SameStream
  <2>4. ClosedIsEmpty' /\ CleanIsClosed'
    BY <2>1 DEF FileInv, ClosedIsEmpty, CleanIsClosed
  <2> QED BY <2>3, <2>4 DEF FileInv
<1>3. CASE CloseWarehouse
  <2>1. /\ records' = records \o buffered /\ buffered' = <<>> /\ ~isOpen'
        /\ UNCHANGED <<opens, written, header, start>> /\ ~writer'.on
        /\ manifest' = Len(records')
    BY <1>3 DEF CloseWarehouse, NoWriter, CountedAtClose
  <2>2. Stream' = Stream
    BY <2>1, FlushKeepsStream
  <2>3. StreamIsWritten' /\ DeltasAreKept' /\ FirstWriter'
    BY <2>1, <2>2, SameStream
  <2>4. ClosedIsEmpty' /\ CleanIsClosed'
    BY <2>1 DEF ClosedIsEmpty, CleanIsClosed
  <2> QED BY <2>3, <2>4 DEF FileInv
<1>4. CASE UNCHANGED fileVars
  BY <1>4 DEF fileVars, FileInv, StreamIsWritten, Stream, DeltasAreKept, TimeBefore, FirstWriter,
              ClosedIsEmpty, CleanIsClosed
<1> QED BY <1>1, <1>2, <1>3, <1>4

\* A crash takes from the ticks written what the buffer held, and no more.
LEMMA CrashKeepsFile ==
  ASSUME WarehouseTypes, FileInv, NEW kept, CrashWarehouse(kept)
  PROVE  FileInv' /\ written' \in Seq(TickOfFile)
<1> DEFINE n == Len(records)
<1>1. /\ isOpen /\ ~isOpen' /\ ~clean' /\ ~writer'.on /\ buffered' = <<>>
      /\ written' = SubSeq(written, 1, Len(written) - Len(buffered))
      /\ header' = (IF records = <<>> THEN -1 ELSE header)
      /\ UNCHANGED <<records, opens, start>>
  BY DEF CrashWarehouse, NoWriter
<1>2. /\ n \in Nat /\ records \in Seq(RecordOfFile) /\ written \in Seq(TickOfFile)
      /\ Len(written) \in Nat /\ n = Len(written) - Len(buffered) /\ n <= Len(written)
  <2>1. records \in Seq(RecordOfFile) /\ buffered \in Seq(RecordOfFile) /\ written \in Seq(TickOfFile)
    BY DEF WarehouseTypes
  <2>2. n \in Nat /\ Len(buffered) \in Nat /\ Len(written) \in Nat /\ Len(Stream) = n + Len(buffered)
    BY <2>1 DEF Stream
  <2> QED BY <2>1, <2>2 DEF FileInv, StreamIsWritten
<1>3. written' = SubSeq(written, 1, n)
  BY <1>1, <1>2
<1> HIDE DEF n
<1>4. /\ written' \in Seq(TickOfFile) /\ Len(written') = n
      /\ \A i \in 1 .. n : written'[i] = written[i]
  BY <1>2, <1>3
<1>5. Stream' = records
  BY <1>1, <1>2 DEF Stream
<1>6. \A i \in 1 .. n : i \in 1 .. Len(written) /\ Stream[i] = records[i]
  BY DiskIsFirst DEF FileInv, n
<1>7. StreamIsWritten'
  <2>1. Len(Stream') = n
    BY <1>5 DEF n
  <2>2. ASSUME NEW i \in 1 .. n PROVE Stream'[i].id = written'[i].id
    BY <1>4, <1>5, <1>6 DEF FileInv, StreamIsWritten
  <2> QED BY <1>4, <2>1, <2>2 DEF StreamIsWritten
<1>8. n # 0 => header' = header
  BY <1>1, <1>2 DEF n
<1>9. DeltasAreKept'
  <2> SUFFICES ASSUME opens <= 1, NEW i \in 1 .. n
               PROVE  Stream'[i].delta \in Deltas(written'[i].ts, TimeBefore(i)')
    BY <1>1, <1>4 DEF DeltasAreKept
  <2>1. n # 0 /\ (i # 1 => i - 1 \in 1 .. n)
    BY <1>2
  <2>2. TimeBefore(i)' = TimeBefore(i)
    BY <1>1, <1>4, <2>1 DEF TimeBefore
  <2>3. Stream[i].delta \in Deltas(written[i].ts, TimeBefore(i))
    BY <1>6 DEF FileInv, DeltasAreKept
  <2> QED BY <1>4, <1>5, <1>6, <2>2, <2>3
<1>10. FirstWriter'
  <2>1. opens # 0
    BY <1>1 DEF FileInv, FirstWriter
  <2>2. written' # <<>> => n # 0 /\ written # <<>>
    BY <1>2, <1>4
  <2>3. opens <= 1 /\ written # <<>> => header \in Nearest(start)
    BY DEF FileInv, FirstWriter
  <2> QED BY <1>1, <1>8, <2>1, <2>2, <2>3 DEF FirstWriter
<1>11. ClosedIsEmpty' /\ CleanIsClosed'
  BY <1>1 DEF ClosedIsEmpty, CleanIsClosed
<1> QED BY <1>4, <1>7, <1>9, <1>10, <1>11 DEF FileInv

\* A bar begins at a multiple of the interval.
LEMMA BarStarts ==
  ASSUME NEW ts \in Int
  PROVE  BarOf(ts) \in Int
<1>1. Interval \in Nat \ {0}
  BY WarehouseAssumption
<1> QED BY <1>1 DEF BarOf

LEMMA NoBarIsBar == NoBar \in BarLine
BY DEF NoBar, BarLine

LEMMA WriteKeepsTypes ==
  ASSUME WarehouseTypes, NEW ts \in Int, NEW volume \in Nat, Write(ts, volume)
  PROVE  WarehouseTypes'
<1>1. records' \in Seq(RecordOfFile) /\ buffered' \in Seq(RecordOfFile)
  BY WriteAppends
<1>2. time' \in Nat /\ ticks' \in Nat /\ opens' \in Nat /\ header' \in Int /\ start' \in Int /\ traded' \in Nat /\ writer'.last \in Int
  <2>1. UNCHANGED <<time, opens>> /\ ticks' = ticks + 1 /\ traded' = traded + volume
    BY Zenon DEF Write
  <2>2. writer' = [on |-> TRUE, last |-> ts]
    BY Zenon DEF Write, LastAfter
  <2>3. (header' \in Nearest(time) /\ start' = time) \/ UNCHANGED <<header, start>>
    BY Zenon DEF Write
  <2>4. Nearest(time) \subseteq Int /\ time \in Int
    BY DEF WarehouseTypes, Nearest
  <2>5. header' \in Int /\ start' \in Int
    BY <2>3, <2>4 DEF WarehouseTypes
  <2> QED BY <2>1, <2>2, <2>5 DEF WarehouseTypes
<1>3. written' \in Seq(TickOfFile)
  <2>1. [id |-> ticks + 1, ts |-> ts] \in TickOfFile
    BY DEF WarehouseTypes, TickOfFile
  <2>2. written' = Append(written, [id |-> ticks + 1, ts |-> ts])
    BY DEF Write
  <2> QED BY <2>1, <2>2 DEF WarehouseTypes
<1>4. running' \in BarLine
  <2>1. running' = BarAfter(running, ts, volume)
    BY DEF Write
  <2>2. BarOf(ts) \in Int
    BY BarStarts
  <2>3. running \in BarLine
    BY DEF WarehouseTypes
  <2> QED BY <2>1, <2>2, <2>3 DEF BarAfter, BarLine
<1>5. barLines' \in Seq(BarLine) /\ bars' \in Seq(BarLine)
  <2>1. running \in BarLine /\ barLines \in Seq(BarLine) /\ bars \in Seq(BarLine)
    BY DEF WarehouseTypes
  <2>2. Completed(running, ts) \in Seq(BarLine)
    BY <2>1 DEF Completed
  <2>3. barLines' = barLines \o Completed(running, ts) /\ bars' = bars
    BY DEF Write
  <2> QED BY <2>1, <2>2, <2>3
<1>6. batch' \in Seq(Nat) /\ rows' \in Seq(Nat) /\ inserting' \subseteq Seq(Nat)
  BY <1>2 DEF Write, WarehouseTypes
<1> QED BY <1>1, <1>2, <1>3, <1>4, <1>5, <1>6 DEF WarehouseTypes

LEMMA TypesKept ==
  ASSUME WarehouseTypes, FileInv, WarehouseNext \/ UNCHANGED warehouseVars
  PROVE  WarehouseTypes'
<1>1. CASE TimePasses
  BY <1>1 DEF WarehouseTypes, TimePasses, fileVars, copyVars
<1>2. CASE OpenWarehouse
  BY <1>2 DEF WarehouseTypes, OpenWarehouse
<1>3. CASE FlushLoop \/ Flush
  <2>1. records' = records \o buffered /\ buffered' = <<>>
    BY <1>3 DEF FlushLoop, Flush
  <2>2. records' \in Seq(RecordOfFile) /\ buffered' \in Seq(RecordOfFile)
    BY <2>1, FlushKeepsStream
  <2>3. bars' \in Seq(BarLine) /\ barLines' \in Seq(BarLine)
    <3>1. bars \in Seq(BarLine) /\ barLines \in Seq(BarLine)
      BY DEF WarehouseTypes
    <3>2. bars \o barLines \in Seq(BarLine) /\ <<>> \in Seq(BarLine)
      BY <3>1
    <3> QED BY <1>3, <3>1, <3>2 DEF FlushLoop, Flush
  <2> QED BY <1>3, <2>2, <2>3 DEF WarehouseTypes, FlushLoop, Flush, copyVars
<1>4. CASE CloseWarehouse
  <2>1. records' = records \o buffered /\ buffered' = <<>>
    BY <1>4 DEF CloseWarehouse
  <2>2. records' \in Seq(RecordOfFile) /\ buffered' \in Seq(RecordOfFile)
    BY <2>1, FlushKeepsStream
  <2>3. bars' \in Seq(BarLine) /\ barLines' \in Seq(BarLine) /\ running' \in BarLine
    <3>1. running \in BarLine /\ barLines \in Seq(BarLine) /\ bars \in Seq(BarLine)
      BY DEF WarehouseTypes
    <3>2. LastBar \in Seq(BarLine)
      BY <3>1 DEF LastBar
    <3>3. bars \o barLines \o LastBar \in Seq(BarLine)
      BY <3>1, <3>2
    <3>4. <<>> \in Seq(BarLine)
      OBVIOUS
    <3> QED BY <1>4, <3>3, <3>4, NoBarIsBar DEF CloseWarehouse
  <2>4. inserting' \subseteq Seq(Nat) /\ batch' \in Seq(Nat) /\ rows' \in Seq(Nat)
    BY <1>4 DEF CloseWarehouse, WarehouseTypes
  <2>5. time' \in Nat /\ ticks' \in Nat /\ opens' \in Nat /\ header' \in Int /\ start' \in Int /\ traded' \in Nat /\ writer'.last \in Int
        /\ written' \in Seq(TickOfFile)
    BY <1>4 DEF CloseWarehouse, WarehouseTypes, NoWriter
  <2> QED BY <2>2, <2>3, <2>4, <2>5 DEF WarehouseTypes
<1>5. ASSUME NEW ts \in {time - 1, time}, NEW volume \in {0, 1}, Write(ts, volume) PROVE WarehouseTypes'
  <2>1. ts \in Int /\ volume \in Nat
    BY DEF WarehouseTypes
  <2> QED BY <1>5, <2>1, WriteKeepsTypes
<1>6. ASSUME NEW kept \in 0 .. Len(barLines), CrashWarehouse(kept) PROVE WarehouseTypes'
  <2>1. written' \in Seq(TickOfFile)
    BY <1>6, CrashKeepsFile
  <2>2. bars' \in Seq(BarLine) /\ barLines' \in Seq(BarLine) /\ running' \in BarLine
    <3>1. barLines \in Seq(BarLine) /\ bars \in Seq(BarLine)
      BY DEF WarehouseTypes
    <3>2. SubSeq(barLines, 1, kept) \in Seq(BarLine)
      <4>1. \A k \in 1 .. kept : barLines[k] \in BarLine
        BY <3>1
      <4> QED BY <3>1, <4>1
    <3>3. bars \o SubSeq(barLines, 1, kept) \in Seq(BarLine) /\ <<>> \in Seq(BarLine)
      BY <3>1, <3>2
    <3> QED BY <1>6, <3>3, NoBarIsBar DEF CrashWarehouse
  <2>3. inserting' \subseteq Seq(Nat) /\ batch' \in Seq(Nat) /\ rows' \in Seq(Nat)
    BY <1>6 DEF CrashWarehouse, WarehouseTypes
  <2>4. time' \in Nat /\ ticks' \in Nat /\ opens' \in Nat /\ header' \in Int /\ start' \in Int /\ traded' \in Nat /\ writer'.last \in Int
        /\ records' \in Seq(RecordOfFile) /\ buffered' \in Seq(RecordOfFile)
    BY <1>6 DEF CrashWarehouse, WarehouseTypes, NoWriter
  <2> QED BY <2>1, <2>2, <2>3, <2>4 DEF WarehouseTypes
<1>7. CASE TakeBatch
  BY <1>7 DEF WarehouseTypes, TakeBatch, fileVars, BatchAfterTake
<1>8. ASSUME NEW taken \in inserting, NEW ok \in BOOLEAN, InsertDone(taken, ok) PROVE WarehouseTypes'
  <2>1. taken \in Seq(Nat) /\ rows \in Seq(Nat)
    BY DEF WarehouseTypes
  <2>2. rows' \in Seq(Nat)
    BY <1>8, <2>1 DEF InsertDone
  <2> QED BY <1>8, <2>2 DEF InsertDone, WarehouseTypes, fileVars
<1>9. CASE UNCHANGED warehouseVars
  BY <1>9 DEF WarehouseTypes, warehouseVars, fileVars, copyVars
<1> QED BY <1>1, <1>2, <1>3, <1>4, <1>5, <1>6, <1>7, <1>8, <1>9 DEF WarehouseNext

LEMMA FileKept ==
  ASSUME WarehouseTypes, FileInv, WarehouseNext \/ UNCHANGED warehouseVars
  PROVE  FileInv'
<1>1. CASE TimePasses \/ OpenWarehouse \/ FlushLoop \/ Flush \/ CloseWarehouse \/ TakeBatch
           \/ (\E taken \in inserting, ok \in BOOLEAN : InsertDone(taken, ok)) \/ UNCHANGED warehouseVars
  <2>1. \/ OpenWarehouse \/ FlushLoop \/ Flush \/ CloseWarehouse \/ UNCHANGED fileVars
    BY <1>1 DEF TimePasses, TakeBatch, InsertDone, warehouseVars
  <2> QED BY <2>1, QuietStepsKeepFile
<1>2. ASSUME NEW ts \in {time - 1, time}, NEW volume \in {0, 1}, Write(ts, volume) PROVE FileInv'
  <2>1. ts \in Int /\ volume \in Nat
    BY DEF WarehouseTypes
  <2> QED BY <1>2, <2>1, WriteKeepsFile
<1>3. ASSUME NEW kept \in 0 .. Len(barLines), CrashWarehouse(kept) PROVE FileInv'
  BY <1>3, CrashKeepsFile
<1> QED BY <1>1, <1>2, <1>3 DEF WarehouseNext

\* The volume in the bars of a sequence.
BarTotal(s) == SetTotal([i \in DOMAIN s |-> s[i].volume], DOMAIN s)

\* The library's sum of the volumes is this sum.
LEMMA FoldIsBarTotal ==
  ASSUME NEW c, IsFiniteSet(DOMAIN c)
  PROVE  FoldSeq(LAMBDA b, sum : b.volume + sum, 0, c) = BarTotal(c)
<1> DEFINE S == DOMAIN c
           f == [i \in S |-> c[i].volume]
           Fold(g) == g = [s \in SUBSET S |->
                             IF s = {} THEN 0
                             ELSE c[CHOOSE x \in s : TRUE].volume + g[s \ {CHOOSE x \in s : TRUE}]]
           it == CHOOSE g : Fold(g)
<1>1. FoldSeq(LAMBDA b, sum : b.volume + sum, 0, c) = it[S]
  BY Zenon DEF FoldSeq, FoldFunction, FoldFunctionOnSet, MapThenFoldSet
<1> HIDE DEF S
<1>2. ASSUME NEW g PROVE Fold(g) <=> SetSums(f, S, g)
  <2>1. ASSUME NEW s \in SUBSET S
        PROVE  (IF s = {} THEN 0 ELSE c[Pick(s)].volume + g[s \ {Pick(s)}])
                 = (IF s = {} THEN 0 ELSE f[Pick(s)] + g[s \ {Pick(s)}])
    <3>1. CASE s = {}
      BY <3>1
    <3>2. CASE s # {}
      <4>1. Pick(s) \in S
        BY <3>2, PickIsElement
      <4>2. f[Pick(s)] = c[Pick(s)].volume
        BY <4>1
      <4> QED BY <4>2
    <3> QED BY <3>1, <3>2
  <2>2. [s \in SUBSET S |-> IF s = {} THEN 0 ELSE c[Pick(s)].volume + g[s \ {Pick(s)}]]
          = [s \in SUBSET S |-> IF s = {} THEN 0 ELSE f[Pick(s)] + g[s \ {Pick(s)}]]
    BY <2>1
  <2> HIDE DEF f
  <2> QED BY <2>2, Zenon DEF SetSums, Pick
<1> HIDE DEF f, Fold
<1>0. IsFiniteSet(S)
  BY DEF S
<1>3. PICK g : SetSums(f, S, g)
  BY <1>0, SetSumsExist
<1>4. Fold(it)
  BY <1>2, <1>3, Zenon
<1>5. SetSums(f, S, it)
  BY <1>2, <1>4
<1> HIDE DEF it
<1>6. SetTotal(f, S) = it[S]
  BY <1>0, <1>5, SetTotalIs
<1> QED BY <1>1, <1>6 DEF f, S, BarTotal

\* No bars have no volume, and one more bar adds its volume.
LEMMA BarAdds ==
  /\ BarTotal(<<>>) = 0
  /\ \A s \in Seq(BarLine), b \in BarLine :
       BarTotal(s) \in Nat /\ BarTotal(Append(s, b)) = BarTotal(s) + b.volume
<1>1. BarTotal(<<>>) = 0
  <2>1. DOMAIN <<>> = {}
    OBVIOUS
  <2> QED BY <2>1, SetTotalEmpty DEF BarTotal
<1>2. ASSUME NEW s \in Seq(BarLine), NEW b \in BarLine
      PROVE  BarTotal(s) \in Nat /\ BarTotal(Append(s, b)) = BarTotal(s) + b.volume
  <2> DEFINE S == DOMAIN s
             y == Len(s) + 1
             t == Append(s, b)
             f == [i \in S |-> s[i].volume]
             g == [i \in DOMAIN t |-> t[i].volume]
  <2>1. /\ S = 1 .. Len(s) /\ Len(s) \in Nat /\ DOMAIN t = S \cup {y} /\ y \notin S
        /\ t[y] = b /\ \A i \in S : t[i] = s[i] /\ s[i] \in BarLine
    OBVIOUS
  <2>2. IsFiniteSet(S)
    BY <2>1, FS_Interval
  <2>3. \A i \in S : f[i] = s[i].volume /\ f[i] \in Nat /\ g[i] = f[i]
    BY <2>1 DEF BarLine
  <2>4. g[y] = b.volume /\ g[y] \in Nat
    BY <2>1 DEF BarLine
  <2>5. BarTotal(t) = SetTotal(g, S \cup {y}) /\ BarTotal(s) = SetTotal(f, S)
    BY <2>1, Zenon DEF BarTotal
  <2> HIDE DEF f, g, S, y, t
  <2>6. SetTotal(g, S \cup {y}) = SetTotal(f, S) + g[y]
    <3>1. \A x \in S : f[x] \in Nat /\ g[x] = f[x]
      BY <2>3
    <3>2. y \notin S /\ g[y] \in Nat
      BY <2>1, <2>4
    <3> QED BY <2>2, <3>1, <3>2, SetTotalAdd
  <2>7. SetTotal(f, S) \in Nat
    BY <2>2, <2>3, SetTotalRemove
  <2> QED BY <2>4, <2>5, <2>6, <2>7 DEF t
<1> QED BY <1>1, <1>2

\* Without a crash the bars, the last one included, have the volume traded.
BarsInv == ~crashed => running.volume + BarTotal(bars \o barLines) = traded

LEMMA BarsKept ==
  ASSUME WarehouseTypes, BarsInv, WarehouseNext \/ UNCHANGED warehouseVars
  PROVE  BarsInv'
<1> DEFINE all == bars \o barLines
           total == BarTotal(all)
           Now == running.volume + total = traded
           Then == running'.volume + BarTotal(bars' \o barLines') = traded'
<1>0. /\ running \in BarLine /\ running.volume \in Nat
      /\ bars \in Seq(BarLine) /\ barLines \in Seq(BarLine) /\ all \in Seq(BarLine)
  <2>1. running \in BarLine /\ bars \in Seq(BarLine) /\ barLines \in Seq(BarLine)
    BY DEF WarehouseTypes
  <2> QED BY <2>1 DEF BarLine
<1>1. total \in Nat /\ BarTotal(Append(all, running)) = total + running.volume
  BY <1>0, BarAdds
<1>2. (~crashed => Now) /\ ((~crashed' => Then) => BarsInv')
  BY Zenon DEF BarsInv
<1>3. CASE TimePasses \/ OpenWarehouse \/ FlushLoop \/ TakeBatch
           \/ (\E taken \in inserting, ok \in BOOLEAN : InsertDone(taken, ok)) \/ UNCHANGED warehouseVars
  <2>1. UNCHANGED <<running, bars, barLines, traded, crashed>>
    BY <1>3 DEF TimePasses, OpenWarehouse, FlushLoop, TakeBatch, InsertDone, warehouseVars, fileVars
  <2> QED BY <2>1 DEF BarsInv
<1>4. CASE Flush
  <2>1. bars' \o barLines' = all \o <<>> /\ UNCHANGED <<running, traded, crashed>>
    BY <1>4 DEF Flush
  <2>2. all \o <<>> = all
    BY <1>0
  <2> QED BY <2>1, <2>2 DEF BarsInv
<1>5. CASE CloseWarehouse
  <2>1. /\ bars' = all \o LastBar /\ barLines' = <<>>
        /\ running'.volume = 0 /\ traded' = traded /\ crashed' = crashed
    BY <1>5 DEF CloseWarehouse, NoBar
  <2>2. BarTotal(bars' \o barLines') = total + running.volume
    <3>1. CASE ~(running.volume > 0)
      <4>1. LastBar = <<>> /\ running.volume = 0
        BY <1>0, <3>1 DEF LastBar
      <4>2. bars' \o barLines' = all
        <5>1. all \o <<>> = all
          BY <1>0
        <5>2. bars' = all
          BY <2>1, <4>1, <5>1
        <5> QED BY <2>1, <5>1, <5>2
      <4> HIDE DEF all
      <4>3. BarTotal(bars' \o barLines') = total
        BY <4>2
      <4> HIDE DEF total
      <4> QED BY <1>1, <4>1, <4>3
    <3>2. CASE running.volume > 0
      <4>1. bars' \o barLines' = Append(all, running)
        BY <1>0, <2>1, <3>2 DEF LastBar
      <4> HIDE DEF all
      <4> QED BY <1>1, <4>1
    <3> QED BY <3>1, <3>2
  <2>3. Now => Then
    <3> HIDE DEF total
    <3> QED BY <1>0, <1>1, <2>1, <2>2
  <2> HIDE DEF Now, Then
  <2> QED BY <1>2, <2>1, <2>3, Zenon
<1>6. ASSUME NEW ts \in {time - 1, time}, NEW volume \in {0, 1}, Write(ts, volume) PROVE BarsInv'
  <2>1. /\ running' = BarAfter(running, ts, volume) /\ bars' = bars /\ crashed' = crashed
        /\ barLines' = barLines \o Completed(running, ts)
    BY <1>6 DEF Write
  <2>2. traded' = traded + volume /\ traded \in Nat /\ volume \in Nat
    BY <1>6 DEF Write, WarehouseTypes
  <2>3. running'.volume + BarTotal(bars' \o barLines') = running.volume + total + volume
    <3>1. CASE running # NoBar /\ BarOf(ts) > running.start
      <4>1. barLines' = barLines \o <<running>> /\ running'.volume = volume
        BY <2>1, <3>1 DEF Completed, BarAfter
      <4>2. bars \o (barLines \o <<running>>) = Append(all, running)
        BY <1>0
      <4>3. bars' \o barLines' = Append(all, running)
        BY <2>1, <4>1, <4>2
      <4> HIDE DEF all
      <4>4. BarTotal(bars' \o barLines') = total + running.volume
        BY <1>1, <4>3
      <4> HIDE DEF total
      <4> QED BY <1>0, <1>1, <2>2, <4>1, <4>4
    <3>2. CASE running = NoBar \/ ~(BarOf(ts) > running.start)
      <4>1. barLines' = barLines \o <<>> /\ running'.volume = running.volume + volume
        <5>1. CASE running = NoBar
          BY <2>1, <2>2, <5>1 DEF Completed, BarAfter, NoBar
        <5>2. CASE running # NoBar
          BY <1>0, <2>1, <3>2, <5>2 DEF Completed, BarAfter, BarLine
        <5> QED BY <5>1, <5>2
      <4>2. bars' \o barLines' = all
        BY <1>0, <2>1, <4>1
      <4> HIDE DEF all
      <4>3. BarTotal(bars' \o barLines') = total
        BY <4>2
      <4> HIDE DEF total
      <4> QED BY <1>0, <1>1, <2>2, <4>1, <4>3
    <3> QED BY <3>1, <3>2
  <2>4. Now => Then
    <3> HIDE DEF total
    <3> QED BY <1>0, <1>1, <2>2, <2>3
  <2> HIDE DEF Now, Then
  <2> QED BY <1>2, <2>1, <2>4, Zenon
<1>7. ASSUME NEW kept \in 0 .. Len(barLines), CrashWarehouse(kept) PROVE BarsInv'
  BY <1>7 DEF CrashWarehouse, BarsInv
<1> QED BY <1>3, <1>4, <1>5, <1>6, <1>7 DEF WarehouseNext

\* Two sequences of ticks have none in common; a sequence has none twice.
Apart(s, t) == \A i \in DOMAIN s, j \in DOMAIN t : s[i] # t[j]
Distinct(s) == \A i, j \in DOMAIN s : s[i] = s[j] => i = j

\* A tick goes to ClickHouse by one way: it waits in the batch, is in one insert, or got there.
CopyInv ==
  /\ \A s \in inserting \cup {batch, rows} : s \in Seq(1 .. ticks) /\ Distinct(s)
  /\ Apart(batch, rows)
  /\ \A s \in inserting : Apart(s, batch) /\ Apart(s, rows)
  /\ \A s, t \in inserting : s = t \/ Apart(s, t)

\* Being apart goes both ways, and nothing is apart from all.
LEMMA ApartFacts ==
  ASSUME NEW s, NEW t
  PROVE  /\ Apart(s, t) => Apart(t, s)
         /\ Apart(s, <<>>) /\ Apart(<<>>, s) /\ Distinct(<<>>)
<1>1. DOMAIN <<>> = {}
  OBVIOUS
<1> QED BY <1>1 DEF Apart, Distinct

\* Sequences that are apart are joined without a repetition, and stay apart from a third.
LEMMA JoinApart ==
  ASSUME NEW s \in Seq(Nat), NEW t \in Seq(Nat), Apart(s, t), Distinct(s), Distinct(t)
  PROVE  /\ Distinct(s \o t)
         /\ \A u : Apart(u, s) /\ Apart(u, t) => Apart(u, s \o t)
<1> DEFINE m == Len(s)
           n == Len(t)
           both == s \o t
<1>1. /\ m \in Nat /\ n \in Nat /\ DOMAIN s = 1 .. m /\ DOMAIN t = 1 .. n
      /\ DOMAIN both = 1 .. m + n
      /\ \A k \in 1 .. m : both[k] = s[k]
      /\ \A k \in 1 .. m + n : k \notin 1 .. m => k - m \in 1 .. n /\ both[k] = t[k - m]
  OBVIOUS
<1> HIDE DEF m, n, both
<1>2. Distinct(both)
  <2> SUFFICES ASSUME NEW i \in 1 .. m + n, NEW j \in 1 .. m + n, both[i] = both[j] PROVE i = j
    BY <1>1 DEF Distinct
  <2>1. CASE i \in 1 .. m /\ j \in 1 .. m
    BY <1>1, <2>1 DEF Distinct
  <2>2. CASE i \notin 1 .. m /\ j \notin 1 .. m
    <3>1. /\ i - m \in DOMAIN t /\ both[i] = t[i - m]
          /\ j - m \in DOMAIN t /\ both[j] = t[j - m]
      BY <1>1, <2>2
    <3>2. i - m = j - m
      BY <3>1 DEF Distinct
    <3> QED BY <1>1, <3>2
  <2>3. CASE i \in 1 .. m /\ j \notin 1 .. m
    BY <1>1, <2>3 DEF Apart
  <2>4. CASE i \notin 1 .. m /\ j \in 1 .. m
    BY <1>1, <2>4 DEF Apart
  <2> QED BY <2>1, <2>2, <2>3, <2>4
<1>3. ASSUME NEW u, Apart(u, s), Apart(u, t) PROVE Apart(u, both)
  <2> SUFFICES ASSUME NEW i \in DOMAIN u, NEW k \in 1 .. m + n PROVE u[i] # both[k]
    BY <1>1 DEF Apart
  <2>1. CASE k \in 1 .. m
    BY <1>1, <1>3, <2>1 DEF Apart
  <2>2. CASE k \notin 1 .. m
    BY <1>1, <1>3, <2>2 DEF Apart
  <2> QED BY <2>1, <2>2
<1> QED BY <1>2, <1>3 DEF both

\* A tick later than all others is in none of their sequences.
LEMMA NewTickIsApart ==
  ASSUME NEW n \in Nat, NEW s \in Seq(1 .. n)
  PROVE  /\ s \in Seq(Nat) /\ s \in Seq(1 .. n + 1)
         /\ <<n + 1>> \in Seq(1 .. n + 1) /\ <<n + 1>> \in Seq(Nat)
         /\ Distinct(<<n + 1>>) /\ Apart(s, <<n + 1>>)
<1>1. \A i \in DOMAIN s : s[i] \in 1 .. n
  OBVIOUS
<1>2. /\ \A i \in DOMAIN s : s[i] # n + 1
      /\ 1 .. n \subseteq Nat /\ 1 .. n \subseteq 1 .. n + 1 /\ n + 1 \in 1 .. n + 1
  BY <1>1
<1>3. DOMAIN <<n + 1>> = {1} /\ <<n + 1>>[1] = n + 1
  OBVIOUS
<1>4. Distinct(<<n + 1>>) /\ Apart(s, <<n + 1>>)
  BY <1>2, <1>3 DEF Distinct, Apart
<1>5. s \in Seq(Nat) /\ s \in Seq(1 .. n + 1)
  BY <1>2
<1>6. <<n + 1>> \in Seq(1 .. n + 1) /\ <<n + 1>> \in Seq(Nat)
  BY <1>2
<1> QED BY <1>4, <1>5, <1>6

LEMMA CopyKept ==
  ASSUME WarehouseTypes, CopyInv, WarehouseNext \/ UNCHANGED warehouseVars
  PROVE  CopyInv'
<1>0. ticks \in Nat /\ 1 .. ticks \subseteq Nat
  BY DEF WarehouseTypes
<1>1. ASSUME UNCHANGED ticks, UNCHANGED <<batch, inserting, rows>> PROVE CopyInv'
  BY <1>1 DEF CopyInv
<1>2. CASE TimePasses \/ OpenWarehouse \/ FlushLoop \/ Flush \/ UNCHANGED warehouseVars
  BY <1>1, <1>2 DEF TimePasses, OpenWarehouse, FlushLoop, Flush, warehouseVars, fileVars, copyVars
<1>3. ASSUME ticks' = ticks, batch' = <<>>, rows' = rows,
             inserting' \in {inserting, inserting \cup {batch}, {}}
      PROVE  CopyInv'
  <2>1. \A s : Apart(s, <<>>) /\ Apart(<<>>, s) /\ Distinct(<<>>)
    BY ApartFacts
  <2>2. \A s \in inserting : Apart(batch, s)
    BY ApartFacts DEF CopyInv
  <2>3. <<>> \in Seq(1 .. ticks)
    OBVIOUS
  <2>4. inserting' \subseteq inserting \cup {batch}
    BY <1>3
  <2>5. \A s \in inserting' : s \in Seq(1 .. ticks) /\ Distinct(s) /\ Apart(s, rows)
    BY <2>4 DEF CopyInv
  <2>6. \A s, t \in inserting' : s = t \/ Apart(s, t)
    BY <2>2, <2>4 DEF CopyInv
  <2>7. rows \in Seq(1 .. ticks) /\ Distinct(rows)
    BY DEF CopyInv
  <2> QED BY <1>3, <2>1, <2>3, <2>5, <2>6, <2>7 DEF CopyInv
<1>4. CASE CloseWarehouse \/ TakeBatch \/ (\E kept \in 0 .. Len(barLines) : CrashWarehouse(kept))
  <2>1. ticks' = ticks /\ batch' = <<>> /\ rows' = rows
        /\ inserting' \in {inserting, inserting \cup {batch}, {}}
    BY <1>4 DEF CloseWarehouse, TakeBatch, BatchAfterTake, CrashWarehouse, fileVars
  <2> QED BY <1>3, <2>1
<1>5. ASSUME NEW ts \in {time - 1, time}, NEW volume \in {0, 1}, Write(ts, volume) PROVE CopyInv'
  <2> DEFINE new == <<ticks + 1>>
             old == inserting \cup {batch, rows}
  <2>1. ticks' = ticks + 1 /\ UNCHANGED <<inserting, rows>>
        /\ batch' = IF connected THEN Append(batch, ticks + 1) ELSE batch
    BY <1>5 DEF Write
  <2>2. \A s \in old : s \in Seq(1 .. ticks) /\ Distinct(s)
    BY DEF CopyInv
  <2>3. /\ \A s \in old : s \in Seq(Nat) /\ s \in Seq(1 .. ticks + 1) /\ Apart(s, new)
        /\ new \in Seq(Nat) /\ new \in Seq(1 .. ticks + 1) /\ Distinct(new)
    <3>1. \A s \in old : s \in Seq(Nat) /\ s \in Seq(1 .. ticks + 1) /\ Apart(s, new)
      BY <1>0, <2>2, NewTickIsApart
    <3>2. new \in Seq(Nat) /\ new \in Seq(1 .. ticks + 1) /\ Distinct(new)
      BY <1>0, <2>2, NewTickIsApart
    <3> QED BY <3>1, <3>2
  <2> HIDE DEF new
  <2>4. Distinct(batch \o new) /\ \A u : Apart(u, batch) /\ Apart(u, new) => Apart(u, batch \o new)
    BY <2>2, <2>3, JoinApart
  <2>5. Apart(rows, batch)
    BY ApartFacts DEF CopyInv
  <2>6. Apart(batch \o new, rows) /\ \A s \in inserting : Apart(s, batch \o new)
    <3>1. Apart(rows, batch \o new)
      BY <2>3, <2>4, <2>5
    <3>2. \A s \in inserting : Apart(s, batch \o new)
      BY <2>3, <2>4 DEF CopyInv
    <3> QED BY <3>1, <3>2, ApartFacts
  <2>7. batch \o new \in Seq(1 .. ticks + 1)
    BY <2>3
  <2>8. CASE batch' = batch \o new
    <3>1. \A s \in inserting' \cup {batch', rows'} : s \in Seq(1 .. ticks') /\ Distinct(s)
      BY <2>1, <2>2, <2>3, <2>4, <2>7, <2>8
    <3>2. Apart(batch', rows') /\ \A s \in inserting' : Apart(s, batch') /\ Apart(s, rows')
      BY <2>1, <2>6, <2>8 DEF CopyInv
    <3> QED BY <2>1, <3>1, <3>2 DEF CopyInv
  <2>9. CASE batch' = batch
    <3>1. \A s \in inserting' \cup {batch', rows'} : s \in Seq(1 .. ticks') /\ Distinct(s)
      BY <2>1, <2>2, <2>3, <2>9
    <3> QED BY <2>1, <2>9, <3>1 DEF CopyInv
  <2>10. Append(batch, ticks + 1) = batch \o new
    BY <2>3 DEF new
  <2> QED BY <2>1, <2>8, <2>9, <2>10
<1>6. ASSUME NEW taken \in inserting, NEW ok \in BOOLEAN, InsertDone(taken, ok) PROVE CopyInv'
  <2>1. /\ inserting' = inserting \ {taken} /\ ticks' = ticks /\ batch' = batch
        /\ rows' = IF ok THEN rows \o taken ELSE rows
    BY <1>6 DEF InsertDone, fileVars
  <2>2. /\ rows \in Seq(1 .. ticks) /\ taken \in Seq(1 .. ticks) /\ batch \in Seq(1 .. ticks)
        /\ Distinct(rows) /\ Distinct(taken) /\ Distinct(batch)
        /\ Apart(taken, rows) /\ Apart(taken, batch) /\ Apart(batch, rows)
    BY DEF CopyInv
  <2>3. rows \in Seq(Nat) /\ taken \in Seq(Nat)
    BY DEF WarehouseTypes
  <2>4. Apart(rows, taken) /\ Apart(batch, taken)
    BY <2>2, ApartFacts
  <2>5. Distinct(rows \o taken) /\ \A u : Apart(u, rows) /\ Apart(u, taken) => Apart(u, rows \o taken)
    BY <2>2, <2>3, <2>4, JoinApart
  <2>6. Apart(batch, rows \o taken)
    BY <2>2, <2>4, <2>5
  <2>7. \A s \in inserting \ {taken} : Apart(s, rows \o taken)
    BY <2>5 DEF CopyInv
  <2>8. rows \o taken \in Seq(1 .. ticks)
    BY <2>2
  <2>9. CASE rows' = rows \o taken
    <3>1. \A s \in inserting' \cup {batch', rows'} : s \in Seq(1 .. ticks') /\ Distinct(s)
      BY <2>1, <2>2, <2>5, <2>8, <2>9 DEF CopyInv
    <3>2. Apart(batch', rows') /\ \A s \in inserting' : Apart(s, batch') /\ Apart(s, rows')
      BY <2>1, <2>6, <2>7, <2>9 DEF CopyInv
    <3>3. \A s, t \in inserting' : s = t \/ Apart(s, t)
      BY <2>1 DEF CopyInv
    <3> QED BY <3>1, <3>2, <3>3 DEF CopyInv
  <2>10. CASE rows' = rows
    <3>1. inserting' \subseteq inserting /\ ticks' = ticks /\ batch' = batch
      BY <2>1
    <3> QED BY <2>10, <3>1 DEF CopyInv
  <2> QED BY <2>1, <2>9, <2>10
<1> QED BY <1>2, <1>4, <1>5, <1>6 DEF WarehouseNext

\* The files, the bars, the manifest and the ClickHouse copy agree with the ticks written,
\* across flushes, closes, crashes and reopenings: what a reader of the file finds, in its
\* order and how far from its times, the volume in the bars, what a close writes into the
\* manifest, and that no row goes to ClickHouse twice (OHLCVAggregator, TickWarehouse, TickWarehouseClickHouse).
THEOREM WarehouseKeepsTicks == WarehouseSpec => []WarehouseIsSound
<1> DEFINE Inv == WarehouseTypes /\ FileInv /\ BarsInv /\ CopyInv
<1>1. WarehouseInit => Inv
  <2> SUFFICES ASSUME WarehouseInit PROVE Inv
    OBVIOUS
  <2> USE DEF WarehouseInit
  <2>1. WarehouseTypes
    BY NoBarIsBar DEF WarehouseTypes, NoWriter
  <2>2. Stream = <<>> /\ bars \o barLines = <<>>
    BY DEF Stream
  <2>3. FileInv
    BY <2>2 DEF FileInv, StreamIsWritten, DeltasAreKept, FirstWriter, ClosedIsEmpty, CleanIsClosed, NoWriter
  <2>4. BarsInv
    BY <2>2, BarAdds DEF BarsInv, NoBar
  <2>5. CopyInv
    <3>1. batch = <<>> /\ rows = <<>> /\ inserting = {} /\ <<>> \in Seq(1 .. ticks)
      OBVIOUS
    <3> QED BY <3>1, ApartFacts DEF CopyInv
  <2> QED BY <2>1, <2>3, <2>4, <2>5
<1>2. Inv /\ [WarehouseNext]_warehouseVars => Inv'
  BY TypesKept, FileKept, BarsKept, CopyKept
<1>3. Inv => WarehouseIsSound
  <2> SUFFICES ASSUME Inv PROVE WarehouseIsSound
    OBVIOUS
  <2>1. TicksReadBack
    <3>1. opens <= 1 =>
            /\ \A i \in DOMAIN records : 2 * (written[i].ts - Ms * ReadTime(i)) <= (i + 1) * Ms
            /\ (\A i, j \in DOMAIN records : i <= j => start <= written[i].ts /\ written[i].ts <= written[j].ts)
                 => \A i \in DOMAIN records : 2 * (Ms * ReadTime(i) - written[i].ts) <= (i + 1) * Ms
      BY TimesReadBack DEF FileInv
    <3>2. [i \in DOMAIN Stream |-> Stream[i].id] = [i \in DOMAIN written |-> written[i].id]
      <4>1. Stream \in Seq(RecordOfFile) /\ written \in Seq(TickOfFile)
        BY DEF WarehouseTypes, Stream
      <4>2. DOMAIN Stream = 1 .. Len(written) /\ DOMAIN written = 1 .. Len(written)
        BY <4>1 DEF FileInv, StreamIsWritten
      <4>3. \A i \in 1 .. Len(written) : Stream[i].id = written[i].id
        BY DEF FileInv, StreamIsWritten
      <4> QED BY <4>2, <4>3
    <3> QED BY <3>1, <3>2, Zenon DEF TicksReadBack, Stream
  <2>2. ManifestIsExact
    BY DEF FileInv, CleanIsClosed, ClosedIsEmpty, ManifestIsExact
  <2>3. BarsCountEveryTrade
    <3>1. bars \o barLines \in Seq(BarLine)
      BY DEF WarehouseTypes
    <3>2. IsFiniteSet(DOMAIN (bars \o barLines))
      <4>1. DOMAIN (bars \o barLines) = 1 .. Len(bars \o barLines) /\ Len(bars \o barLines) \in Nat
        BY <3>1
      <4> QED BY <4>1, FS_Interval
    <3>3. FoldSeq(LAMBDA b, sum : b.volume + sum, 0, bars \o barLines) = BarTotal(bars \o barLines)
      BY <3>2, FoldIsBarTotal
    <3> QED BY <3>3, Zenon DEF BarsInv, BarsCountEveryTrade
  <2>4. RowsOnce
    BY DEF CopyInv, RowsOnce, Distinct, Apart
  <2> QED BY <2>1, <2>2, <2>3, <2>4 DEF WarehouseIsSound
<1> HIDE DEF Inv
<1> QED BY <1>1, <1>2, <1>3, PTL DEF WarehouseSpec

=============================================================================
