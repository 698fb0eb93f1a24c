--------------------------- MODULE ChangeControl ----------------------------
(***************************************************************************)
(* How a change reaches the list of approved setups: the post-session      *)
(* review proposes (agents/agent_14_post_session_review.py), a human       *)
(* decides (agents/agent_16_human_governance.py), edge research validates  *)
(* and publishes (agents/agent_00_edge_research.py), and the state store   *)
(* keeps the proposals (infrastructure/state_store.py).                    *)
(*                                                                         *)
(* A decision of an operator is two steps, around the write to the store;  *)
(* so is a validation, around the language model.  CHANGE_PROPOSALs that   *)
(* were published stay in a set: they are delivered late, again or never.  *)
(***************************************************************************)
EXTENDS Naturals, Sequences, FiniteSets

CONSTANTS
  Proposals,    \* proposal ids
  Kind,         \* proposal -> "tweak", "modify", "add" or "retire"
  SetupOf,      \* proposal -> the setup it is about
  Operators,    \* concurrent uses of the governance interface
  Validators,   \* concurrent handler tasks of edge research
  MaxVersion,   \* bound: versions of the setup list
  MaxEdgeStarts \* bound: restarts of edge research

ASSUME ChangeAssumption ==
  /\ "none" \notin Proposals
  /\ \A p \in Proposals : Kind[p] \in {"tweak", "modify", "add", "retire"}
  /\ MaxVersion \in Nat /\ MaxEdgeStarts \in Nat

VARIABLES
  db,         \* change_proposals: proposal -> status
  proposed,   \* CHANGE_PROPOSALs published: proposal and status
  pendingHgl, \* _pending_proposals of the governance layer
  deciding,   \* operator -> the decision under way
  setupList,  \* _approved_list.setups, in order
  version,    \* _approved_list.version
  validating, \* validator -> the proposal that is with the model
  edgeStarts, \* restarts so far
  approvals,  \* history: proposals some operator approved
  retirements \* history: setups retired

governance == <<pendingHgl, deciding, approvals>>
edge == <<setupList, version, validating, edgeStarts, retirements>>
changeVars == <<db, proposed, governance, edge>>

Undecided == [p |-> "none"]

-----------------------------------------------------------------------------
ChangeInit ==
  /\ db = [p \in Proposals |-> "none"]
  /\ proposed = {}
  /\ pendingHgl = {}
  /\ deciding = [o \in Operators |-> Undecided]
  /\ setupList = <<>> /\ version = 1
  /\ validating = [v \in Validators |-> "none"]
  /\ edgeStarts = 0
  /\ approvals = {} /\ retirements = {}

\* _generate_proposals and _submit_proposal.
SubmitProposal(p) ==
  /\ db[p] = "none"
  /\ db' = [db EXCEPT ![p] = "awaiting"]
  /\ proposed' = proposed \cup {[p |-> p, status |-> "awaiting"]}
  /\ UNCHANGED <<governance, edge>>

-----------------------------------------------------------------------------
(* The governance layer. *)

\* _handle_proposal: a copy that awaits a decision, be it decided by now.
\* An operator in the middle of a decision keeps the object it had.
ReceiveProposal(p) ==
  /\ [p |-> p, status |-> "awaiting"] \in proposed
  /\ pendingHgl' = pendingHgl \cup {p}
  /\ deciding' = [o \in Operators |->
                   IF deciding[o].p = p THEN [deciding[o] EXCEPT !.shared = FALSE] ELSE deciding[o]]
  /\ UNCHANGED <<db, proposed, approvals, edge>>

\* load_pending_proposals: everything that is not final.
InStore == {p \in Proposals : db[p] \notin {"none", "rejected", "edge_failed"}}

\* The status is set on the object, which decisions under way share, and
\* written to the store.
SetStatus(o, p, status, shared) ==
  /\ deciding[o] = Undecided
  /\ deciding' = [q \in Operators |->
       IF q = o THEN [p |-> p, status |-> status, shared |-> shared]
       ELSE IF shared /\ deciding[q].p = p /\ deciding[q].shared
            THEN [deciding[q] EXCEPT !.status = status]
            ELSE deciding[q]]
  /\ db' = [db EXCEPT ![p] = status]
  /\ UNCHANGED <<proposed, pendingHgl, edge>>

\* approve_proposal looks in its table, then in the store.
ApproveProposal(o, p) ==
  /\ p \in pendingHgl \/ p \in InStore
  /\ SetStatus(o, p, "approved", p \in pendingHgl)
  /\ approvals' = approvals \cup {p}

\* reject_proposal looks in its table only.
RejectProposal(o, p) ==
  /\ p \in pendingHgl
  /\ SetStatus(o, p, "rejected", TRUE)
  /\ UNCHANGED approvals

\* Behind the write: the proposal leaves the table, and an approval publishes
\* the object as it is now.
FinishDecision(o, publishes) ==
  /\ deciding[o] # Undecided
  /\ pendingHgl' = pendingHgl \ {deciding[o].p}
  /\ proposed' = IF publishes
                 THEN proposed \cup {[p |-> deciding[o].p, status |-> deciding[o].status]}
                 ELSE proposed
  /\ deciding' = [deciding EXCEPT ![o] = Undecided]
  /\ UNCHANGED <<db, approvals, edge>>

-----------------------------------------------------------------------------
(* Edge research. *)

Entries == {setupList[i] : i \in 1 .. Len(setupList)}
IsApproved(s) == [setup |-> s, retired |-> FALSE] \in Entries
Place(s) == CHOOSE i \in 1 .. Len(setupList) :
              setupList[i].setup = s /\ \A j \in 1 .. i - 1 : setupList[j].setup # s
ActivePlace(s) == CHOOSE i \in 1 .. Len(setupList) :
                    /\ setupList[i] = [setup |-> s, retired |-> FALSE]
                    /\ \A j \in 1 .. i - 1 : setupList[j] # setupList[i]

\* Mutant: every proposal that arrives is validated.
ForEdgeAny(m) == TRUE

\* "Only processes proposals with status HGL_APPROVED."
ForEdge(m) == m.status = "approved"

\* _reject_proposal, _accept_proposal: the status goes to the store.
Rejected(p) == [db EXCEPT ![p] = "edge_failed"]
Accepted(p) == [db EXCEPT ![p] = "edge_passed"]

\* process, up to the language model.  enough: the sample count suffices.
BeginValidation(v, m, enough) ==
  /\ validating[v] = "none" /\ m \in proposed /\ ForEdge(m)
  /\ Kind[m.p] # "retire"
  /\ IF enough /\ ~(Kind[m.p] = "add" /\ IsApproved(SetupOf[m.p]))
     THEN validating' = [validating EXCEPT ![v] = m.p] /\ UNCHANGED db
     ELSE db' = Rejected(m.p) /\ UNCHANGED validating
  /\ UNCHANGED <<proposed, governance, setupList, version, edgeStarts, retirements>>

\* _handle_setup_retirement: the first entry that is active is retired.
RetireSetup(m) ==
  /\ m \in proposed /\ ForEdge(m)
  /\ Kind[m.p] = "retire" /\ version < MaxVersion
  /\ setupList' = IF IsApproved(SetupOf[m.p])
                  THEN [setupList EXCEPT ![ActivePlace(SetupOf[m.p])].retired = TRUE]
                  ELSE setupList
  /\ version' = version + 1
  /\ db' = Accepted(m.p)
  /\ retirements' = IF IsApproved(SetupOf[m.p]) THEN retirements \cup {SetupOf[m.p]} ELSE retirements
  /\ UNCHANGED <<proposed, governance, validating, edgeStarts>>

\* The list after a validation: a tweak changes figures only, an addition is
\* appended, a modification replaces the first entry of its setup.
Applied(p) ==
  LET s == SetupOf[p]
      new == [setup |-> s, retired |-> FALSE]
  IN  CASE Kind[p] = "tweak" -> setupList
        [] Kind[p] = "add" -> Append(setupList, new)
        [] Kind[p] = "modify" -> IF \E e \in Entries : e.setup = s
                                 THEN [setupList EXCEPT ![Place(s)] = new]
                                 ELSE Append(setupList, new)

\* The model's answer passes; the list is replaced, saved and published.
ValidationPasses(v) ==
  /\ validating[v] # "none" /\ version < MaxVersion
  /\ setupList' = Applied(validating[v])
  /\ version' = version + 1
  /\ db' = Accepted(validating[v])
  /\ validating' = [validating EXCEPT ![v] = "none"]
  /\ UNCHANGED <<proposed, governance, edgeStarts, retirements>>

\* _llm_analyze_expectancy answers that the edge or the Monte Carlo run fails,
\* as it does when the model raises.
ValidationFails(v) ==
  /\ validating[v] # "none"
  /\ db' = Rejected(validating[v])
  /\ validating' = [validating EXCEPT ![v] = "none"]
  /\ UNCHANGED <<proposed, governance, setupList, version, edgeStarts, retirements>>

\* _load_setup_list: the list was saved as a proposal with status "live", which
\* load_pending_proposals leaves out; so the agent begins with no setups.
ListAtStart == <<>>

\* _check_rolling_expectancy: what lost its edge is retired.
AfterRollingCheck(list, losing) ==
  [i \in DOMAIN list |-> [list[i] EXCEPT !.retired = @ \/ list[i].setup \in losing]]

\* on_startup.
RestartEdge(losing) ==
  /\ edgeStarts < MaxEdgeStarts
  /\ edgeStarts' = edgeStarts + 1
  /\ setupList' = AfterRollingCheck(ListAtStart, losing) /\ version' = 1
  /\ validating' = [v \in Validators |-> "none"]
  /\ UNCHANGED <<db, proposed, governance, retirements>>

-----------------------------------------------------------------------------
ChangeNext ==
  \/ \E p \in Proposals : SubmitProposal(p) \/ ReceiveProposal(p)
  \/ \E o \in Operators, p \in Proposals : ApproveProposal(o, p) \/ RejectProposal(o, p)
  \/ \E o \in Operators, publishes \in BOOLEAN : FinishDecision(o, publishes)
  \/ \E m \in proposed : RetireSetup(m)
  \/ \E v \in Validators, m \in proposed, enough \in BOOLEAN : BeginValidation(v, m, enough)
  \/ \E v \in Validators : ValidationPasses(v) \/ ValidationFails(v)
  \/ \E losing \in SUBSET {SetupOf[p] : p \in Proposals} : RestartEdge(losing)

ChangeSpec == ChangeInit /\ [][ChangeNext]_changeVars

-----------------------------------------------------------------------------
(* Properties. *)

\* "Nothing crosses it without passing": whatever the races between operators,
\* stale copies and validators, an active setup was put on the list by a
\* proposal a human approved.
SetupHasApproval ==
  \A e \in Entries : ~e.retired =>
    \E p \in approvals : SetupOf[p] = e.setup /\ Kind[p] \in {"add", "modify"}

\* "Retired setups are permanently blocked": a setup that was retired is not
\* active again.
RetiredForGood ==
  \A s \in retirements : ~IsApproved(s)
=============================================================================
