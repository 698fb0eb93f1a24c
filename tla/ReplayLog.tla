----------------------------- MODULE ReplayLog ------------------------------
(***************************************************************************)
(* The shadow replay engine (agents/agent_18_shadow_replay.py): it records *)
(* every message of the bus in a database and in a text file, and replays  *)
(* a recorded session on request, one event at a time, while recording     *)
(* goes on.  A request waits for a lock.                                   *)
(***************************************************************************)
EXTENDS Naturals, Integers, Sequences, FiniteSets

CONSTANTS
  Events,      \* message ids, positive numbers; their order is that of the ids
  Stamp,       \* message -> its timestamp
  Pnl,         \* message -> net_pnl of a TRADE_CLOSED
  Recorders,   \* concurrent tasks of _record_event
  Requests,    \* replay requests
  Mode,        \* request -> "baseline", "candidate", "a_side" or "b_side"
  MaxDoubled   \* bound: messages delivered a second time

ASSUME ReplayAssumption ==
  /\ Events \subseteq Nat \ {0} /\ Stamp \in [Events -> Nat] /\ Pnl \in [Events -> Int]
  /\ Mode \in [Requests -> {"baseline", "candidate", "a_side", "b_side"}]

VARIABLES
  session,    \* rows of session_events
  lines,      \* the JSONL file: ids in the order written
  recording,  \* recorder -> the message between commit and file; 0 for none
  lockHeld,   \* _replay_lock: the request that holds it, or "none"
  loaded,     \* the events of the replay that runs
  position,   \* events replayed so far in this pass
  context,    \* ReplayContext: current, peak, drawdown, trades
  results,    \* summaries of the passes done
  answers     \* request -> its REPLAY_REPORT

recorder == <<session, lines, recording>>
replay == <<loaded, position, context, results>>
replayVars == <<recorder, lockHeld, replay, answers>>

FreshContext == [current |-> 0, peak |-> 0, drawdown |-> 0, trades |-> 0]
NoAnswer == [status |-> "none"]

ReplayInit ==
  /\ session = {} /\ lines = <<>>
  /\ recording = [r \in Recorders |-> 0]
  /\ lockHeld = "none" /\ loaded = <<>> /\ position = 0
  /\ context = FreshContext /\ results = <<>>
  /\ answers = [q \in Requests |-> NoAnswer]

-----------------------------------------------------------------------------
\* Mutant: two messages of the same instant are taken for one.
InsertedByTime(e) == IF \E f \in session : Stamp[f] = Stamp[e] THEN session ELSE session \cup {e}

\* INSERT OR IGNORE by message id.
Inserted(e) == session \cup {e}

\* _record_event up to the commit.
RecordEvent(r, e) ==
  /\ recording[r] = 0
  /\ e \in session => Len(lines) < Cardinality(Events) + MaxDoubled
  /\ session' = Inserted(e)
  /\ recording' = [recording EXCEPT ![r] = e]
  /\ UNCHANGED <<lines, lockHeld, replay, answers>>

\* The line of the text file, also for a message the database ignored.
WriteLine(r) ==
  /\ recording[r] # 0
  /\ lines' = Append(lines, recording[r])
  /\ recording' = [recording EXCEPT ![r] = 0]
  /\ UNCHANGED <<session, lockHeld, replay, answers>>

-----------------------------------------------------------------------------
\* Mutant: the rows come in the order of their ids.
EarlierById(a, b) == a < b

\* ORDER BY timestamp, event_id.
Earlier(a, b) == Stamp[a] < Stamp[b] \/ (Stamp[a] = Stamp[b] /\ a < b)

Sorted(S) ==
  [i \in 1 .. Cardinality(S) |-> CHOOSE e \in S : Cardinality({f \in S : Earlier(f, e)}) = i - 1]

\* The halves of _run_replay.
Side(mode, events) ==
  LET half == Len(events) \div 2 IN
  CASE mode = "a_side" -> SubSeq(events, 1, half)
    [] mode = "b_side" -> SubSeq(events, half + 1, Len(events))
    [] OTHER -> events

\* _handle_replay_request gets the lock; an empty session is an error.  Every
\* checksum fits, for payload and checksum are written in one row.
BeginReplay(q) ==
  /\ answers[q] = NoAnswer /\ lockHeld = "none"
  /\ IF session = {}
     THEN /\ answers' = [answers EXCEPT ![q] = [status |-> "failed"]]
          /\ UNCHANGED <<lockHeld, replay>>
     ELSE /\ lockHeld' = q
          /\ loaded' = Side(Mode[q], Sorted(session))
          /\ position' = 0 /\ context' = FreshContext /\ results' = <<>>
          /\ UNCHANGED answers
  /\ UNCHANGED recorder

Larger(a, b) == IF a > b THEN a ELSE b

\* record_trade_closed.
AfterTrade(c, pnl) ==
  LET now == c.current + pnl
      peak == Larger(c.peak, now)
  IN  [current |-> now, peak |-> peak, drawdown |-> Larger(c.drawdown, peak - now),
       trades |-> c.trades + 1]

\* One event of _replay_pass; sleep(0) lets the recorder run behind it.
ReplayEvent ==
  /\ lockHeld # "none" /\ position < Len(loaded)
  /\ context' = AfterTrade(context, Pnl[loaded[position + 1]])
  /\ position' = position + 1
  /\ UNCHANGED <<recorder, lockHeld, loaded, results, answers>>

\* A pass is over; every mode but the baseline has a second one.
EndPass ==
  /\ lockHeld # "none" /\ position = Len(loaded)
  /\ Mode[lockHeld] # "baseline" /\ results = <<>>
  /\ results' = <<context>>
  /\ context' = FreshContext /\ position' = 0
  /\ UNCHANGED <<recorder, lockHeld, loaded, answers>>

\* ReplayReport: the baseline's summary and the candidate's, which the
\* configuration under test does not enter.
ReportOf(base, candidate) ==
  [status |-> "completed", events |-> session, baseline |-> base, candidate |-> candidate]

\* The last pass is over.
PublishReport ==
  /\ lockHeld # "none" /\ position = Len(loaded)
  /\ Mode[lockHeld] = "baseline" \/ results # <<>>
  /\ answers' = [answers EXCEPT ![lockHeld] =
                  ReportOf(IF results = <<>> THEN context ELSE results[1], context)]
  /\ lockHeld' = "none"
  /\ loaded' = <<>> /\ position' = 0 /\ context' = FreshContext /\ results' = <<>>
  /\ UNCHANGED recorder

ReplayNext ==
  \/ \E r \in Recorders : WriteLine(r) \/ \E e \in Events : RecordEvent(r, e)
  \/ \E q \in Requests : BeginReplay(q)
  \/ ReplayEvent \/ EndPass \/ PublishReport

ReplaySpec == ReplayInit /\ [][ReplayNext]_replayVars

-----------------------------------------------------------------------------
(* Properties. *)

SumOf(events) ==
  LET sum[i \in 0 .. Len(events)] == IF i = 0 THEN 0 ELSE sum[i - 1] + Pnl[events[i]]
  IN  sum[Len(events)]

\* Largest loss between two points of the session, the opening included.
DrawdownOf(events) ==
  CHOOSE d \in {SumOf(SubSeq(events, i + 1, j)) * (-1) : i, j \in 0 .. Len(events)} :
    \A i, j \in 0 .. Len(events) : d >= (-1) * SumOf(SubSeq(events, i + 1, j))

ByTime(S) ==
  [i \in 1 .. Cardinality(S) |->
     CHOOSE e \in S : Cardinality({f \in S : \/ Stamp[f] < Stamp[e]
                                             \/ Stamp[f] = Stamp[e] /\ f < e}) = i - 1]

\* "Deterministic offline replay": a report for the whole session is what the
\* definition of profit and drawdown gives for some of the recorded events in
\* the order of time, whatever was recorded, doubled or late while the replay
\* ran; and both passes agree.
ReplayIsExact ==
  \A q \in Requests : answers[q].status = "completed" =>
    /\ answers[q].baseline = answers[q].candidate
    /\ \E S \in SUBSET answers[q].events :
         LET half == Cardinality(S) \div 2
             events == CASE Mode[q] = "a_side" -> SubSeq(ByTime(S), 1, half)
                         [] Mode[q] = "b_side" -> SubSeq(ByTime(S), half + 1, Cardinality(S))
                         [] OTHER -> ByTime(S)
         IN  /\ S # {}
             /\ answers[q].baseline.current = SumOf(events)
             /\ answers[q].baseline.drawdown = DrawdownOf(events)
             /\ answers[q].baseline.trades = Len(events)

\* Database and file tell the same session: what is missing in the file is in
\* a recorder's hands, and the file has nothing the database lacks.
FileMatchesDatabase ==
  /\ \A i \in 1 .. Len(lines) : lines[i] \in session
  /\ \A e \in session : (\E i \in 1 .. Len(lines) : lines[i] = e) \/ (\E r \in Recorders : recording[r] = e)

\* A session is recorded alike in both places and replayed exactly, while
\* recording and other replays go on.
ReplayIsFaithful == ReplayIsExact /\ FileMatchesDatabase

=============================================================================
