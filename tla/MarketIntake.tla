---------------------------- MODULE MarketIntake ----------------------------
(***************************************************************************)
(* What a signal rests on: the universe of symbols                         *)
(* (agents/agent_01_market_universe.py), the regime                        *)
(* (agents/agent_02_market_regime.py), the integrity of the feed           *)
(* (agents/agent_03_data_integrity.py), and the scan that combines them    *)
(* (agents/agent_04_micro_signal.py).                                      *)
(*                                                                         *)
(* The scanning agent tests regime and feed when a scan of all symbols     *)
(* begins, and setup and regime again when the language model's answer for *)
(* a symbol is there; messages change all of them in between.              *)
(* REGIME_UPDATEs stay in a set (delivered late, again or never);          *)
(* FEED_STATUS reports are a queue from which other subscribers may take   *)
(* (see FanOut).                                                           *)
(***************************************************************************)
EXTENDS Naturals, Sequences, FiniteSets

CONSTANTS
  Listings,       \* screening results: symbol, order, fails, catalyst, volume
  FeedSymbols,    \* symbols the feed may be subscribed to
  TickStates,     \* what the feed shows of a symbol; see Anomalies
  SetupMap,       \* _REGIME_SETUP_MAP: regime label -> set of setups
  Setups,         \* setup types
  Required,       \* _CLEAN_CONSECUTIVE_REQUIRED
  MaxSymbols,     \* max_active_symbols
  MinSymbols,     \* min_active_symbols
  StarveLimit,    \* starvation_check_consecutive_sessions
  MaxReportsQ     \* bound: FEED_STATUS reports in the queue

ASSUME IntakeAssumption ==
  /\ Required \in Nat \ {0} /\ MaxSymbols \in Nat /\ StarveLimit \in Nat
  /\ "highvol" \in DOMAIN SetupMap /\ SetupMap["highvol"] = {}

\* A screening is a finite list that names a symbol once, as the prompt asks
\* for; order is the place in it.
ASSUME ListingAssumption ==
  /\ IsFiniteSet(Listings)
  /\ \A a \in Listings : a.order \in Nat /\ a.volume \in Nat /\ a.catalyst \in BOOLEAN
  /\ \A a, b \in Listings : a.sym = b.sym \/ a.order = b.order => a = b

VARIABLES
  universe,     \* approved symbols of the UniverseSnapshot; "none" before
  screened,     \* history: the listings it was built from
  dry,          \* _signal_starvation_consecutive_sessions
  starved,      \* a STARVATION_ALERT was published
  assessment,   \* agent 2: _current_assessment
  regimes,      \* REGIME_UPDATEs published
  lastSeq,      \* agent 3: _last_sequence
  feedClean,    \* agent 3: _feed_clean
  cleanChecks,  \* agent 3: _consecutive_clean_checks, counted up to Required
  outcomes,     \* history: outcomes of the last Required checks
  feedQ,        \* FEED_STATUS reports under way
  seesClean,    \* agent 4: _feed_clean
  seesRegime,   \* agent 4: _current_regime
  approvedSetups, \* agent 4: _approved_setups
  toScan,       \* agent 4: the symbols this scan has still to look at
  scanning,     \* agent 4: the symbol whose pattern is with the model
  emitted       \* the last CANDIDATE_SIGNAL: setup and regime label

universeVars == <<universe, screened, dry, starved>>
feedVars == <<lastSeq, feedClean, cleanChecks, outcomes>>
scanVars == <<seesClean, seesRegime, approvedSetups, toScan, scanning, emitted>>
intakeVars == <<universeVars, assessment, regimes, feedVars, feedQ, scanVars>>

Labels == DOMAIN SetupMap
Tradeable == {l \in Labels : SetupMap[l] # {}}
NoRegime == [label |-> "none", allowed |-> {}]
NotYet == {"none"}

-----------------------------------------------------------------------------
\* The integrity agent publishes HALTED before anything was verified.
IntakeInit ==
  /\ universe = NotYet /\ screened = {} /\ dry = 0 /\ starved = FALSE
  /\ assessment = NoRegime /\ regimes = {}
  /\ lastSeq = [s \in FeedSymbols |-> 0]
  /\ feedClean = FALSE /\ cleanChecks = 0 /\ outcomes = <<>>
  /\ feedQ = <<"HALTED">>
  /\ seesClean = FALSE /\ seesRegime = NoRegime
  /\ approvedSetups = NotYet
  /\ toScan = {} /\ scanning = "none"
  /\ emitted = NoRegime

-----------------------------------------------------------------------------
(* Agent 1. *)

\* Mutant: two symbols alike are each ahead of the other.
AheadOrAlike(a, b) ==
  \/ a.catalyst /\ ~b.catalyst
  \/ a.catalyst = b.catalyst /\ a.volume >= b.volume /\ a # b

\* The order of _apply_cap: catalysts first, then volume; the sort is stable.
Ahead(a, b) ==
  \/ a.catalyst /\ ~b.catalyst
  \/ /\ a.catalyst = b.catalyst
     /\ a.volume > b.volume \/ (a.volume = b.volume /\ a.order < b.order)

\* _apply_filters; fails: float, volume, spread or halts speak against it.
Passing(listed) == {a \in listed : ~a.fails}

Capped(passing) == {a \in passing : Cardinality({b \in passing : Ahead(b, a)}) < MaxSymbols}

\* _screen_candidates and _classify_symbol: the language model names symbols
\* and what is known of them, and none at all when the call fails.
Screenings == SUBSET Listings

\* _starvation_check counts the universes in a row that were too small; the
\* counts from the limit on are alike.
DryCount(kept) ==
  IF Cardinality(kept) >= MinSymbols THEN 0 ELSE IF dry < StarveLimit THEN dry + 1 ELSE dry

\* _build_and_publish_universe at startup, every half hour and after a regime
\* flip.
BuildUniverse(listed) ==
  LET kept == Capped(Passing(listed))
  IN  /\ dry' = DryCount(kept)
      /\ starved' = (Cardinality(kept) < MinSymbols /\ dry' >= StarveLimit)
      /\ universe' = {a.sym : a \in kept}
      /\ screened' = listed
      /\ UNCHANGED <<assessment, regimes, feedVars, feedQ, scanVars>>

-----------------------------------------------------------------------------
(* Agent 2. *)

\* Mutant: the override changes the label and keeps the setups.
AssessedLabelOnly(label, raw, vixHigh) ==
  [label |-> IF vixHigh THEN "highvol" ELSE label, allowed |-> raw \cap SetupMap[label]]

\* _llm_classify_regime: the model's setups count as far as the canonical map
\* has them, the map stands in when none is left, and the VIX beats the label.
\* An unknown label or an exception is the label highvol.
Assessed(label, raw, vixHigh) ==
  IF vixHigh \/ label \notin Tradeable
  THEN [label |-> IF label \in Tradeable THEN "highvol" ELSE label, allowed |-> {}]
  ELSE [label |-> label,
        allowed |-> IF raw \cap SetupMap[label] # {} THEN raw \cap SetupMap[label]
                                                     ELSE SetupMap[label]]

\* _classify_and_publish and _apply_assessment.
ClassifyRegime(label, raw, vixHigh) ==
  /\ assessment' = Assessed(label, raw, vixHigh)
  /\ regimes' = regimes \cup {assessment'}
  /\ UNCHANGED <<universeVars, feedVars, feedQ, scanVars>>

-----------------------------------------------------------------------------
(* Agent 3. *)

\* _check_symbol and _check_sequence_gaps for one symbol.
Anomalies(s, tick) ==
  (IF tick.fresh THEN {} ELSE {"STALE_TICK"})
  \cup (IF tick.crossed THEN {"CROSSED_MARKET"} ELSE {})
  \cup (IF tick.book THEN {} ELSE {"MISSING_L2"})
  \cup (IF lastSeq[s] > 0 /\ tick.seq > lastSeq[s] + 1 THEN {"OUT_OF_SEQUENCE"} ELSE {})

Severity(anomalies) ==
  IF anomalies \cap {"CROSSED_MARKET", "OUT_OF_SEQUENCE"} # {} THEN "HALTED" ELSE "DEGRADED"

Remembered(outcome) ==
  LET all == Append(outcomes, outcome)
  IN  IF Len(all) > Required THEN Tail(all) ELSE all

Sent(status) == Append(feedQ, status)

\* _handle_feed_clean is due: nothing was found for long enough.
FeedCleanDue(found, count) == found = {} /\ count >= Required /\ ~feedClean

\* Mutant: a round without symbols leaves the count as it is.
CountWithoutSymbolsKept == cleanChecks

CountWithoutSymbols == 0

\* _run_checks without subscriptions.
CheckNothing ==
  /\ cleanChecks' = CountWithoutSymbols
  /\ outcomes' = Remembered("nothing")
  /\ UNCHANGED <<universeVars, assessment, regimes, lastSeq, feedClean, feedQ, scanVars>>

\* _run_checks; ticks: what the feed shows of the subscribed symbols.
RunChecks(ticks) ==
  LET found == UNION {Anomalies(s, ticks[s]) : s \in DOMAIN ticks}
      count == IF cleanChecks < Required THEN cleanChecks + 1 ELSE cleanChecks
      opens == FeedCleanDue(found, count)
      closes == found # {} /\ feedClean
  IN  /\ opens \/ closes => Len(feedQ) < MaxReportsQ
      /\ lastSeq' = [s \in FeedSymbols |-> IF s \in DOMAIN ticks /\ ticks[s].seq > 0
                                          THEN ticks[s].seq ELSE lastSeq[s]]
      /\ cleanChecks' = IF found = {} THEN count ELSE 0
      /\ feedClean' = IF opens THEN TRUE ELSE IF closes THEN FALSE ELSE feedClean
      /\ feedQ' = IF opens THEN Sent("CLEAN") ELSE IF closes THEN Sent(Severity(found)) ELSE feedQ
      /\ outcomes' = Remembered(IF found = {} THEN "clean" ELSE "anomaly")
      /\ UNCHANGED <<universeVars, assessment, regimes, scanVars>>

\* _feed_heartbeat_loop: a halted feed is reported as degraded.
FeedHeartbeat ==
  /\ Len(feedQ) < MaxReportsQ
  /\ feedQ' = Sent(IF feedClean THEN "CLEAN" ELSE "DEGRADED")
  /\ UNCHANGED <<universeVars, assessment, regimes, feedVars, scanVars>>

\* A report goes to a task of another subscriber.
ReportTakenElsewhere ==
  /\ feedQ # <<>>
  /\ feedQ' = Tail(feedQ)
  /\ UNCHANGED <<universeVars, assessment, regimes, feedVars, scanVars>>

-----------------------------------------------------------------------------
(* Agent 4. *)

TakeFeedStatus ==
  /\ feedQ # <<>>
  /\ seesClean' = (Head(feedQ) = "CLEAN")
  /\ feedQ' = Tail(feedQ)
  /\ UNCHANGED <<universeVars, assessment, regimes, feedVars, seesRegime, approvedSetups,
                 toScan, scanning, emitted>>

TakeRegime(r) ==
  /\ r \in regimes
  /\ seesRegime' = r
  /\ UNCHANGED <<universeVars, assessment, regimes, feedVars, feedQ, seesClean, approvedSetups,
                 toScan, scanning, emitted>>

TakeSetups(approved) ==
  /\ approvedSetups' = approved
  /\ UNCHANGED <<universeVars, assessment, regimes, feedVars, feedQ, seesClean, seesRegime,
                 toScan, scanning, emitted>>

\* The scan goes on through the symbols that are left: it passes over those that have
\* a position, or whose ticks and bars do not do, and waits for the language model
\* about another one.
GoesOn(left) ==
  \/ toScan' = {} /\ scanning' = "none"
  \/ \E rest \in SUBSET left : toScan' = rest /\ scanning' \in left \ rest

\* _run_one_scan: the gates are tested once, and the scan goes through the symbols
\* of the universe as it is now.  (The snapshot of the universe reaches the agent
\* like the other messages.)
BeginScan ==
  /\ scanning = "none"
  /\ seesClean
  /\ seesRegime.label \in Tradeable
  /\ approvedSetups # NotYet /\ universe # NotYet
  /\ GoesOn(universe)
  /\ UNCHANGED <<universeVars, assessment, regimes, feedVars, feedQ, seesClean, seesRegime,
                 approvedSetups, emitted>>

\* The approved-setup gate and the regime gate behind the model's answer.
MayEmit(setup) == setup \in approvedSetups /\ setup \in seesRegime.allowed

\* _scan_symbol: the model's answer passed the 2:1 floor, and the candidate is
\* published.
EmitCandidate(setup) ==
  /\ scanning # "none"
  /\ MayEmit(setup)
  /\ emitted' = [label |-> seesRegime.label, allowed |-> {setup}]
  /\ GoesOn(toScan)
  /\ UNCHANGED <<universeVars, assessment, regimes, feedVars, feedQ, seesClean, seesRegime, approvedSetups>>

\* No pattern, an incomplete one, or a gate is closed by now.
ScanWithoutSignal ==
  /\ scanning # "none"
  /\ GoesOn(toScan)
  /\ UNCHANGED <<universeVars, assessment, regimes, feedVars, feedQ, seesClean, seesRegime, approvedSetups,
                 emitted>>

-----------------------------------------------------------------------------
IntakeNext ==
  \/ \E listed \in Screenings : BuildUniverse(listed)
  \/ \E label \in Labels, raw \in SUBSET Setups, vixHigh \in BOOLEAN : ClassifyRegime(label, raw, vixHigh)
  \/ CheckNothing
  \/ \E subscribed \in SUBSET FeedSymbols \ {{}} : \E ticks \in [subscribed -> TickStates] : RunChecks(ticks)
  \/ FeedHeartbeat \/ ReportTakenElsewhere
  \/ TakeFeedStatus
  \/ \E r \in regimes : TakeRegime(r)
  \/ \E approved \in SUBSET Setups : TakeSetups(approved)
  \/ BeginScan
  \/ \E setup \in Setups : EmitCandidate(setup)
  \/ ScanWithoutSignal

IntakeSpec == IntakeInit /\ [][IntakeNext]_intakeVars

-----------------------------------------------------------------------------
(* Properties. *)

\* "After 3 consecutive clean cycles, marks feed as CLEAN": the gate opens only
\* when the last Required rounds all looked at symbols and found nothing, and
\* an anomaly shuts it in the round that sees it.
CleanIsEarned ==
  [][/\ feedClean' /\ ~feedClean => outcomes' = [i \in 1 .. Required |-> "clean"]
     /\ outcomes' # outcomes /\ outcomes'[Len(outcomes')] = "anomaly" => ~feedClean']_intakeVars

\* No CANDIDATE_SIGNAL carries a no-trade label or a setup its regime does not
\* allow, although feed and label are tested only when a scan of all symbols begins.
CandidateFitsRegime ==
  emitted # NoRegime => emitted.allowed \subseteq SetupMap[emitted.label] /\ emitted.label \in Tradeable

\* The universe holds only symbols that pass every filter, never more than the
\* cap, and leaves out one that passes only when it is full.
UniverseIsFull ==
  LET passing == {a.sym : a \in {b \in screened : ~b.fails}} IN
  universe # NotYet =>
    /\ universe \subseteq passing
    /\ Cardinality(universe) <= MaxSymbols
    /\ universe # passing => Cardinality(universe) = MaxSymbols

\* What the trading path starts from is sound, whatever messages arrive while
\* the models are asked: the universe and the candidates taken from it.
IntakeIsSound == UniverseIsFull /\ CandidateFitsRegime

=============================================================================
