------------------------------ MODULE RiskGate ------------------------------
(***************************************************************************)
(* The trade eligibility and risk agent (agents/agent_06_tera.py): ten     *)
(* rules, evaluated in order of severity, the first that fails rejecting   *)
(* the signal, and the counters and timers they read.  Two of the rules    *)
(* change the state they test: they start a pause.                         *)
(***************************************************************************)
EXTENDS Naturals, Integers, Sequences, FiniteSets

CONSTANTS
  Sector,         \* symbol -> its sector in the universe snapshot
  Theme,          \* symbol -> its theme
  Situations,     \* what a signal may meet: see Evaluate
  Pnls,           \* net P/L of a closed trade
  DailyCap,       \* equity * daily_max_loss_pct
  VelocityLoss,   \* drawdown_velocity_loss
  VelocityWindow, \* drawdown_velocity_window_sec
  VelocityPause,  \* drawdown_velocity_pause_sec
  StreakLimit,    \* consecutive_loss_cooldown_trades
  Cooldown,       \* consecutive_loss_cooldown_sec
  MaxConcurrent,  \* max_concurrent_trades
  MaxSector,      \* max_sector_concentration and max_theme_concentration
  MaxDayTrades,   \* PDT_MAX_DAY_TRADES_PER_WINDOW
  MaxTime,        \* bound: clock
  MaxTrades       \* bound: closed trades of a session

ASSUME RiskGateAssumption ==
  /\ DailyCap \in Nat /\ VelocityLoss \in Nat /\ VelocityWindow \in Nat /\ VelocityPause \in Nat
  /\ StreakLimit \in Nat \ {0} /\ Cooldown \in Nat /\ MaxDayTrades \in Nat
  /\ Pnls \subseteq Int

VARIABLES
  clock,         \* utcnow
  dailyPnl,      \* _daily_pnl
  streak,        \* _consecutive_losses
  anomalyHold,   \* _anomaly_hold
  dayTrades,     \* _pdt_trades_used
  lossTimes,     \* _loss_timestamps
  pauseUntil,    \* _drawdown_velocity_pause_until; 0 for None
  cooldownUntil, \* _consecutive_loss_cooldown_until; 0 for None
  verdict,       \* the last RISK_DECISION published
  closed,        \* history: trades closed this session
  stopped,       \* history: when the velocity rule last started a pause
  dayTradesEver  \* history: day trades reported, in any session

counters == <<dailyPnl, streak, lossTimes>>
timers == <<pauseUntil, cooldownUntil>>
riskHistory == <<closed, stopped, dayTradesEver>>
riskVars == <<clock, counters, timers, anomalyHold, dayTrades, verdict, riskHistory>>

-----------------------------------------------------------------------------
RiskInit ==
  /\ clock = 1
  /\ dailyPnl = 0 /\ streak = 0 /\ lossTimes = <<>>
  /\ pauseUntil = 0 /\ cooldownUntil = 0
  /\ anomalyHold = FALSE /\ dayTrades = 0
  /\ verdict = "none"
  /\ closed = <<>> /\ stopped = 0 /\ dayTradesEver = 0

Amount(log) ==
  LET sum[i \in 0 .. Len(log)] == IF i = 0 THEN 0 ELSE sum[i - 1] + log[i].amount
  IN  sum[Len(log)]

\* The log without the entries at its head that are older than the cutoff.
WithoutHeads(log, cutoff) ==
  LET stale == CHOOSE n \in 0 .. Len(log) :
                 /\ \A i \in 1 .. n : log[i].at < cutoff
                 /\ n < Len(log) => log[n + 1].at >= cutoff
  IN  SubSeq(log, stale + 1, Len(log))

\* Mutant: the window is counted from the pause, one tick short.
PrunedEarly(log) == WithoutHeads(log, clock - VelocityWindow + 1)

\* _prune_loss_timestamps.
Pruned(log) == WithoutHeads(log, clock - VelocityWindow)

-----------------------------------------------------------------------------
(* The rules. *)

InSector(x) == {o \in x.open \cap x.known : Sector[o] = Sector[x.s]}
InTheme(x) == {o \in x.open \cap x.known : Theme[o] = Theme[x.s]}

\* Mutant: once the cooldown was served the streak is not looked at again.
CooldownRuleOnce == cooldownUntil = 0 /\ streak >= StreakLimit

\* The second half of rule 7: the streak starts a cooldown, again and again,
\* for only a trade that is not a loss ends it.
CooldownRule == streak >= StreakLimit

VelocityRule == Amount(Pruned(lossTimes)) > VelocityLoss

\* _evaluate_all_rules: the name of the first rule that fails for a signal
\* of symbol x.s.  x.open are the symbols with a position, x.heavy those
\* above the concentration limit, x.known the symbols of the universe snapshot
\* (none when there is no snapshot), x.washed those with a wash sale flag;
\* x.rich: equity >= PDT_MINIMUM_EQUITY.
FirstFailure(x) ==
  CASE dailyPnl <= -DailyCap                         -> "daily_loss"
    [] OTHER ->
  CASE clock < pauseUntil                            -> "velocity_pause"
    [] clock >= pauseUntil /\ VelocityRule           -> "velocity"
    [] OTHER ->
  CASE Cardinality(x.open) >= MaxConcurrent            -> "concurrent"
    [] OTHER ->
  CASE x.s \in x.heavy                                 -> "concentration"
    [] OTHER ->
  CASE x.s \in x.known /\ Cardinality(InSector(x)) >= MaxSector -> "sector"
    [] OTHER ->
  CASE x.s \in x.known /\ Cardinality(InTheme(x)) >= MaxSector  -> "theme"
    [] OTHER ->
  CASE clock < cooldownUntil                         -> "cooldown"
    [] clock >= cooldownUntil /\ CooldownRule        -> "streak"
    [] OTHER ->
  CASE anomalyHold                                   -> "anomaly"
    [] OTHER ->
  CASE ~x.rich /\ dayTrades >= MaxDayTrades            -> "pdt"
    [] OTHER ->
  IF x.s \in x.washed THEN "wash_sale" ELSE "approved"

\* _handle_validated_signal, for a signal that passed validation.
Evaluate(x) ==
  LET rule == FirstFailure(x) IN
  /\ verdict' = IF rule = "approved" THEN "approved" ELSE "rejected"
  /\ pauseUntil' = IF rule = "velocity" THEN clock + VelocityPause ELSE pauseUntil
  /\ cooldownUntil' = IF rule = "streak" THEN clock + Cooldown ELSE cooldownUntil
  /\ lossTimes' = IF rule \in {"daily_loss", "velocity_pause"} THEN lossTimes ELSE Pruned(lossTimes)
  /\ stopped' = IF rule = "velocity" THEN clock ELSE stopped
  /\ UNCHANGED <<clock, dailyPnl, streak, anomalyHold, dayTrades, closed, dayTradesEver>>

-----------------------------------------------------------------------------
(* The state the rules read. *)

\* _handle_trade_closed.
TradeClosed(pnl) ==
  /\ Len(closed) < MaxTrades
  /\ dailyPnl' = dailyPnl + pnl
  /\ streak' = IF pnl < 0 THEN streak + 1 ELSE 0
  /\ lossTimes' = Pruned(IF pnl < 0 THEN Append(lossTimes, [at |-> clock, amount |-> -pnl])
                                    ELSE lossTimes)
  /\ closed' = Append(closed, [at |-> clock, pnl |-> pnl])
  /\ UNCHANGED <<clock, timers, anomalyHold, dayTrades, verdict, stopped, dayTradesEver>>

\* _handle_daily_pnl: the supervisor's snapshot replaces the own count.
DailyPnlSynced(pnl) ==
  /\ dailyPnl' = pnl
  /\ UNCHANGED <<clock, streak, lossTimes, timers, anomalyHold, dayTrades, verdict, riskHistory>>

\* _handle_psa_alert, for an alert whose type contains "anomaly".
AnomalyAlert ==
  /\ ~anomalyHold
  /\ anomalyHold' = TRUE
  /\ UNCHANGED <<clock, counters, timers, dayTrades, verdict, riskHistory>>

ClearAnomalyHold ==
  /\ anomalyHold
  /\ anomalyHold' = FALSE
  /\ UNCHANGED <<clock, counters, timers, dayTrades, verdict, riskHistory>>

IncrementPdtCounter ==
  /\ dayTradesEver <= MaxDayTrades
  /\ dayTrades' = dayTrades + 1
  /\ dayTradesEver' = dayTradesEver + 1
  /\ UNCHANGED <<clock, counters, timers, anomalyHold, verdict, closed, stopped>>

\* Mutant: the day trades start again with the session.
DayTradesAtResetZero == 0

\* "PDT counter is NOT reset here."
DayTradesAtReset == dayTrades

ResetForNewSession ==
  /\ dailyPnl' = 0 /\ streak' = 0 /\ anomalyHold' = FALSE
  /\ lossTimes' = <<>>
  /\ pauseUntil' = 0 /\ cooldownUntil' = 0
  /\ dayTrades' = DayTradesAtReset
  /\ closed' = <<>> /\ stopped' = 0
  /\ UNCHANGED <<clock, verdict, dayTradesEver>>

RiskTick ==
  /\ clock < MaxTime
  /\ clock' = clock + 1
  /\ UNCHANGED <<counters, timers, anomalyHold, dayTrades, verdict, riskHistory>>

RiskNext ==
  \/ \E x \in Situations : Evaluate(x)
  \/ \E pnl \in Pnls : TradeClosed(pnl)
  \/ DailyPnlSynced(0)
  \/ AnomalyAlert \/ ClearAnomalyHold
  \/ IncrementPdtCounter
  \/ ResetForNewSession
  \/ RiskTick

RiskSpec == RiskInit /\ [][RiskNext]_riskVars

-----------------------------------------------------------------------------
(* Properties. *)

\* A signal that arrives now may be approved.
Approvable(rich) == \E x \in Situations : x.rich = rich /\ FirstFailure(x) = "approved"

LossesSince(t) ==
  Amount([i \in 1 .. Len(closed) |->
           [amount |-> IF closed[i].at >= t /\ closed[i].pnl < 0 THEN -closed[i].pnl ELSE 0]])

\* Rule 2, "5-min mandatory pause": no signal is approved while the trades
\* that closed within the window lost more than the threshold, nor within a
\* full pause after an evaluation noticed that they had.
BurstStopsApprovals ==
  Approvable(TRUE) => /\ LossesSince(clock - VelocityWindow) <= VelocityLoss
                      /\ stopped = 0 \/ clock >= stopped + VelocityPause

\* Rule 7: after StreakLimit losses in a row nothing is approved until a trade
\* that is not a loss closes, however many cooldowns have been served.
StreakNeedsWin ==
  Approvable(TRUE) =>
    \/ Len(closed) < StreakLimit
    \/ \E i \in Len(closed) - StreakLimit + 1 .. Len(closed) : closed[i].pnl >= 0

\* Rule 9: below the minimum equity the day trades of earlier sessions count.
DayTradesOutliveSession ==
  Approvable(FALSE) => dayTradesEver < MaxDayTrades

\* A signal can be approved only when none of the three memories of the gate
\* speaks against it: the burst, the streak and the day trades.
ApprovalIsSafe == BurstStopsApprovals /\ StreakNeedsWin /\ DayTradesOutliveSession

=============================================================================
