----------------------------- MODULE TaxRecords -----------------------------
(***************************************************************************)
(* The tax and compliance agent (agents/agent_15_tax_compliance.py): the   *)
(* wash sale flags in the state store and the day trades of the last five  *)
(* days.  TRADE_CLOSEDs are handled late, in any order and interleaved.    *)
(***************************************************************************)
EXTENDS Naturals, FiniteSets

CONSTANTS
  Trades,        \* closed trades
  TradedSymbol,  \* trade -> symbol
  Loses,         \* the trades that are no winners
  WashDays,      \* WASH_SALE_DAYS
  PdtDays,       \* length of the day trade window
  PdtLimit,      \* PDT_MAX_DAY_TRADES_PER_WINDOW
  MaxDay         \* bound: days

ASSUME TaxAssumption ==
  /\ WashDays \in Nat /\ PdtDays \in Nat /\ PdtLimit \in Nat \ {0} /\ MaxDay \in Nat
  /\ Loses \subseteq Trades

VARIABLES
  day,          \* utcnow, in days
  tradeLog,     \* trade -> the day it closed, 0 before
  filing,       \* trade -> how far _handle_trade_closed is
  washUntil,    \* symbol -> wash_sale_window_end in the store, 0 for no flag
  seen,         \* trade -> the flag its handler read, of which it asks the deletion
  lost,         \* history: the symbols whose newest flag went before its time
  dayTradeLog,  \* the trades with a timestamp in _day_trade_timestamps
  pdtAlert,     \* the last check published a pdt_limit alert
  washAlerts    \* symbols a wash_sale_risk alert was published for

taxVars == <<day, tradeLog, filing, washUntil, seen, lost, dayTradeLog, pdtAlert, washAlerts>>

TradedSymbols == {TradedSymbol[t] : t \in Trades}

TaxInit ==
  /\ day = 1
  /\ tradeLog = [t \in Trades |-> 0]
  /\ filing = [t \in Trades |-> "none"]
  /\ washUntil = [s \in TradedSymbols |-> 0]
  /\ seen = [t \in Trades |-> 0] /\ lost = {}
  /\ dayTradeLog = {} /\ pdtAlert = FALSE /\ washAlerts = {}

-----------------------------------------------------------------------------
NextDay ==
  /\ day < MaxDay
  /\ day' = day + 1
  /\ UNCHANGED <<tradeLog, filing, washUntil, seen, lost, dayTradeLog, pdtAlert, washAlerts>>

CloseTrade(t) ==
  /\ tradeLog[t] = 0
  /\ tradeLog' = [tradeLog EXCEPT ![t] = day]
  /\ UNCHANGED <<day, filing, washUntil, seen, lost, dayTradeLog, pdtAlert, washAlerts>>

LossesIn(s) == {t \in Loses : TradedSymbol[t] = s /\ filing[t] # "none"}
NewestLoss(t) == \A u \in LossesIn(TradedSymbol[t]) : tradeLog[u] <= tradeLog[t]

\* Mutant: only losing trades are day trades.
DayTradeFiledLosses(t) == IF t \in Loses THEN dayTradeLog \cup {t} ELSE dayTradeLog

\* _handle_trade_closed behind the audit records: the wash sale of a loss is
\* written to the store first; then the trade counts as a day trade.
DayTradeFiled(t) == dayTradeLog \cup {t}

\* The symbol has one row: the flag of a loss handled late takes the place of
\* a newer one.
FlagWashSale(t) ==
  LET s == TradedSymbol[t] IN
  /\ filing[t] = "none" /\ tradeLog[t] # 0
  /\ filing' = [filing EXCEPT ![t] = "flagged"]
  /\ \/ /\ t \in Loses
        /\ washUntil' = [washUntil EXCEPT ![s] = tradeLog[t] + WashDays]
        /\ lost' = IF NewestLoss(t) THEN lost \ {s} ELSE lost \cup {s}
     \/ t \notin Loses /\ UNCHANGED <<washUntil, lost>>
  /\ UNCHANGED <<day, tradeLog, seen, dayTradeLog, pdtAlert, washAlerts>>

\* _check_pdt_exposure: the list keeps what lies in the window; at the limit
\* the supervisor is alerted, at every further trade again.
FileDayTrade(t) ==
  /\ filing[t] = "flagged"
  /\ filing' = [filing EXCEPT ![t] = "filed"]
  /\ dayTradeLog' = {u \in DayTradeFiled(t) : tradeLog[u] >= day - PdtDays}
  /\ pdtAlert' = (Cardinality(dayTradeLog') >= PdtLimit)
  /\ UNCHANGED <<day, tradeLog, washUntil, seen, lost, washAlerts>>

\* Mutant: a window is over on its last day.
WindowIsOverEarly(s) == washUntil[s] <= day

WindowIsOver(s) == washUntil[s] < day

\* _check_re_entry_wash_sale: a flag whose window is open is an alert; for one
\* that is over get_wash_sale_flag asks the store to delete the symbol's flag.
CheckReentry(t) ==
  LET s == TradedSymbol[t] IN
  /\ filing[t] = "filed"
  /\ \/ /\ washUntil[s] # 0 /\ WindowIsOver(s)
        /\ filing' = [filing EXCEPT ![t] = "deleting"] /\ seen' = [seen EXCEPT ![t] = washUntil[s]]
        /\ UNCHANGED washAlerts
     \/ /\ washUntil[s] = 0 \/ ~WindowIsOver(s)
        /\ filing' = [filing EXCEPT ![t] = "done"] /\ UNCHANGED seen
        /\ washAlerts' = IF washUntil[s] # 0 THEN washAlerts \cup {s} ELSE washAlerts
  /\ UNCHANGED <<day, tradeLog, washUntil, lost, dayTradeLog, pdtAlert>>

\* The row of the symbol is deleted, be it another one by now.
DeleteFlag(t) ==
  LET s == TradedSymbol[t] IN
  /\ filing[t] = "deleting"
  /\ filing' = [filing EXCEPT ![t] = "done"]
  /\ washUntil' = [washUntil EXCEPT ![s] = 0]
  /\ lost' = IF washUntil[s] # seen[t] THEN lost \cup {s} ELSE lost
  /\ UNCHANGED <<day, tradeLog, seen, dayTradeLog, pdtAlert, washAlerts>>

TaxNext ==
  \/ NextDay
  \/ \E t \in Trades : CloseTrade(t) \/ FlagWashSale(t) \/ FileDayTrade(t) \/ CheckReentry(t) \/ DeleteFlag(t)

TaxSpec == TaxInit /\ [][TaxNext]_taxVars

-----------------------------------------------------------------------------
(* Properties. *)

Filed == {t \in Trades : filing[t] \in {"filed", "deleting", "done"}}

\* Whenever all trades closed in the window are filed and as many as the limit
\* is, the last check alerted the supervisor, whatever order they came in and
\* whatever the list dropped; and it did not alert for fewer.
PdtLimitIsReported ==
  LET recent == {t \in Filed : tradeLog[t] >= day - PdtDays} IN
  /\ Cardinality(recent) >= PdtLimit => pdtAlert
  /\ pdtAlert => Cardinality(Filed) >= PdtLimit

\* While the window of the newest loss in a symbol is open, its flag is in the
\* store, although handlers overlap and are late. There are two ways to lose
\* it, and no third: an older loss that is handled later writes its shorter
\* window over it, or a handler that read an older flag, whose window was over,
\* has the store delete the symbol's row behind the newer flag. No symbol
\* without a loss is reported.
WashWindowIsKept ==
  \A s \in TradedSymbols :
    /\ \A t \in LossesIn(s) :
         NewestLoss(t) /\ tradeLog[t] + WashDays >= day /\ s \notin lost
           => washUntil[s] = tradeLog[t] + WashDays
    /\ s \in washAlerts => LossesIn(s) # {}

\* What late, reordered and overlapping handlers leave of the agent's records:
\* all day trades of the window, and the wash-sale flag of the newest loss but
\* for the two losses named above.
TaxRecordsAreSound == PdtLimitIsReported /\ WashWindowIsKept

=============================================================================
