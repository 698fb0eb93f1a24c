--------------------------- MODULE TradingProofs ----------------------------
(***************************************************************************)
(* Proofs about the path of a trade: intake of market data (MarketIntake), *)
(* validation and sizing (SignalPath), the risk rules (RiskGate), the open *)
(* position (Positions), the quality of its fills (ExecutionQuality) and   *)
(* its tax records (TaxRecords), for any number of signals, handlers,      *)
(* trades and days and every value of the limits.                          *)
(***************************************************************************)
EXTENDS MarketIntake, SignalPath, RiskGate, Positions, ExecutionQuality, TaxRecords,
        DataLemmas, SequenceTheorems, TLAPS

-----------------------------------------------------------------------------
(* Execution quality. *)

\* The verdict and what was last published of it are one, and stale only while
\* a handler is still to judge the window.
QualityInv ==
  /\ judging \in Nat
  /\ degraded \in BOOLEAN
  /\ told = degraded
  /\ judging = 0 => degraded = Poor

\* An empty window is not poor.
LEMMA EmptyWindow ==
  ASSUME window = <<>>
  PROVE  ~Poor
<1>1. Len(window) = 0 /\ Fills = {} /\ Rejections = {}
  BY DEF Fills, Rejections
<1>2. Cardinality(Rejections) = 0
  BY <1>1, FS_EmptySet
<1>3. ~(100 * 0 > RejectPc * 0)
  BY QualityAssumption
<1> QED BY <1>1, <1>2, <1>3 DEF Poor, SlipsAbove

\* Every measurement brings a judgement of its own behind it.
LEMMA QualityStep ==
  ASSUME QualityInv, [QualityNext]_qualityVars
  PROVE  QualityInv'
<1>1. CASE \E o \in Orders : OrderSubmitted(o)
  <2>1. UNCHANGED <<window, judging, degraded, told>>
    BY <1>1, Zenon DEF OrderSubmitted
  <2>2. Poor' = Poor
    BY <2>1 DEF Poor, SlipsAbove, SlipSum, Fills, Rejections
  <2> QED BY <2>1, <2>2 DEF QualityInv
<1>2. CASE \E o \in Orders : OrderRejected(o) \/ \E slip \in Slippages : FillMeasured(o, slip)
  <2>1. \E o, entry : Measured(o, entry)
    BY <1>2, Zenon DEF OrderRejected, FillMeasured
  <2>2. judging' = judging + 1 /\ UNCHANGED <<degraded, told>>
    BY <2>1 DEF Measured, AwaitsVerdict
  <2> QED BY <2>2 DEF QualityInv
<1>3. CASE CheckDegradation
  <2>1. /\ judging > 0 /\ judging' = judging - 1
        /\ degraded' = Poor /\ told' = Announced /\ window' = window
    BY <1>3, Zenon DEF CheckDegradation
  <2>2. Poor' = Poor /\ Poor \in BOOLEAN
    BY <2>1 DEF Poor, SlipsAbove, SlipSum, Fills, Rejections
  <2>3. told' = degraded'
    BY <2>1, Zenon DEF Announced, QualityInv
  <2>4. judging' \in Nat
    BY <2>1 DEF QualityInv
  <2> QED BY <2>1, <2>2, <2>3, <2>4, Zenon DEF QualityInv
<1>4. CASE PublishSummary \/ UNCHANGED qualityVars
  <2>1. UNCHANGED <<window, judging, degraded>> /\ told' = degraded
    BY <1>4, Zenon DEF PublishSummary, qualityVars, QualityInv
  <2>2. Poor' = Poor
    BY <2>1 DEF Poor, SlipsAbove, SlipSum, Fills, Rejections
  <2> QED BY <2>1, <2>2 DEF QualityInv
<1> QED BY <1>1, <1>2, <1>3, <1>4, Zenon DEF QualityNext

\* However the handlers of fills and rejections interleave, of however many
\* orders and with whatever window: when none of them is in progress, the sizing
\* agent was last told exactly what the window says.
THEOREM QualityVerdictIsCurrent == QualitySpec => []QualityIsCurrent
<1>1. QualityInit => QualityInv
  <2> SUFFICES ASSUME QualityInit PROVE QualityInv
    OBVIOUS
  <2>1. window = <<>> /\ judging = 0 /\ degraded = FALSE /\ told = FALSE
    BY Zenon DEF QualityInit
  <2>2. Poor \in BOOLEAN
    BY DEF Poor
  <2>3. degraded = Poor
    BY <2>1, <2>2, EmptyWindow, Zenon
  <2> QED BY <2>1, <2>3 DEF QualityInv
<1>2. QualityInv => QualityIsCurrent
  BY DEF QualityInv, QualityIsCurrent
<1> QED BY <1>1, <1>2, QualityStep, PTL DEF QualitySpec

-----------------------------------------------------------------------------
(* Tax records. *)

OverLoss(t) == tradeLog[t] + WashDays < day

TaxTypes ==
  /\ day \in Nat \ {0}
  /\ tradeLog \in [Trades -> Nat]
  /\ filing \in [Trades -> {"none", "flagged", "filed", "deleting", "done"}]
  /\ \A t \in Trades : filing[t] # "none" => tradeLog[t] # 0
  /\ washUntil \in [TradedSymbols -> Nat]
  /\ seen \in [Trades -> Nat]
  /\ pdtAlert \in BOOLEAN

\* The list holds filed trades, all of those in the window, and the last check
\* counted what it holds.
DayTradesAreListed ==
  /\ IsFiniteSet(Filed)
  /\ dayTradeLog \subseteq Filed
  /\ \A t \in Filed : tradeLog[t] >= day - PdtDays => t \in dayTradeLog
  /\ pdtAlert <=> Cardinality(dayTradeLog) >= PdtLimit

\* The flag of a symbol has the window of its newest loss, or that window is
\* over, or the flag was lost; what a handler is about to delete was over when
\* it was read.
FlagsAreOfLosses ==
  /\ \A s \in TradedSymbols :
       /\ washUntil[s] # 0 => LossesIn(s) # {}
       /\ \A t \in LossesIn(s) :
            NewestLoss(t) /\ s \notin lost => (washUntil[s] = tradeLog[t] + WashDays \/ OverLoss(t))
       /\ s \in washAlerts => LossesIn(s) # {}
  /\ \A t \in Trades : filing[t] = "deleting" => seen[t] < day

TaxInv == TaxTypes /\ DayTradesAreListed /\ FlagsAreOfLosses

\* The invariant gives both halves of the property.
LEMMA TaxInvImplies ==
  ASSUME TaxInv
  PROVE  TaxRecordsAreSound
<1> DEFINE recent == {t \in Filed : tradeLog[t] >= day - PdtDays}
<1>1. recent \in SUBSET dayTradeLog /\ dayTradeLog \in SUBSET Filed /\ IsFiniteSet(Filed)
  BY DEF TaxInv, DayTradesAreListed
<1> HIDE DEF recent
<1>2. IsFiniteSet(dayTradeLog) /\ Cardinality(dayTradeLog) <= Cardinality(Filed)
  BY <1>1, FS_Subset
<1>3. IsFiniteSet(recent) /\ Cardinality(recent) <= Cardinality(dayTradeLog)
  BY <1>1, <1>2, FS_Subset
<1>4. Cardinality(recent) \in Nat /\ Cardinality(dayTradeLog) \in Nat /\ Cardinality(Filed) \in Nat
  BY <1>1, <1>2, <1>3, FS_CardinalityType
<1>5. PdtLimitIsReported
  <2>1. pdtAlert <=> Cardinality(dayTradeLog) >= PdtLimit
    BY DEF TaxInv, DayTradesAreListed
  <2>2. /\ Cardinality(recent) >= PdtLimit => pdtAlert
        /\ pdtAlert => Cardinality(Filed) >= PdtLimit
    BY <1>2, <1>3, <1>4, <2>1, TaxAssumption
  <2> QED BY <2>2, Zenon DEF PdtLimitIsReported, recent
<1>6. WashWindowIsKept
  <2> SUFFICES ASSUME NEW s \in TradedSymbols
               PROVE  /\ \A t \in LossesIn(s) :
                           NewestLoss(t) /\ tradeLog[t] + WashDays >= day /\ s \notin lost
                             => washUntil[s] = tradeLog[t] + WashDays
                      /\ s \in washAlerts => LossesIn(s) # {}
    BY Zenon DEF WashWindowIsKept
  <2>1. \A t \in LossesIn(s) : tradeLog[t] + WashDays >= day => ~OverLoss(t)
    BY TaxAssumption DEF LossesIn, OverLoss, TaxInv, TaxTypes
  <2> QED BY <2>1, Zenon DEF TaxInv, FlagsAreOfLosses
<1> QED BY <1>5, <1>6 DEF TaxRecordsAreSound

\* Days pass and trades close: nothing comes back into a window.
LEMMA TaxTime ==
  ASSUME TaxInv, NextDay \/ \E t \in Trades : CloseTrade(t)
  PROVE  TaxInv'
<1>1. UNCHANGED <<filing, washUntil, seen, lost, dayTradeLog, pdtAlert, washAlerts>>
  BY Zenon DEF NextDay, CloseTrade
<1>2. /\ day' \in Nat \ {0} /\ day' >= day
      /\ tradeLog' \in [Trades -> Nat]
      /\ \A u \in Trades : tradeLog[u] # 0 => tradeLog'[u] = tradeLog[u]
  <2>1. CASE NextDay
    BY <2>1 DEF NextDay, TaxInv, TaxTypes
  <2>2. ASSUME NEW t \in Trades, CloseTrade(t)
        PROVE  /\ day' \in Nat \ {0} /\ day' >= day
               /\ tradeLog' \in [Trades -> Nat]
               /\ \A u \in Trades : tradeLog[u] # 0 => tradeLog'[u] = tradeLog[u]
    <3>1. tradeLog[t] = 0 /\ tradeLog' = [tradeLog EXCEPT ![t] = day] /\ day' = day
      BY <2>2 DEF CloseTrade
    <3> QED BY <3>1 DEF TaxInv, TaxTypes
  <2> QED BY <2>1, <2>2
<1>3. Filed' = Filed /\ \A t \in Filed : tradeLog'[t] = tradeLog[t]
  BY <1>1, <1>2 DEF Filed, TaxInv, TaxTypes
<1>4. ASSUME NEW s PROVE LossesIn(s)' = LossesIn(s)
  BY <1>1 DEF LossesIn
<1>5. ASSUME NEW s, NEW t \in LossesIn(s)
      PROVE  tradeLog'[t] = tradeLog[t] /\ (OverLoss(t) => OverLoss(t)')
  BY <1>1, <1>2, TaxAssumption DEF LossesIn, OverLoss, TaxInv, TaxTypes
<1>6. TaxTypes'
  BY <1>1, <1>2 DEF TaxInv, TaxTypes
<1>7. DayTradesAreListed'
  <2>1. ASSUME NEW t \in Filed, tradeLog'[t] >= day' - PdtDays PROVE t \in dayTradeLog
    <3>1. tradeLog[t] \in Nat /\ day \in Nat /\ day' \in Nat /\ PdtDays \in Nat
      BY <1>2, TaxAssumption DEF Filed, TaxInv, TaxTypes
    <3>2. tradeLog[t] >= day - PdtDays
      BY <1>2, <1>3, <2>1, <3>1
    <3> QED BY <3>2 DEF TaxInv, DayTradesAreListed
  <2> QED BY <1>1, <1>3, <2>1 DEF TaxInv, DayTradesAreListed
<1>8. FlagsAreOfLosses'
  <2>1. ASSUME NEW s \in TradedSymbols
        PROVE  /\ washUntil'[s] # 0 => LossesIn(s)' # {}
               /\ s \in washAlerts' => LossesIn(s)' # {}
    BY <1>1, <1>4 DEF TaxInv, FlagsAreOfLosses
  <2>2. ASSUME NEW s \in TradedSymbols, NEW t \in LossesIn(s)', NewestLoss(t)', s \notin lost'
        PROVE  washUntil'[s] = tradeLog'[t] + WashDays \/ OverLoss(t)'
    <3>1. t \in LossesIn(s) /\ s \notin lost /\ TradedSymbol[t] = s
      BY <1>1, <1>4, <2>2 DEF LossesIn
    <3>2. NewestLoss(t)
      BY <1>4, <1>5, <2>2, <3>1 DEF NewestLoss
    <3> QED BY <1>1, <1>5, <3>1, <3>2 DEF TaxInv, FlagsAreOfLosses
  <2>3. ASSUME NEW t \in Trades, filing'[t] = "deleting"
        PROVE  seen'[t] < day'
    <3>1. seen[t] < day /\ seen[t] \in Nat /\ day \in Nat
      BY <1>1, <2>3 DEF TaxInv, TaxTypes, FlagsAreOfLosses
    <3> QED BY <1>1, <1>2, <3>1
  <2>4. TradedSymbols' = TradedSymbols
    BY DEF TradedSymbols
  <2> QED BY <2>1, <2>2, <2>3, <2>4 DEF FlagsAreOfLosses
<1> QED BY <1>6, <1>7, <1>8 DEF TaxInv

\* A loss writes its own window over whatever the symbol's flag was.
LEMMA TaxFlag ==
  ASSUME TaxInv, NEW t \in Trades, FlagWashSale(t)
  PROVE  TaxInv'
<1> DEFINE sym == TradedSymbol[t]
<1>1. /\ filing[t] = "none" /\ tradeLog[t] # 0
      /\ filing' = [filing EXCEPT ![t] = "flagged"]
      /\ t \in Loses => /\ washUntil' = [washUntil EXCEPT ![sym] = tradeLog[t] + WashDays]
                        /\ lost' = IF NewestLoss(t) THEN lost \ {sym} ELSE lost \cup {sym}
      /\ t \notin Loses => washUntil' = washUntil /\ lost' = lost
      /\ UNCHANGED <<day, tradeLog, seen, dayTradeLog, pdtAlert, washAlerts>>
  BY DEF FlagWashSale
<1>2. sym \in TradedSymbols
  BY DEF TradedSymbols
<1>3. Filed' = Filed
  BY <1>1 DEF Filed, TaxInv, TaxTypes
<1>4. TaxTypes'
  BY <1>1, <1>2, TaxAssumption DEF TaxInv, TaxTypes
<1>5. DayTradesAreListed'
  BY <1>1, <1>3 DEF TaxInv, DayTradesAreListed
<1>6. \A u \in Trades : filing'[u] # "none" <=> filing[u] # "none" \/ u = t
  BY <1>1 DEF TaxInv, TaxTypes
<1>7. ASSUME NEW s PROVE LossesIn(s)' = IF t \in Loses /\ s = sym THEN LossesIn(s) \cup {t} ELSE LossesIn(s)
  BY <1>1, <1>6, TaxAssumption DEF LossesIn
<1>8. \A u : OverLoss(u)' <=> OverLoss(u)
  BY <1>1 DEF OverLoss
<1>9. FlagsAreOfLosses'
  <2>1. ASSUME NEW s \in TradedSymbols
        PROVE  /\ washUntil'[s] # 0 => LossesIn(s)' # {}
               /\ s \in washAlerts' => LossesIn(s)' # {}
    <3>1. CASE t \in Loses /\ s = sym
      BY <1>7, <3>1
    <3>2. CASE ~(t \in Loses /\ s = sym)
      <4>1. washUntil'[s] = washUntil[s] /\ LossesIn(s)' = LossesIn(s)
        BY <1>1, <1>7, <3>2 DEF TaxInv, TaxTypes
      <4> QED BY <1>1, <4>1 DEF TaxInv, FlagsAreOfLosses
    <3> QED BY <3>1, <3>2
  <2>2. ASSUME NEW s \in TradedSymbols, NEW u \in LossesIn(s)', NewestLoss(u)', s \notin lost'
        PROVE  washUntil'[s] = tradeLog'[u] + WashDays \/ OverLoss(u)'
    <3>1. TradedSymbol[u] = s
      BY <1>1, <2>2 DEF LossesIn
    <3>2. CASE t \in Loses /\ s = sym
      <4>1. NewestLoss(t)
        BY <1>1, <2>2, <3>2
      <4>2. washUntil'[s] = tradeLog[t] + WashDays /\ tradeLog' = tradeLog
        BY <1>1, <3>2 DEF TaxInv, TaxTypes
      <4>3. tradeLog[t] <= tradeLog[u]
        BY <1>1, <1>7, <2>2, <3>1, <3>2 DEF NewestLoss
      <4>4. u = t \/ tradeLog[u] <= tradeLog[t]
        BY <1>7, <2>2, <3>2, <4>1 DEF NewestLoss
      <4>5. tradeLog[u] \in Nat /\ tradeLog[t] \in Nat
        BY <2>2, TaxAssumption DEF LossesIn, TaxInv, TaxTypes
      <4>6. tradeLog[u] = tradeLog[t]
        BY <4>3, <4>4, <4>5
      <4> QED BY <4>2, <4>6
    <3>3. CASE ~(t \in Loses /\ s = sym)
      <4>1. washUntil'[s] = washUntil[s] /\ LossesIn(s)' = LossesIn(s)
        BY <1>1, <1>7, <3>3 DEF TaxInv, TaxTypes
      <4>2. s \notin lost
        BY <1>1, <2>2, <3>3
      <4>3. NewestLoss(u)
        BY <1>1, <2>2, <3>1, <4>1 DEF NewestLoss
      <4>4. washUntil[s] = tradeLog[u] + WashDays \/ OverLoss(u)
        BY <2>2, <4>1, <4>2, <4>3 DEF TaxInv, FlagsAreOfLosses
      <4> QED BY <1>1, <1>8, <4>1, <4>4
    <3> QED BY <3>2, <3>3
  <2>3. ASSUME NEW u \in Trades, filing'[u] = "deleting"
        PROVE  seen'[u] < day'
    <3>1. filing[u] = "deleting"
      BY <1>1, <2>3 DEF TaxInv, TaxTypes
    <3> QED BY <1>1, <3>1 DEF TaxInv, FlagsAreOfLosses
  <2>4. TradedSymbols' = TradedSymbols
    BY DEF TradedSymbols
  <2> QED BY <2>1, <2>2, <2>3, <2>4 DEF FlagsAreOfLosses
<1> QED BY <1>4, <1>5, <1>9 DEF TaxInv

\* The trade enters the list before the list is cut and counted.
LEMMA TaxFile ==
  ASSUME TaxInv, NEW t \in Trades, FileDayTrade(t)
  PROVE  TaxInv'
<1>1. /\ filing[t] = "flagged"
      /\ filing' = [filing EXCEPT ![t] = "filed"]
      /\ dayTradeLog' = {u \in dayTradeLog \cup {t} : tradeLog[u] >= day - PdtDays}
      /\ UNCHANGED <<day, tradeLog, washUntil, seen, lost, washAlerts>>
  BY DEF FileDayTrade, DayTradeFiled
<1>2. pdtAlert' = (Cardinality(dayTradeLog') >= PdtLimit)
  BY Zenon DEF FileDayTrade
<1>3. Filed' = Filed \cup {t}
  BY <1>1 DEF Filed, TaxInv, TaxTypes
<1>4. IsFiniteSet(Filed')
  BY <1>3, FS_AddElement DEF TaxInv, DayTradesAreListed
<1>5. DayTradesAreListed'
  <2>1. dayTradeLog' \subseteq Filed'
    BY <1>1, <1>3 DEF TaxInv, DayTradesAreListed
  <2>2. \A u \in Filed' : tradeLog'[u] >= day' - PdtDays => u \in dayTradeLog'
    BY <1>1, <1>3 DEF TaxInv, DayTradesAreListed
  <2>3. pdtAlert' <=> Cardinality(dayTradeLog') >= PdtLimit
    BY <1>2
  <2> QED BY <1>4, <2>1, <2>2, <2>3 DEF DayTradesAreListed
<1>6. TaxTypes'
  <2>1. (Cardinality(dayTradeLog') >= PdtLimit) \in BOOLEAN
    OBVIOUS
  <2>2. pdtAlert' \in BOOLEAN
    BY <1>2, <2>1, Zenon
  <2> QED BY <1>1, <2>2 DEF TaxInv, TaxTypes
<1>7. ASSUME NEW s PROVE LossesIn(s)' = LossesIn(s)
  BY <1>1, TaxAssumption DEF LossesIn, TaxInv, TaxTypes
<1>8. \A u : OverLoss(u)' <=> OverLoss(u)
  BY <1>1 DEF OverLoss
<1>9. \A u \in Trades : filing'[u] = "deleting" => filing[u] = "deleting"
  BY <1>1 DEF TaxInv, TaxTypes
<1>10. \A u : NewestLoss(u)' <=> NewestLoss(u)
  BY <1>1, <1>7 DEF NewestLoss
<1>11. FlagsAreOfLosses'
  BY <1>1, <1>7, <1>8, <1>9, <1>10 DEF TaxInv, FlagsAreOfLosses, TradedSymbols
<1> QED BY <1>5, <1>6, <1>11 DEF TaxInv

\* A deletion is asked for when the window of the flag that was read is over; it
\* takes an open window away only from a flag that was not the one read.
LEMMA TaxReentry ==
  ASSUME TaxInv, NEW t \in Trades, CheckReentry(t) \/ DeleteFlag(t)
  PROVE  TaxInv'
<1> DEFINE sym == TradedSymbol[t]
<1>1. sym \in TradedSymbols
  BY DEF TradedSymbols
<1>2. /\ filing[t] \in {"filed", "deleting"}
      /\ \E v \in {"deleting", "done"} : filing' = [filing EXCEPT ![t] = v]
      /\ UNCHANGED <<day, tradeLog, dayTradeLog, pdtAlert>>
  BY DEF CheckReentry, DeleteFlag
<1>3. Filed' = Filed
  BY <1>2 DEF Filed, TaxInv, TaxTypes
<1>4. DayTradesAreListed'
  BY <1>2, <1>3 DEF TaxInv, DayTradesAreListed
<1>5. ASSUME NEW s PROVE LossesIn(s)' = LossesIn(s)
  BY <1>2, TaxAssumption DEF LossesIn, TaxInv, TaxTypes
<1>6. \A u : OverLoss(u)' <=> OverLoss(u)
  BY <1>2 DEF OverLoss
<1>7. \A u : NewestLoss(u)' <=> NewestLoss(u)
  BY <1>2, <1>5 DEF NewestLoss
<1>8. TradedSymbols' = TradedSymbols
  BY DEF TradedSymbols
<1>9. CASE CheckReentry(t)
  <2>1. UNCHANGED <<washUntil, lost>>
    BY <1>9 DEF CheckReentry
  <2>2. \/ /\ washUntil[sym] < day
           /\ filing' = [filing EXCEPT ![t] = "deleting"] /\ seen' = [seen EXCEPT ![t] = washUntil[sym]]
           /\ washAlerts' = washAlerts
        \/ /\ filing' = [filing EXCEPT ![t] = "done"] /\ seen' = seen
           /\ washAlerts' = IF washUntil[sym] # 0 THEN washAlerts \cup {sym} ELSE washAlerts
    BY <1>9 DEF CheckReentry, WindowIsOver
  <2>3. TaxTypes'
    BY <1>1, <1>2, <2>1, <2>2 DEF TaxInv, TaxTypes
  <2>4. ASSUME NEW s \in TradedSymbols, s \in washAlerts' PROVE LossesIn(s) # {}
    BY <2>2, <2>4 DEF TaxInv, FlagsAreOfLosses
  <2>5. ASSUME NEW u \in Trades, filing'[u] = "deleting" PROVE seen'[u] < day'
    <3>1. CASE u = t
      BY <1>2, <2>2, <2>5, <3>1 DEF TaxInv, TaxTypes
    <3>2. CASE u # t
      <4>1. filing[u] = "deleting" /\ seen'[u] = seen[u]
        BY <2>2, <2>5, <3>2 DEF TaxInv, TaxTypes
      <4> QED BY <1>2, <4>1 DEF TaxInv, FlagsAreOfLosses
    <3> QED BY <3>1, <3>2
  <2>6. FlagsAreOfLosses'
    BY <1>2, <1>5, <1>6, <1>7, <1>8, <2>1, <2>4, <2>5 DEF TaxInv, FlagsAreOfLosses
  <2> QED BY <1>4, <2>3, <2>6 DEF TaxInv
<1>10. CASE DeleteFlag(t)
  <2>1. /\ UNCHANGED <<seen, washAlerts>> /\ filing[t] = "deleting"
        /\ filing' = [filing EXCEPT ![t] = "done"]
        /\ washUntil' = [washUntil EXCEPT ![sym] = 0]
        /\ lost' = IF washUntil[sym] # seen[t] THEN lost \cup {sym} ELSE lost
    BY <1>10 DEF DeleteFlag
  <2>2. TaxTypes'
    BY <1>1, <1>2, <2>1 DEF TaxInv, TaxTypes
  <2>3. ASSUME NEW s \in TradedSymbols
        PROVE  washUntil'[s] # 0 => LossesIn(s) # {}
    BY <2>1 DEF TaxInv, TaxTypes, FlagsAreOfLosses
  <2>4. ASSUME NEW s \in TradedSymbols, NEW u \in LossesIn(s), NewestLoss(u), s \notin lost'
        PROVE  washUntil'[s] = tradeLog[u] + WashDays \/ OverLoss(u)
    <3>1. s \notin lost
      BY <2>1, <2>4
    <3>2. washUntil[s] = tradeLog[u] + WashDays \/ OverLoss(u)
      BY <2>4, <3>1 DEF TaxInv, FlagsAreOfLosses
    <3>3. CASE s = sym
      <4>1. washUntil[s] = seen[t] /\ seen[t] < day
        BY <2>1, <2>4, <3>3 DEF TaxInv, FlagsAreOfLosses
      <4> QED BY <3>2, <4>1 DEF OverLoss
    <3>4. CASE s # sym
      <4>1. washUntil'[s] = washUntil[s]
        BY <2>1, <3>4 DEF TaxInv, TaxTypes
      <4> QED BY <3>2, <4>1
    <3> QED BY <3>3, <3>4
  <2>5. ASSUME NEW u \in Trades, filing'[u] = "deleting" PROVE seen'[u] < day'
    <3>1. filing[u] = "deleting"
      BY <2>1, <2>5 DEF TaxInv, TaxTypes
    <3> QED BY <1>2, <2>1, <3>1 DEF TaxInv, FlagsAreOfLosses
  <2>6. FlagsAreOfLosses'
    BY <1>2, <1>5, <1>6, <1>7, <1>8, <2>1, <2>3, <2>4, <2>5 DEF TaxInv, FlagsAreOfLosses
  <2> QED BY <1>4, <2>2, <2>6 DEF TaxInv
<1> QED BY <1>9, <1>10

\* For any number of trades, symbols and handlers that overlap, every limit and
\* every window: the day trades of the window are reported at the limit, and the
\* flag of a symbol is that of its newest loss while that window is open, unless
\* an older loss was handled later or an older flag was deleted behind it.
THEOREM TaxRecordsAreKept == TaxSpec => []TaxRecordsAreSound
<1>1. TaxInit => TaxInv
  <2> SUFFICES ASSUME TaxInit PROVE TaxInv
    OBVIOUS
  <2>1. Filed = {} /\ dayTradeLog = {}
    BY DEF TaxInit, Filed
  <2>2. IsFiniteSet({}) /\ Cardinality({}) = 0
    BY FS_EmptySet
  <2>3. pdtAlert = FALSE
    BY Zenon DEF TaxInit
  <2>4. TaxTypes
    <3>1. pdtAlert \in BOOLEAN
      BY <2>3, Zenon
    <3>2. /\ day = 1 /\ tradeLog = [t \in Trades |-> 0] /\ filing = [t \in Trades |-> "none"]
          /\ washUntil = [s \in TradedSymbols |-> 0] /\ seen = [t \in Trades |-> 0]
      BY Zenon DEF TaxInit
    <3> QED BY <3>1, <3>2 DEF TaxTypes
  <2>5. DayTradesAreListed
    BY <2>1, <2>2, <2>3, TaxAssumption DEF DayTradesAreListed
  <2>6. FlagsAreOfLosses
    BY TaxAssumption DEF TaxInit, FlagsAreOfLosses, LossesIn
  <2> QED BY <2>4, <2>5, <2>6 DEF TaxInv
<1>2. TaxInv /\ [TaxNext]_taxVars => TaxInv'
  <2> SUFFICES ASSUME TaxInv, [TaxNext]_taxVars PROVE TaxInv'
    OBVIOUS
  <2>1. CASE UNCHANGED taxVars
    BY <2>1 DEF taxVars, TaxInv, TaxTypes, DayTradesAreListed, FlagsAreOfLosses, Filed, LossesIn,
                OverLoss, NewestLoss, TradedSymbols
  <2> QED BY <2>1, TaxTime, TaxFlag, TaxFile, TaxReentry, Zenon DEF TaxNext
<1> QED BY <1>1, <1>2, TaxInvImplies, PTL DEF TaxSpec

-----------------------------------------------------------------------------
(* Positions. *)

\* An object that protects position p.
Safe(p, pos) ==
  /\ pos \in [stop : Int, trail : Int, until : Int]
  /\ 0 <= RiskOf(p, pos) /\ RiskOf(p, pos) <= Risk
  /\ pos.trail # 0 => Profit(p, pos.trail) >= 0

\* Every object of a position protects it: in the store, in the table, at hand
\* in an evaluation, and in the messages that may still replace the one in the
\* table.
ObjectsProtect ==
  /\ minute \in Nat
  /\ rows = [p \in Pids |-> rows[p]] /\ monitors = [p \in Pids |-> monitors[p]]
  /\ evaluating = [p \in Pids |-> evaluating[p]]
  /\ \A p \in Pids :
       /\ rows[p] # None => Safe(p, rows[p])
       /\ monitors[p] # None => Safe(p, monitors[p])
       /\ evaluating[p] \in {Idle, Same} \/ Safe(p, evaluating[p])
       /\ evaluating[p] = Same => monitors[p] # None
  /\ \A u \in updates : u.pid \in Pids /\ Safe(u.pid, u.pos)

\* A position that is watched, or still being evaluated, has a fill event that
\* no trigger has used up.
Watching(p) == monitors[p] # None \/ evaluating[p] # Idle
TriggersArePaid ==
  /\ registered \in [Pids -> Nat] /\ triggered \in [Pids -> Nat]
  /\ \A p \in Pids : /\ triggered[p] <= registered[p]
                     /\ Watching(p) => triggered[p] + 1 <= registered[p]

\* Handlers that still owe the report of an order the broker took.
Owing(p) == {k \in ExitTasks : exiting[p][k] \in {"save", "delete", "publish"}}

\* Reports and handlers that owe one are backed by orders; what comes after an
\* order was taken comes only then, and it is taken only for a position that
\* a fill put under watch, so that the position is not opened again.
ClosesAreKept ==
  /\ tradesClosed \in [Pids -> Nat] /\ closes \in [Pids -> Nat]
  /\ exiting \in [Pids -> [ExitTasks -> {"none", "save", "delete", "publish", "audit"}]]
  /\ \A p \in Pids :
       /\ tradesClosed[p] + Cardinality(Owing(p)) <= closes[p]
       /\ rows[p] = None /\ (registered[p] > 0 \/ p \in active) => closes[p] > 0
       /\ (\E k \in ExitTasks : exiting[p][k] # "none") => closes[p] > 0
       /\ closes[p] > 0 => registered[p] > 0
       /\ closes[p] > 0 /\ p \in held => p \in working \cup unfilled

PositionInv == ObjectsProtect /\ TriggersArePaid /\ ClosesAreKept

\* The marks are no objects of a position.
LEMMA MarksAreNoObjects ==
  ASSUME NEW p, NEW pos, Safe(p, pos)
  PROVE  pos # None /\ pos # Idle /\ pos # Same
<1>1. DOMAIN pos = {"stop", "trail", "until"}
  BY DEF Safe
<1>2. DOMAIN None = {"stop"} /\ DOMAIN Idle = {"stop"} /\ DOMAIN Same = {"stop"}
  BY DEF None, Idle, Same
<1> QED BY <1>1, <1>2

\* They are told apart.
LEMMA MarksDiffer == None # Idle /\ None # Same /\ Idle # Same
<1>1. None.stop = 0 /\ Idle.stop = 1 /\ Same.stop = 2
  BY DEF None, Idle, Same
<1> QED BY <1>1

\* The stop of the plan protects.
LEMMA PlanProtects ==
  ASSUME NEW p \in Pids
  PROVE  Safe(p, Planned(p))
BY PositionsAssumption DEF Safe, Planned, RiskOf, Profit, Pids

\* A trailing stop locks in a level that is no loss.
LEMMA TrailProtects ==
  ASSUME NEW p \in Pids, NEW pos, Safe(p, pos), NEW price \in Nat,
         RiskOf(p, pos) > 0, TrailLevel(p, pos, price) # 0
  PROVE  Safe(p, [pos EXCEPT !.trail = TrailLevel(p, pos, price)])
<1> DEFINE level == TrailLevel(p, pos, price)
           moved == [pos EXCEPT !.trail = level]
<1>1. RiskOf(p, pos) \in Int /\ Entry \in Int /\ RiskOf(p, pos) \div 2 >= 0 /\ RiskOf(p, pos) \div 2 \in Int
  BY PositionsAssumption DEF RiskOf, Safe
<1>2. level \in Int /\ Profit(p, level) >= 0
  <2> HIDE DEF level
  <2>1. \/ level = Entry
        \/ p \in Longs /\ level = Entry + RiskOf(p, pos) \div 2
        \/ p \notin Longs /\ level = Entry - RiskOf(p, pos) \div 2
    BY DEF TrailLevel, level
  <2> QED BY <1>1, <2>1 DEF Profit
<1> HIDE DEF level
<1>3. moved \in [stop : Int, trail : Int, until : Int] /\ moved.stop = pos.stop /\ moved.trail = level
  BY <1>2 DEF Safe
<1> HIDE DEF moved
<1>4. Safe(p, moved)
  BY <1>2, <1>3 DEF Safe, RiskOf
<1> QED BY <1>4 DEF moved, level

\* A stop tightened by a regime flip is no further from the entry, and no later.
LEMMA TightProtects ==
  ASSUME NEW p \in Pids, NEW pos, Safe(p, pos), minute \in Nat
  PROVE  Safe(p, [pos EXCEPT !.stop = TightStop(p, pos),
                             !.until = IF @ < minute + 1 THEN @ ELSE minute + 1])
<1> DEFINE stop == TightStop(p, pos)
           until == IF pos.until < minute + 1 THEN pos.until ELSE minute + 1
           moved == [pos EXCEPT !.stop = stop, !.until = until]
<1>1. /\ RiskOf(p, pos) \in Int /\ Entry \in Int /\ RiskOf(p, pos) \div 2 >= 0 /\ RiskOf(p, pos) \div 2 \in Int
      /\ RiskOf(p, pos) \div 2 <= Risk
  BY PositionsAssumption DEF RiskOf, Safe
<1>2. /\ p \in Longs => stop = Entry - RiskOf(p, pos) \div 2
      /\ p \notin Longs => stop = Entry + RiskOf(p, pos) \div 2
  BY DEF TightStop
<1>3. stop \in Int /\ until \in Int
  BY <1>1, <1>2 DEF Safe
<1> HIDE DEF stop, until
<1>4. moved \in [stop : Int, trail : Int, until : Int] /\ moved.stop = stop /\ moved.trail = pos.trail
  BY <1>3 DEF Safe
<1> HIDE DEF moved
<1>5. Safe(p, moved)
  BY <1>1, <1>2, <1>4 DEF Safe, RiskOf
<1> QED BY <1>5 DEF moved, stop, until

\* The handlers of a position that owe a report are finitely many.
LEMMA OwingIsFinite ==
  ASSUME PositionInv, NEW p \in Pids
  PROVE  IsFiniteSet(Owing(p)) /\ Cardinality(Owing(p)) \in Nat
BY PositionsAssumption, FS_Subset, FS_CardinalityType DEF Owing

\* What neither the exit agent nor the broker takes part in.
LEMMA ClosesStay ==
  ASSUME PositionInv, UNCHANGED <<active, exiting, tradesClosed, broker>>,
         \A p \in Pids :
           /\ rows'[p] = None => rows[p] = None
           /\ registered'[p] > 0 => (registered[p] > 0 \/ rows'[p] # None)
           /\ registered[p] > 0 => registered'[p] > 0
  PROVE  ClosesAreKept'
<1>1. UNCHANGED <<active, exiting, tradesClosed, held, working, closes, unfilled>>
  BY DEF broker
<1>2. ASSUME NEW p \in Pids PROVE Owing(p)' = Owing(p)
  BY <1>1 DEF Owing
<1>3. ASSUME NEW p \in Pids
      PROVE  rows'[p] = None /\ (registered'[p] > 0 \/ p \in active') => closes'[p] > 0
  BY <1>1 DEF PositionInv, ClosesAreKept
<1> QED BY <1>1, <1>2, <1>3 DEF PositionInv, ClosesAreKept

\* A position is opened: it was never watched.
LEMMA OpenStep ==
  ASSUME PositionInv, NEW p \in Pids, OpenPosition(p)
  PROVE  PositionInv'
<1>1. /\ registered[p] = 0 /\ p \notin held
      /\ rows' = [rows EXCEPT ![p] = Planned(p)]
      /\ held' = held \cup {p}
      /\ UNCHANGED <<minute, monitors, evaluating, registered, updates, triggered, active, exiting,
                     tradesClosed, working, closes, unfilled>>
  BY DEF OpenPosition, watch, exits
<1>2. ObjectsProtect'
  BY <1>1, PlanProtects DEF PositionInv, ObjectsProtect, Pids
<1>3. TriggersArePaid'
  BY <1>1 DEF PositionInv, TriggersArePaid, Watching
<1>4. ClosesAreKept'
  <2>1. ASSUME NEW q \in Pids PROVE Owing(q)' = Owing(q)
    BY <1>1 DEF Owing
  <2>2. rows'[p] # None /\ \A q \in Pids : q # p => rows'[q] = rows[q]
    BY <1>1, PlanProtects, MarksAreNoObjects DEF PositionInv, ObjectsProtect
  <2>3. closes[p] = 0
    BY <1>1 DEF PositionInv, ClosesAreKept
  <2>4. ASSUME NEW q \in Pids
        PROVE  /\ rows'[q] = None /\ (registered'[q] > 0 \/ q \in active') => closes'[q] > 0
               /\ closes'[q] > 0 /\ q \in held' => q \in working' \cup unfilled'
    BY <1>1, <2>2, <2>3 DEF PositionInv, ClosesAreKept
  <2> QED BY <1>1, <2>1, <2>4 DEF PositionInv, ClosesAreKept
<1> QED BY <1>2, <1>3, <1>4 DEF PositionInv

\* A fill event puts the row of the store under watch.
LEMMA RegisterStep ==
  ASSUME PositionInv, NEW p \in Pids, RegisterFill(p)
  PROVE  PositionInv'
<1>1. /\ rows[p] # None /\ monitors[p] = None
      /\ monitors' = [monitors EXCEPT ![p] = rows[p]]
      /\ registered' = [registered EXCEPT ![p] = @ + 1]
      /\ UNCHANGED <<minute, rows, evaluating, updates, triggered, active, exiting, tradesClosed, broker>>
  BY DEF RegisterFill, exits
<1>2. ObjectsProtect'
  BY <1>1 DEF PositionInv, ObjectsProtect
<1>3. TriggersArePaid'
  BY <1>1 DEF PositionInv, TriggersArePaid, Watching, ObjectsProtect
<1>4. ClosesAreKept'
  <2>1. ASSUME NEW q \in Pids
        PROVE  /\ rows'[q] = None => rows[q] = None
               /\ registered'[q] > 0 => (registered[q] > 0 \/ rows'[q] # None)
               /\ registered[q] > 0 => registered'[q] > 0
    BY <1>1 DEF PositionInv, TriggersArePaid
  <2> QED BY <1>1, <2>1, ClosesStay
<1> QED BY <1>2, <1>3, <1>4 DEF PositionInv

\* The object an evaluation holds outlives its place in the table.
LEMMA DetachedProtects ==
  ASSUME PositionInv, NEW p \in Pids, monitors[p] # None, evaluating' = Detached(p)
  PROVE  /\ evaluating' = [q \in Pids |-> evaluating'[q]]
         /\ \A q \in Pids : q # p => evaluating'[q] = evaluating[q]
         /\ evaluating'[p] = Idle \/ Safe(p, evaluating'[p])
         /\ evaluating'[p] # Idle <=> evaluating[p] # Idle
<1>1. Safe(p, monitors[p]) /\ monitors[p] # Idle
  BY MarksAreNoObjects DEF PositionInv, ObjectsProtect
<1>2. CASE evaluating[p] = Same
  <2>1. evaluating' = [evaluating EXCEPT ![p] = monitors[p]]
    BY <1>2 DEF Detached
  <2> QED BY <1>1, <1>2, <2>1, MarksDiffer DEF PositionInv, ObjectsProtect
<1>3. CASE evaluating[p] # Same
  <2>1. evaluating' = evaluating
    BY <1>3 DEF Detached
  <2> QED BY <1>3, <2>1 DEF PositionInv, ObjectsProtect
<1> QED BY <1>2, <1>3

\* An update, new or old, replaces the object in the table.
LEMMA TakeUpdateStep ==
  ASSUME PositionInv, NEW u \in updates, TakeUpdate(u)
  PROVE  PositionInv'
<1> DEFINE p == u.pid
<1>1. p \in Pids /\ Safe(p, u.pos)
  BY DEF PositionInv, ObjectsProtect
<1>2. /\ monitors[p] # None /\ evaluating' = Detached(p)
      /\ monitors' = [monitors EXCEPT ![p] = u.pos]
      /\ UNCHANGED <<minute, rows, registered, updates, triggered, active, exiting, tradesClosed, broker>>
  BY DEF TakeUpdate, exits
<1> HIDE DEF p
<1>3. /\ evaluating' = [q \in Pids |-> evaluating'[q]]
      /\ \A q \in Pids : q # p => evaluating'[q] = evaluating[q]
      /\ evaluating'[p] = Idle \/ Safe(p, evaluating'[p])
      /\ evaluating'[p] # Idle <=> evaluating[p] # Idle
  BY <1>1, <1>2, DetachedProtects
<1>4. u.pos # None
  BY <1>1, MarksAreNoObjects
<1>5. ObjectsProtect'
  <2>1. ASSUME NEW q \in Pids
        PROVE  /\ rows'[q] # None => Safe(q, rows'[q])
               /\ monitors'[q] # None => Safe(q, monitors'[q])
               /\ evaluating'[q] \in {Idle, Same} \/ Safe(q, evaluating'[q])
               /\ evaluating'[q] = Same => monitors'[q] # None
    <3>1. CASE q = p
      BY <1>1, <1>2, <1>3, <1>4, <3>1 DEF PositionInv, ObjectsProtect
    <3>2. CASE q # p
      BY <1>1, <1>2, <1>3, <3>2 DEF PositionInv, ObjectsProtect
    <3> QED BY <3>1, <3>2
  <2> QED BY <1>1, <1>2, <1>3, <2>1 DEF PositionInv, ObjectsProtect
<1>6. TriggersArePaid'
  BY <1>1, <1>2, <1>3 DEF PositionInv, TriggersArePaid, Watching, ObjectsProtect
<1>7. ClosesAreKept'
  BY <1>2, ClosesStay DEF PositionInv, ObjectsProtect
<1> QED BY <1>5, <1>6, <1>7 DEF PositionInv

\* A position closed elsewhere leaves the table, not the evaluation.
LEMMA TakeClosedStep ==
  ASSUME PositionInv, NEW p \in Pids, TakeClosed(p)
  PROVE  PositionInv'
<1>1. /\ monitors[p] # None /\ evaluating' = Detached(p)
      /\ monitors' = [monitors EXCEPT ![p] = None]
      /\ UNCHANGED <<minute, rows, registered, updates, triggered, active, exiting, tradesClosed, broker>>
  BY DEF TakeClosed, exits
<1>2. /\ evaluating' = [q \in Pids |-> evaluating'[q]]
      /\ \A q \in Pids : q # p => evaluating'[q] = evaluating[q]
      /\ evaluating'[p] = Idle \/ Safe(p, evaluating'[p])
      /\ evaluating'[p] # Idle <=> evaluating[p] # Idle
  BY <1>1, DetachedProtects
<1>3. evaluating'[p] # Same
  BY <1>2, MarksAreNoObjects, MarksDiffer
<1>4. ObjectsProtect'
  <2>1. ASSUME NEW q \in Pids
        PROVE  /\ rows'[q] # None => Safe(q, rows'[q])
               /\ monitors'[q] # None => Safe(q, monitors'[q])
               /\ evaluating'[q] \in {Idle, Same} \/ Safe(q, evaluating'[q])
               /\ evaluating'[q] = Same => monitors'[q] # None
    <3>1. CASE q = p
      BY <1>1, <1>2, <1>3, <3>1 DEF PositionInv, ObjectsProtect
    <3>2. CASE q # p
      BY <1>1, <1>2, <3>2 DEF PositionInv, ObjectsProtect
    <3> QED BY <3>1, <3>2
  <2> QED BY <1>1, <1>2, <2>1 DEF PositionInv, ObjectsProtect
<1>5. TriggersArePaid'
  BY <1>1, <1>2 DEF PositionInv, TriggersArePaid, Watching, ObjectsProtect
<1>6. ClosesAreKept'
  BY <1>1, ClosesStay DEF PositionInv, ObjectsProtect
<1> QED BY <1>4, <1>5, <1>6 DEF PositionInv

\* A trigger takes the position from the table and ends the evaluation.
LEMMA TriggerStep ==
  ASSUME PositionInv, NEW p \in Pids, Watching(p), TriggerExit(p)
  PROVE  PositionInv'
<1>1. /\ monitors' = [monitors EXCEPT ![p] = None]
      /\ triggered' = [triggered EXCEPT ![p] = @ + 1]
      /\ evaluating' = [evaluating EXCEPT ![p] = Idle]
      /\ UNCHANGED <<minute, rows, registered, updates, active, exiting, tradesClosed, broker>>
  BY DEF TriggerExit, MonitorsAfterTrigger, exits
<1>2. ObjectsProtect'
  BY <1>1, MarksDiffer DEF PositionInv, ObjectsProtect
<1>3. TriggersArePaid'
  <2>1. triggered[p] + 1 <= registered[p]
    BY DEF PositionInv, TriggersArePaid
  <2>2. ~Watching(p)'
    BY <1>1 DEF PositionInv, ObjectsProtect, Watching
  <2> QED BY <1>1, <2>1, <2>2 DEF PositionInv, TriggersArePaid, Watching, ObjectsProtect
<1>4. ClosesAreKept'
  BY <1>1, ClosesStay DEF PositionInv, ObjectsProtect
<1> QED BY <1>2, <1>3, <1>4 DEF PositionInv

\* An evaluation begins, or fires the time stop.
LEMMA BeginStep ==
  ASSUME PositionInv, NEW p \in Pids, BeginEvaluation(p)
  PROVE  PositionInv'
<1>1. monitors[p] # None /\ Watching(p)
  BY DEF BeginEvaluation, Watching
<1>2. CASE TriggerExit(p)
  BY <1>1, <1>2, TriggerStep
<1>3. CASE ~TriggerExit(p)
  <2>1. /\ evaluating' = [evaluating EXCEPT ![p] = Same]
        /\ UNCHANGED <<minute, rows, monitors, registered, updates, triggered, active, exiting, tradesClosed, broker>>
    BY <1>3 DEF BeginEvaluation, exits
  <2>2. ObjectsProtect'
    BY <1>1, <2>1 DEF PositionInv, ObjectsProtect
  <2>3. TriggersArePaid'
    BY <1>1, <2>1 DEF PositionInv, TriggersArePaid, Watching, ObjectsProtect
  <2>4. ClosesAreKept'
    BY <2>1, ClosesStay DEF PositionInv, ObjectsProtect
  <2> QED BY <2>2, <2>3, <2>4 DEF PositionInv
<1> QED BY <1>2, <1>3

\* It is given up.
LEMMA NoTickStep ==
  ASSUME PositionInv, NEW p \in Pids, NoTick(p)
  PROVE  PositionInv'
<1>1. /\ evaluating' = [evaluating EXCEPT ![p] = Idle]
      /\ UNCHANGED <<minute, rows, monitors, registered, updates, triggered, active, exiting, tradesClosed, broker>>
  BY DEF NoTick, exits
<1>2. ObjectsProtect'
  BY <1>1, MarksDiffer DEF PositionInv, ObjectsProtect
<1>3. TriggersArePaid'
  BY <1>1 DEF PositionInv, TriggersArePaid, Watching, ObjectsProtect
<1>4. ClosesAreKept'
  BY <1>1, ClosesStay DEF PositionInv, ObjectsProtect
<1> QED BY <1>2, <1>3, <1>4 DEF PositionInv

\* It ends with a trigger, with a better trailing stop on its own object, or with
\* nothing.
LEMMA FinishStep ==
  ASSUME PositionInv, NEW p \in Pids, NEW price \in MidPrices, NEW tape \in Tapes,
         FinishEvaluation(p, price, tape)
  PROVE  PositionInv'
<1>1. evaluating[p] # Idle /\ Watching(p)
  BY DEF FinishEvaluation, Watching
<1>2. CASE TriggerExit(p)
  BY <1>1, <1>2, TriggerStep
<1> DEFINE pos == IF evaluating[p] = Same THEN monitors[p] ELSE evaluating[p]
           moved == [pos EXCEPT !.trail = TrailLevel(p, pos, price)]
<1>3. CASE ~TriggerExit(p)
  <2>1. /\ evaluating' = [evaluating EXCEPT ![p] = Idle]
        /\ UNCHANGED <<minute, registered, triggered, active, exiting, tradesClosed, broker>>
        /\ \/ UNCHANGED <<monitors, rows, updates>>
           \/ /\ RiskOf(p, pos) > 0 /\ TrailLevel(p, pos, price) # 0
              /\ monitors' = IF evaluating[p] = Same THEN [monitors EXCEPT ![p] = moved] ELSE monitors
              /\ rows' = [rows EXCEPT ![p] = moved]
              /\ updates' = updates \cup {[pid |-> p, pos |-> moved]}
    BY <1>3 DEF FinishEvaluation, exits
  <2>2. Safe(p, pos)
    BY <1>1 DEF PositionInv, ObjectsProtect
  <2>3. price \in Nat
    BY PositionsAssumption
  <2> HIDE DEF pos
  <2>4. RiskOf(p, pos) > 0 /\ TrailLevel(p, pos, price) # 0 => Safe(p, moved) /\ moved # None
    BY <2>2, <2>3, TrailProtects, MarksAreNoObjects
  <2> HIDE DEF moved
  <2>5. CASE UNCHANGED <<monitors, rows, updates>>
    <3>1. ObjectsProtect'
      BY <2>1, <2>5, MarksDiffer DEF PositionInv, ObjectsProtect
    <3>2. TriggersArePaid'
      BY <2>1, <2>5 DEF PositionInv, TriggersArePaid, Watching, ObjectsProtect
    <3>3. ClosesAreKept'
      BY <2>1, <2>5, ClosesStay
    <3> QED BY <3>1, <3>2, <3>3 DEF PositionInv
  <2>6. CASE ~UNCHANGED <<monitors, rows, updates>>
    <3>1. /\ Safe(p, moved) /\ moved # None
          /\ rows' = [rows EXCEPT ![p] = moved]
          /\ updates' = updates \cup {[pid |-> p, pos |-> moved]}
          /\ monitors' = IF evaluating[p] = Same THEN [monitors EXCEPT ![p] = moved] ELSE monitors
      BY <2>1, <2>4, <2>6
    <3>2. /\ monitors' = [q \in Pids |-> monitors'[q]]
          /\ monitors'[p] = monitors[p] \/ monitors'[p] = moved
          /\ \A q \in Pids : q # p => monitors'[q] = monitors[q]
      BY <3>1 DEF PositionInv, ObjectsProtect
    <3>3. ObjectsProtect'
      <4>1. ASSUME NEW q \in Pids
            PROVE  /\ rows'[q] # None => Safe(q, rows'[q])
                   /\ monitors'[q] # None => Safe(q, monitors'[q])
                   /\ evaluating'[q] \in {Idle, Same} \/ Safe(q, evaluating'[q])
                   /\ evaluating'[q] = Same => monitors'[q] # None
        <5>1. CASE q = p
          BY <2>1, <3>1, <3>2, <5>1, MarksDiffer DEF PositionInv, ObjectsProtect
        <5>2. CASE q # p
          BY <2>1, <3>1, <3>2, <5>2 DEF PositionInv, ObjectsProtect
        <5> QED BY <5>1, <5>2
      <4>2. \A u \in updates' : u.pid \in Pids /\ Safe(u.pid, u.pos)
        BY <3>1 DEF PositionInv, ObjectsProtect
      <4>3. /\ minute' \in Nat /\ rows' = [q \in Pids |-> rows'[q]]
            /\ evaluating' = [q \in Pids |-> evaluating'[q]]
        BY <2>1, <3>1 DEF PositionInv, ObjectsProtect
      <4> QED BY <3>2, <4>1, <4>2, <4>3 DEF ObjectsProtect
    <3>4. TriggersArePaid'
      <4>1. \A q \in Pids : Watching(q)' => Watching(q)
        BY <1>1, <2>1, <3>2 DEF Watching, PositionInv, ObjectsProtect
      <4> QED BY <2>1, <4>1 DEF PositionInv, TriggersArePaid
    <3>5. ClosesAreKept'
      <4>1. \A q \in Pids : rows'[q] = None => rows[q] = None
        BY <3>1 DEF PositionInv, ObjectsProtect
      <4> QED BY <2>1, <4>1, ClosesStay
    <3> QED BY <3>3, <3>4, <3>5 DEF PositionInv
  <2> QED BY <2>5, <2>6
<1> QED BY <1>2, <1>3

\* A regime flip halves the risk of what is watched, wherever the object is.
LEMMA FlipStep ==
  ASSUME PositionInv, RegimeFlips
  PROVE  PositionInv'
<1> DEFINE flipped == {p \in Pids \ tightened : monitors[p] # None}
           tight(p) == [monitors[p] EXCEPT !.stop = TightStop(p, monitors[p]),
                                           !.until = IF @ < minute + 1 THEN @ ELSE minute + 1]
<1>1. /\ monitors' = [p \in Pids |-> IF p \in flipped THEN tight(p) ELSE monitors[p]]
      /\ rows' = [p \in Pids |-> IF p \in flipped THEN tight(p) ELSE rows[p]]
      /\ updates' = updates \cup {[pid |-> p, pos |-> tight(p)] : p \in flipped}
      /\ UNCHANGED <<minute, evaluating, registered, triggered, active, exiting, tradesClosed, broker>>
  BY DEF RegimeFlips, exits
<1>2. ASSUME NEW p \in flipped PROVE Safe(p, tight(p)) /\ tight(p) # None
  <2>1. Safe(p, monitors[p]) /\ p \in Pids /\ minute \in Nat
    BY DEF PositionInv, ObjectsProtect
  <2>2. Safe(p, tight(p))
    BY <2>1, TightProtects
  <2> QED BY <2>2, MarksAreNoObjects
<1>3. flipped \subseteq {p \in Pids : monitors[p] # None}
  OBVIOUS
<1> HIDE DEF flipped, tight
<1>4. ASSUME NEW p \in Pids
      PROVE  /\ rows'[p] # None => Safe(p, rows'[p])
             /\ monitors'[p] # None => Safe(p, monitors'[p])
             /\ monitors'[p] # None <=> monitors[p] # None
  <2>1. CASE p \in flipped
    BY <1>1, <1>2, <1>3, <2>1
  <2>2. CASE p \notin flipped
    BY <1>1, <2>2 DEF PositionInv, ObjectsProtect
  <2> QED BY <2>1, <2>2
<1>5. \A u \in updates' : u.pid \in Pids /\ Safe(u.pid, u.pos)
  BY <1>1, <1>2, <1>3 DEF PositionInv, ObjectsProtect
<1>6. rows' = [p \in Pids |-> rows'[p]] /\ monitors' = [p \in Pids |-> monitors'[p]]
  BY <1>1
<1>7. ObjectsProtect'
  BY <1>1, <1>4, <1>5, <1>6 DEF PositionInv, ObjectsProtect
<1>8. TriggersArePaid'
  BY <1>1, <1>4 DEF PositionInv, TriggersArePaid, Watching
<1>9. ClosesAreKept'
  <2>1. ASSUME NEW p \in Pids, rows'[p] = None PROVE rows[p] = None
    <3>1. p \notin flipped
      BY <1>1, <1>2, <2>1
    <3> QED BY <1>1, <2>1, <3>1
  <2> QED BY <1>1, <2>1, ClosesStay
<1> QED BY <1>7, <1>8, <1>9 DEF PositionInv

\* The exit agent's handlers leave the watch alone, and rows only go.
LEMMA ExitLeavesWatch ==
  ASSUME PositionInv, NEW p \in Pids,
         UNCHANGED <<minute, monitors, evaluating, registered, updates, triggered>>,
         rows' = rows \/ rows' = [rows EXCEPT ![p] = None]
  PROVE  ObjectsProtect' /\ TriggersArePaid'
<1>1. ObjectsProtect'
  BY DEF PositionInv, ObjectsProtect
<1>2. TriggersArePaid'
  BY DEF PositionInv, TriggersArePaid, Watching
<1> QED BY <1>1, <1>2

\* An order taken is an order more; the handler it is answered to owes its report.
LEMMA ExecuteStep ==
  ASSUME PositionInv, NEW p \in Pids, NEW k \in ExitTasks, ExecuteExit(p, k)
  PROVE  PositionInv'
<1>1. PICK taken \in BOOLEAN, answered \in BOOLEAN :
        /\ triggered[p] > 0 /\ exiting[p][k] = "none"
        /\ taken => Takes(p)
        /\ answered => taken
        /\ working' = IF taken THEN working \cup {p} ELSE working
        /\ closes' = IF taken THEN [closes EXCEPT ![p] = @ + 1] ELSE closes
        /\ exiting' = IF answered THEN [exiting EXCEPT ![p][k] = "save"] ELSE exiting
        /\ UNCHANGED <<minute, rows, watch, updates, triggered, active, noReentry, tradesClosed, held, unfilled>>
  BY DEF ExecuteExit, Confirmed
<1>2. ObjectsProtect' /\ TriggersArePaid'
  <2>1. UNCHANGED <<minute, monitors, evaluating, registered, updates, triggered, rows>>
    BY <1>1 DEF watch
  <2> QED BY <2>1, ExitLeavesWatch
<1>3. CASE ~taken
  <2>1. UNCHANGED <<active, exiting, tradesClosed, held, working, closes, unfilled, rows, registered>>
    BY <1>1, <1>3 DEF watch
  <2>2. UNCHANGED <<active, exiting, tradesClosed, broker>>
    BY <2>1 DEF broker
  <2>3. ClosesAreKept'
    BY <2>1, <2>2, ClosesStay
  <2> QED BY <1>2, <2>3 DEF PositionInv
<1>4. CASE taken
  <2>1. registered[p] > 0 /\ p \in held
    BY <1>1, <1>4 DEF PositionInv, TriggersArePaid, Takes
  <2>2. UNCHANGED <<active, tradesClosed, held, unfilled, rows, registered>>
    BY <1>1 DEF watch
  <2>3. /\ closes' = [closes EXCEPT ![p] = @ + 1] /\ working' = working \cup {p}
        /\ closes' \in [Pids -> Nat]
    BY <1>1, <1>4 DEF PositionInv, ClosesAreKept
  <2>4. exiting' \in [Pids -> [ExitTasks -> {"none", "save", "delete", "publish", "audit"}]]
    BY <1>1 DEF PositionInv, ClosesAreKept
  <2>5. ASSUME NEW q \in Pids, q # p PROVE Owing(q)' = Owing(q) /\ exiting'[q] = exiting[q]
    <3>1. exiting'[q] = exiting[q]
      BY <1>1, <2>5 DEF PositionInv, ClosesAreKept
    <3> QED BY <3>1 DEF Owing
  <2>6. Owing(p)' = Owing(p) \/ Owing(p)' = Owing(p) \cup {k}
    BY <1>1 DEF Owing, PositionInv, ClosesAreKept
  <2>7. Cardinality(Owing(p)') \in Nat /\ Cardinality(Owing(p)') <= Cardinality(Owing(p)) + 1
    BY <2>6, OwingIsFinite, FS_AddElement
  <2>8. ASSUME NEW q \in Pids
        PROVE  tradesClosed'[q] + Cardinality(Owing(q)') <= closes'[q]
    <3>1. CASE q = p
      <4>1. tradesClosed[p] + Cardinality(Owing(p)) <= closes[p] /\ tradesClosed[p] \in Nat /\ closes[p] \in Nat
        BY DEF PositionInv, ClosesAreKept
      <4>2. closes'[p] = closes[p] + 1 /\ tradesClosed'[p] = tradesClosed[p]
        BY <2>2, <2>3 DEF PositionInv, ClosesAreKept
      <4>3. Cardinality(Owing(p)) \in Nat
        BY OwingIsFinite
      <4> QED BY <2>7, <3>1, <4>1, <4>2, <4>3
    <3>2. CASE q # p
      BY <2>2, <2>3, <2>5, <3>2 DEF PositionInv, ClosesAreKept
    <3> QED BY <3>1, <3>2
  <2>9. ASSUME NEW q \in Pids
        PROVE  /\ rows'[q] = None /\ (registered'[q] > 0 \/ q \in active') => closes'[q] > 0
               /\ (\E l \in ExitTasks : exiting'[q][l] # "none") => closes'[q] > 0
               /\ closes'[q] > 0 => registered'[q] > 0
               /\ closes'[q] > 0 /\ q \in held' => q \in working' \cup unfilled'
    <3>1. CASE q = p
      BY <2>1, <2>2, <2>3, <3>1 DEF PositionInv, ClosesAreKept
    <3>2. CASE q # p
      BY <2>2, <2>3, <2>5, <3>2 DEF PositionInv, ClosesAreKept
    <3> QED BY <3>1, <3>2
  <2>10. ClosesAreKept'
    BY <2>2, <2>3, <2>4, <2>8, <2>9 DEF PositionInv, ClosesAreKept
  <2> QED BY <1>2, <2>10 DEF PositionInv
<1> QED BY <1>3, <1>4

\* Behind the broker's answer a handler goes on, reports, or is cut off.
LEMMA HandlerStep ==
  ASSUME PositionInv, NEW p \in Pids, NEW k \in ExitTasks,
         \/ TradeSaved(p, k) \/ RowDeleted(p, k) \/ ExitFails(p, k)
         \/ (\E raises \in BOOLEAN : ClosePublished(p, k, raises))
         \/ (\E stopOut \in BOOLEAN : ExitDone(p, k, stopOut))
  PROVE  PositionInv'
<1>1. /\ UNCHANGED <<minute, watch, updates, triggered, broker>>
      /\ exiting[p][k] # "none"
      /\ \E stage \in {"none", "save", "delete", "publish", "audit"} : exiting' = [exiting EXCEPT ![p][k] = stage]
      /\ rows' = rows \/ rows' = [rows EXCEPT ![p] = None]
      /\ active' \subseteq active
  BY DEF TradeSaved, RowDeleted, ExitFails, ClosePublished, ExitDone
<1>2. ObjectsProtect' /\ TriggersArePaid'
  <2>1. UNCHANGED <<minute, monitors, evaluating, registered, updates, triggered>>
    BY <1>1 DEF watch
  <2> QED BY <1>1, <2>1, ExitLeavesWatch
<1>3. UNCHANGED <<held, working, closes, unfilled, registered>>
  BY <1>1 DEF broker, watch
<1>4. closes[p] > 0
  BY <1>1 DEF PositionInv, ClosesAreKept
<1>5. /\ exiting' \in [Pids -> [ExitTasks -> {"none", "save", "delete", "publish", "audit"}]]
      /\ \A q \in Pids : q # p => exiting'[q] = exiting[q]
      /\ \A l \in ExitTasks : l # k => exiting'[p][l] = exiting[p][l]
  BY <1>1 DEF PositionInv, ClosesAreKept
<1>6. ASSUME NEW q \in Pids, q # p PROVE Owing(q)' = Owing(q)
  BY <1>5, <1>6 DEF Owing
<1>7. /\ tradesClosed' \in [Pids -> Nat]
      /\ \A q \in Pids : tradesClosed'[q] + Cardinality(Owing(q)') <= closes[q]
  <2>1. /\ tradesClosed \in [Pids -> Nat] /\ closes \in [Pids -> Nat]
        /\ \A q \in Pids : tradesClosed[q] + Cardinality(Owing(q)) <= closes[q]
    BY DEF PositionInv, ClosesAreKept
  <2>2. CASE \E raises \in BOOLEAN : ClosePublished(p, k, raises)
    <3>1. /\ exiting[p][k] = "publish" /\ tradesClosed' = [tradesClosed EXCEPT ![p] = @ + 1]
          /\ exiting' = [exiting EXCEPT ![p][k] = "none"] \/ exiting' = [exiting EXCEPT ![p][k] = "audit"]
      BY <2>2 DEF ClosePublished
    <3>2. exiting'[p][k] \in {"none", "audit"}
      BY <3>1 DEF PositionInv, ClosesAreKept
    <3>3. Owing(p)' = Owing(p) \ {k} /\ k \in Owing(p)
      BY <1>5, <3>1, <3>2 DEF Owing
    <3>4. /\ Cardinality(Owing(p)) \in Nat
          /\ Cardinality(Owing(p)') = Cardinality(Owing(p)) - 1
      BY <3>3, OwingIsFinite, FS_RemoveElement
    <3>5. tradesClosed'[p] = tradesClosed[p] + 1 /\ \A q \in Pids : q # p => tradesClosed'[q] = tradesClosed[q]
      BY <2>1, <3>1
    <3>6. ASSUME NEW q \in Pids PROVE tradesClosed'[q] + Cardinality(Owing(q)') <= closes[q]
      <4>1. CASE q = p
        BY <2>1, <3>4, <3>5, <4>1
      <4>2. CASE q # p
        BY <1>6, <2>1, <3>5, <4>2
      <4> QED BY <4>1, <4>2
    <3> QED BY <2>1, <3>1, <3>6
  <2>3. CASE ~ \E raises \in BOOLEAN : ClosePublished(p, k, raises)
    <3>1. /\ tradesClosed' = tradesClosed
          /\ exiting'[p][k] \in {"save", "delete", "publish"} => exiting[p][k] \in {"save", "delete", "publish"}
      BY <2>3 DEF TradeSaved, RowDeleted, ExitFails, ExitDone, PositionInv, ClosesAreKept
    <3>2. Owing(p)' \subseteq Owing(p)
      BY <1>5, <3>1 DEF Owing
    <3>3. Cardinality(Owing(p)') <= Cardinality(Owing(p)) /\ Cardinality(Owing(p)') \in Nat
      BY <3>2, OwingIsFinite, FS_Subset, FS_CardinalityType
    <3>4. ASSUME NEW q \in Pids PROVE tradesClosed'[q] + Cardinality(Owing(q)') <= closes[q]
      <4>1. CASE q = p
        <5>1. Cardinality(Owing(p)) \in Nat
          BY OwingIsFinite
        <5> QED BY <2>1, <3>1, <3>3, <4>1, <5>1
      <4>2. CASE q # p
        BY <1>6, <2>1, <3>1, <4>2
      <4> QED BY <4>1, <4>2
    <3> QED BY <2>1, <3>1, <3>4
  <2> QED BY <2>2, <2>3
<1>8. ASSUME NEW q \in Pids
      PROVE  /\ rows'[q] = None /\ (registered'[q] > 0 \/ q \in active') => closes'[q] > 0
             /\ (\E l \in ExitTasks : exiting'[q][l] # "none") => closes'[q] > 0
             /\ closes'[q] > 0 => registered'[q] > 0
             /\ closes'[q] > 0 /\ q \in held' => q \in working' \cup unfilled'
  <2>1. CASE q = p
    BY <1>3, <1>4, <2>1 DEF PositionInv, ClosesAreKept
  <2>2. CASE q # p
    <3>1. rows'[q] = rows[q]
      BY <1>1, <2>2 DEF PositionInv, ObjectsProtect
    <3> QED BY <1>1, <1>3, <1>5, <2>2, <3>1 DEF PositionInv, ClosesAreKept
  <2> QED BY <2>1, <2>2
<1>9. ClosesAreKept'
  <2>1. closes' \in [Pids -> Nat] /\ closes' = closes
    BY <1>3 DEF PositionInv, ClosesAreKept
  <2> QED BY <1>5, <1>7, <1>8, <2>1 DEF ClosesAreKept
<1> QED BY <1>2, <1>9 DEF PositionInv

\* Fills put a position in the exit agent's table, and what happens at the broker
\* moves a position from a working order to none.
LEMMA BrokerStep ==
  ASSUME PositionInv,
         \/ \E p \in Pids : TrackPosition(p) \/ ReentryAsked(p) \/ PositionGoes(p) \/ CloseUnfilled(p)
         \/ \E cancelled, closing \in BOOLEAN : EmergencyFlatten(cancelled, closing)
         \/ MinutePasses \/ UNCHANGED positionVars
  PROVE  PositionInv'
<1>1. /\ UNCHANGED <<rows, watch, updates, triggered, exiting, tradesClosed, closes>>
      /\ minute' = minute \/ minute' = minute + 1
      /\ held' \subseteq held
      /\ \A q \in Pids : q \in active' => q \in active \/ rows[q] # None \/ registered[q] > 0
      /\ \A q \in Pids : q \in held' /\ q \in working \cup unfilled => q \in working' \cup unfilled'
  <2>1. CASE \E p \in Pids : TrackPosition(p) \/ ReentryAsked(p)
    BY <2>1 DEF TrackPosition, ReentryAsked, broker
  <2>2. CASE \E p \in Pids : PositionGoes(p) \/ CloseUnfilled(p)
    BY <2>2 DEF PositionGoes, CloseUnfilled, exits
  <2>3. CASE \E cancelled, closing \in BOOLEAN : EmergencyFlatten(cancelled, closing)
    BY <2>3 DEF EmergencyFlatten
  <2>4. CASE MinutePasses \/ UNCHANGED positionVars
    BY <2>4 DEF MinutePasses, positionVars, exits, broker
  <2> QED BY <2>1, <2>2, <2>3, <2>4
<1>2. UNCHANGED <<monitors, evaluating, registered>>
  BY <1>1 DEF watch
<1>3. ObjectsProtect'
  BY <1>1, <1>2 DEF PositionInv, ObjectsProtect
<1>4. TriggersArePaid'
  BY <1>1, <1>2 DEF PositionInv, TriggersArePaid, Watching
<1>5. ClosesAreKept'
  <2>1. ASSUME NEW q \in Pids PROVE Owing(q)' = Owing(q)
    BY <1>1 DEF Owing
  <2>2. ASSUME NEW q \in Pids
        PROVE  /\ rows'[q] = None /\ (registered'[q] > 0 \/ q \in active') => closes'[q] > 0
               /\ closes'[q] > 0 /\ q \in held' => q \in working' \cup unfilled'
    BY <1>1, <1>2 DEF PositionInv, ClosesAreKept
  <2> QED BY <1>1, <1>2, <2>1, <2>2 DEF PositionInv, ClosesAreKept
<1> QED BY <1>3, <1>4, <1>5 DEF PositionInv

\* For any number of positions, prices, entry and planned risk: however ticks,
\* regime flips, stale updates, doubled triggers and refusing brokers interleave,
\* the stop of a watched position protects it, a watch triggers once, and what
\* is reported closed is backed by an order the broker took.
THEOREM PositionsAreProtected == PositionSpec => []PositionsAreSound
<1>1. PositionInit => PositionInv
  <2> SUFFICES ASSUME PositionInit PROVE PositionInv
    OBVIOUS
  <2>1. ObjectsProtect
    BY MarksDiffer DEF PositionInit, ObjectsProtect
  <2>2. TriggersArePaid
    BY DEF PositionInit, TriggersArePaid, Watching
  <2>3. ClosesAreKept
    <3>1. ASSUME NEW p \in Pids PROVE Cardinality(Owing(p)) = 0
      <4>1. Owing(p) = {}
        BY DEF PositionInit, Owing
      <4> QED BY <4>1, FS_EmptySet
    <3> QED BY <3>1 DEF PositionInit, ClosesAreKept
  <2> QED BY <2>1, <2>2, <2>3 DEF PositionInv
<1>2. PositionInv /\ [PositionNext]_positionVars => PositionInv'
  <2> SUFFICES ASSUME PositionInv, [PositionNext]_positionVars PROVE PositionInv'
    OBVIOUS
  <2> QED BY OpenStep, RegisterStep, TakeUpdateStep, TakeClosedStep, BeginStep, NoTickStep, FinishStep,
             FlipStep, ExecuteStep, HandlerStep, BrokerStep, Zenon DEF PositionNext
<1>3. PositionInv => PositionsAreSound
  <2> SUFFICES ASSUME PositionInv PROVE PositionsAreSound
    OBVIOUS
  <2>1. StopProtects
    BY DEF PositionInv, ObjectsProtect, Safe, StopProtects
  <2>2. OneTriggerPerWatch
    BY DEF PositionInv, TriggersArePaid, Watching, OneTriggerPerWatch
  <2>3. ClosesAreBacked
    <3>1. ASSUME NEW p \in Pids
          PROVE  /\ tradesClosed[p] <= closes[p]
                 /\ rows[p] = None /\ (registered[p] > 0 \/ p \in active) => closes[p] > 0
                 /\ tradesClosed[p] > 0 /\ p \in held => p \in working \cup unfilled
      <4>1. Cardinality(Owing(p)) \in Nat
        BY OwingIsFinite
      <4>2. tradesClosed[p] \in Nat /\ closes[p] \in Nat /\ tradesClosed[p] + Cardinality(Owing(p)) <= closes[p]
        BY DEF PositionInv, ClosesAreKept
      <4>3. tradesClosed[p] <= closes[p] /\ (tradesClosed[p] > 0 => closes[p] > 0)
        BY <4>1, <4>2
      <4> QED BY <4>3 DEF PositionInv, ClosesAreKept
    <3> QED BY <3>1 DEF ClosesAreBacked
  <2> QED BY <2>1, <2>2, <2>3 DEF PositionsAreSound
<1> QED BY <1>1, <1>2, <1>3, PTL DEF PositionSpec

-----------------------------------------------------------------------------
(* From a signal to a plan. *)

\* A quotient is the largest number whose product stays within the dividend.
LEMMA Quotient ==
  ASSUME NEW a \in Nat, NEW b \in Nat \ {0}
  PROVE  /\ a \div b \in Nat
         /\ b * (a \div b) <= a
         /\ a < b * ((a \div b) + 1)
<1>1. a \div b \in Int /\ a % b \in 0 .. b - 1 /\ a = b * (a \div b) + (a % b)
  OBVIOUS
<1>2. a \div b \in Nat
  OBVIOUS
<1> DEFINE q == a \div b
<1> HIDE DEF q
<1>3. b * (q + 1) = b * q + b
  BY <1>2 DEF q
<1>4. b * q \in Int
  BY <1>2 DEF q
<1>5. a = b * q + (a % b)
  BY <1>1 DEF q
<1>6. b * q <= a /\ a < b * (q + 1)
  BY <1>1, <1>3, <1>4, <1>5
<1> QED BY <1>2, <1>6 DEF q

\* A product grows with its factor.
LEMMA ProductGrows ==
  ASSUME NEW b \in Nat, NEW m \in Nat, NEW n \in Nat, m <= n
  PROVE  b * m <= b * n
OBVIOUS

\* n shares stay within both limits.
Affordable(n, risk, entry, equity) ==
  1000 * n * risk <= equity * RiskPm /\ 1000 * n * entry <= equity * SharePm

\* The size computed by the sizing agent is the largest one that both limits
\* allow.
LEMMA SharesFit ==
  ASSUME NEW equity \in Nat, NEW entry \in Nat \ {0}, NEW stop \in Nat \ {0}, entry # stop,
         NEW n, n = Shares(equity, entry, stop),
         NEW risk, risk = Distance(entry, stop)
  PROVE  Affordable(n, risk, entry, equity) /\ ~Affordable(n + 1, risk, entry, equity)
<1> DEFINE br == 1000 * risk
           bc == 1000 * entry
           ar == equity * RiskPm
           ac == equity * SharePm
<1>1. risk \in Nat \ {0}
  BY DEF Distance
<1>2. br \in Nat \ {0} /\ bc \in Nat \ {0} /\ ar \in Nat /\ ac \in Nat
  <2>1. \A x, y \in Nat : x * y \in Nat
    OBVIOUS
  <2> QED BY <1>1, <2>1, SignalPathAssumption
<1>3. n = Least(ar \div br, ac \div bc)
  BY DEF Shares
<1> DEFINE qr == ar \div br
           qc == ac \div bc
<1> HIDE DEF br, bc, ar, ac
<1>4. /\ qr \in Nat /\ br * qr <= ar /\ ar < br * (qr + 1)
      /\ qc \in Nat /\ bc * qc <= ac /\ ac < bc * (qc + 1)
  BY <1>2, Quotient
<1>5. n \in Nat /\ n <= qr /\ n <= qc /\ (n = qr \/ n = qc) /\ n + 1 \in Nat
  BY <1>3, <1>4 DEF Least
<1> HIDE DEF qr, qc
<1>6. /\ br * n <= br * qr /\ bc * n <= bc * qc
      /\ br * n \in Int /\ bc * n \in Int /\ br * qr \in Int /\ bc * qc \in Int
      /\ br * (n + 1) \in Int /\ bc * (n + 1) \in Int
  <2>1. \A x, y \in Nat : x * y \in Int
    OBVIOUS
  <2> QED BY <1>2, <1>4, <1>5, <2>1, ProductGrows
<1>7. br * n <= ar /\ bc * n <= ac /\ ~(br * (n + 1) <= ar /\ bc * (n + 1) <= ac)
  BY <1>2, <1>4, <1>5, <1>6
<1>8. /\ 1000 * n * risk = br * n /\ 1000 * n * entry = bc * n
      /\ 1000 * (n + 1) * risk = br * (n + 1) /\ 1000 * (n + 1) * entry = bc * (n + 1)
  <2>1. \A x, y \in Nat : 1000 * x * y = 1000 * y * x
    OBVIOUS
  <2> QED BY <1>1, <1>5, <2>1 DEF br, bc
<1> QED BY <1>7, <1>8 DEF ar, ac, Affordable

Candidate == [sig : Signals, entry : Prices, stop : Prices]
Passed(g) == [sig |-> g, result |-> "PASS", clean |-> TRUE]
Known(g) == g \in Signals /\ candidates[g] # NoSignal

\* What has been published is about known signals, and what is not a failure
\* passed every rule; only such signals are decided on.
MessagesAreVetted ==
  /\ candidates = [g \in Signals |-> candidates[g]]
  /\ checking = [h \in Handlers |-> checking[h]]
  /\ \A g \in Signals : candidates[g] # NoSignal => candidates[g] \in Candidate
  /\ \A h \in Handlers : checking[h] # NoSignal => Known(checking[h].sig)
  /\ \A v \in validated : Known(v.sig) /\ (v.result = "PASS" => v = Passed(v.sig))
  /\ \A d \in decisions : Passed(d.sig) \in validated
                          /\ (d.approved => d = [sig |-> d.sig, approved |-> TRUE])

\* A plan, published or under way, is vetted and has the largest size allowed.
GoodPlan(plan) ==
  /\ [sig |-> plan.sig, approved |-> TRUE] \in decisions
  /\ Passed(plan.sig) \in validated
  /\ Affordable(plan.shares, plan.risk, plan.entry, plan.equity)
  /\ ~Affordable(plan.shares + 1, plan.risk, plan.entry, plan.equity)

PlansAreGood ==
  /\ planning = [h \in Handlers |-> planning[h]]
  /\ \A h \in Handlers : planning[h] # NoSignal => GoodPlan(planning[h])
  /\ \A plan \in plans : GoodPlan(plan)

Busy == {h \in Handlers : checking[h] # NoSignal}

CountsAddUp ==
  /\ stats \in [received : Nat, passed : Nat, failed : Nat]
  /\ IsFiniteSet(Busy)
  /\ stats.received = stats.passed + stats.failed + Cardinality(Busy)

CacheHasNoTwins ==
  /\ cache \in Seq(Signals) /\ Len(cache) <= CacheSize
  /\ \A i, j \in 1 .. Len(cache) : cache[i] = cache[j] => i = j

PathInv == MessagesAreVetted /\ PlansAreGood /\ CountsAddUp /\ CacheHasNoTwins

\* Decisions and validations are never taken back, so that a plan stays good.
LEMMA PlansStayGood ==
  ASSUME PlansAreGood, decisions \subseteq decisions', validated \subseteq validated',
         UNCHANGED <<planning, plans>>
  PROVE  PlansAreGood'
<1>1. \A plan : GoodPlan(plan) => GoodPlan(plan)'
  BY DEF GoodPlan, Passed
<1> QED BY <1>1 DEF PlansAreGood

\* A candidate is published, or the store's positions change.
LEMMA CandidateStep ==
  ASSUME PathInv, NEW g \in Signals,
         PositionChanges(g) \/ \E entry, stop \in Prices : PublishCandidate(g, entry, stop)
  PROVE  PathInv'
<1>1. UNCHANGED <<checking, stats, validated, decisions, cache, planning, plans>>
  BY DEF PositionChanges, PublishCandidate, validation, sizing
<1>2. \/ candidates' = candidates
      \/ \E c \in Candidate : candidates' = [candidates EXCEPT ![g] = c]
  BY DEF PositionChanges, PublishCandidate, Candidate
<1>3. \A c \in Candidate : c # NoSignal
  <2>1. \A c \in Candidate : DOMAIN c = {"sig", "entry", "stop"}
    BY DEF Candidate
  <2>2. DOMAIN NoSignal = {"sig"}
    BY DEF NoSignal
  <2> QED BY <2>1, <2>2
<1>4. /\ candidates' = [q \in Signals |-> candidates'[q]]
      /\ \A q \in Signals : /\ candidates'[q] # NoSignal => candidates'[q] \in Candidate
                            /\ Known(q) => Known(q)'
  BY <1>2, <1>3 DEF PathInv, MessagesAreVetted, Known
<1>5. \A q : Known(q) => Known(q)'
  BY <1>4 DEF Known
<1>6. MessagesAreVetted'
  BY <1>1, <1>4, <1>5 DEF PathInv, MessagesAreVetted, Passed
<1>7. PlansAreGood'
  BY <1>1, PlansStayGood DEF PathInv
<1>8. CountsAddUp'
  BY <1>1 DEF PathInv, CountsAddUp, Busy
<1>9. CacheHasNoTwins'
  BY <1>1 DEF PathInv, CacheHasNoTwins
<1> QED BY <1>6, <1>7, <1>8, <1>9 DEF PathInv

\* A candidate received is one more in a handler.
LEMMA ReceiveStep ==
  ASSUME PathInv, NEW h \in Handlers, NEW g \in Signals, NEW x \in Markets, ReceiveCandidate(h, g, x)
  PROVE  PathInv'
<1> DEFINE c == [sig |-> g, failed |-> RuleFailures(x)]
<1>1. /\ checking[h] = NoSignal /\ candidates[g] # NoSignal
      /\ stats' = [stats EXCEPT !.received = @ + 1]
      /\ checking' = [checking EXCEPT ![h] = c]
      /\ UNCHANGED <<candidates, validated, decisions, cache, planning, plans>>
  BY DEF ReceiveCandidate, sizing
<1>2. c # NoSignal /\ c.sig = g
  <2>1. DOMAIN c = {"sig", "failed"} /\ DOMAIN NoSignal = {"sig"}
    BY DEF NoSignal
  <2> QED BY <2>1
<1> HIDE DEF c
<1>3. MessagesAreVetted'
  BY <1>1, <1>2 DEF PathInv, MessagesAreVetted, Known, Passed
<1>4. PlansAreGood'
  BY <1>1, PlansStayGood DEF PathInv
<1>5. Busy' = Busy \cup {h} /\ h \notin Busy
  BY <1>1, <1>2 DEF Busy, PathInv, MessagesAreVetted
<1>6. IsFiniteSet(Busy') /\ Cardinality(Busy') = Cardinality(Busy) + 1 /\ Cardinality(Busy) \in Nat
  BY <1>5, FS_AddElement, FS_CardinalityType DEF PathInv, CountsAddUp
<1>7. CountsAddUp'
  <2>1. /\ stats \in [received : Nat, passed : Nat, failed : Nat]
        /\ stats.received = stats.passed + stats.failed + Cardinality(Busy)
    BY DEF PathInv, CountsAddUp
  <2> QED BY <1>1, <1>6, <2>1 DEF CountsAddUp
<1>8. CacheHasNoTwins'
  BY <1>1 DEF PathInv, CacheHasNoTwins
<1> QED BY <1>3, <1>4, <1>7, <1>8 DEF PathInv

\* The handler publishes and counts its verdict; the model can only add failures.
LEMMA ValidatedStep ==
  ASSUME PathInv, NEW h \in Handlers, NEW extra \in ModelFailures, PublishValidated(h, extra)
  PROVE  PathInv'
<1> DEFINE result == Verdict(checking[h].failed, extra)
           v == [sig |-> checking[h].sig, result |-> result, clean |-> checking[h].failed = {}]
<1>1. /\ checking[h] # NoSignal
      /\ validated' = validated \cup {v}
      /\ stats' = Counted(result)
      /\ checking' = [checking EXCEPT ![h] = NoSignal]
      /\ UNCHANGED <<candidates, decisions, cache, planning, plans>>
  BY DEF PublishValidated, sizing
<1>2. result \in {"PASS", "FAIL"} /\ (result = "PASS" => checking[h].failed = {})
  BY DEF Verdict
<1>3. v.sig = checking[h].sig /\ (v.result = "PASS" => v = Passed(v.sig))
  BY <1>2 DEF Passed
<1> HIDE DEF v, result
<1>4. Known(v.sig)
  BY <1>1, <1>3 DEF PathInv, MessagesAreVetted
<1>5. MessagesAreVetted'
  BY <1>1, <1>3, <1>4 DEF PathInv, MessagesAreVetted, Known, Passed
<1>6. PlansAreGood'
  BY <1>1, PlansStayGood DEF PathInv
<1>7. Busy' = Busy \ {h} /\ h \in Busy
  BY <1>1 DEF Busy, PathInv, MessagesAreVetted
<1>8. IsFiniteSet(Busy') /\ Cardinality(Busy') = Cardinality(Busy) - 1 /\ Cardinality(Busy) \in Nat
      /\ Cardinality(Busy') \in Nat
  BY <1>7, FS_RemoveElement, FS_CardinalityType DEF PathInv, CountsAddUp
<1>9. CountsAddUp'
  <2>1. /\ stats \in [received : Nat, passed : Nat, failed : Nat]
        /\ stats.received = stats.passed + stats.failed + Cardinality(Busy)
    BY DEF PathInv, CountsAddUp
  <2>2. \/ stats' = [stats EXCEPT !.passed = @ + 1]
        \/ stats' = [stats EXCEPT !.failed = @ + 1]
    BY <1>1 DEF Counted
  <2> QED BY <1>8, <2>1, <2>2 DEF CountsAddUp
<1>10. CacheHasNoTwins'
  BY <1>1 DEF PathInv, CacheHasNoTwins
<1> QED BY <1>5, <1>6, <1>9, <1>10 DEF PathInv

\* The risk gate decides on what passed.
LEMMA DecideStep ==
  ASSUME PathInv, NEW v \in validated, NEW approved \in BOOLEAN, Decide(v, approved)
  PROVE  PathInv'
<1> DEFINE d == [sig |-> v.sig, approved |-> approved]
<1>1. /\ v.result = "PASS"
      /\ decisions' = decisions \cup {d}
      /\ UNCHANGED <<candidates, checking, stats, validated, cache, planning, plans>>
  BY DEF Decide, ToBeDecided, validation, sizing
<1>2. d.sig = v.sig /\ (d.approved => d = [sig |-> d.sig, approved |-> TRUE])
  <2>1. CASE approved = TRUE
    BY <2>1
  <2>2. CASE approved = FALSE
    BY <2>2
  <2> QED BY <2>1, <2>2
<1>3. Passed(v.sig) \in validated
  BY <1>1 DEF PathInv, MessagesAreVetted
<1> HIDE DEF d
<1>4. MessagesAreVetted'
  BY <1>1, <1>2, <1>3 DEF PathInv, MessagesAreVetted, Known, Passed
<1>5. PlansAreGood'
  BY <1>1, PlansStayGood DEF PathInv
<1>6. CountsAddUp'
  BY <1>1 DEF PathInv, CountsAddUp, Busy
<1>7. CacheHasNoTwins'
  BY <1>1 DEF PathInv, CacheHasNoTwins
<1> QED BY <1>4, <1>5, <1>6, <1>7 DEF PathInv

\* The cache makes room before it takes a signal, and takes none twice.
LEMMA CacheStep ==
  ASSUME PathInv, NEW v \in validated, CacheSignal(v)
  PROVE  PathInv'
<1> DEFINE room == RoomInCache
<1>1. /\ UNCHANGED <<candidates, checking, stats, validated, decisions, planning, plans>>
      /\ cache' = IF \E i \in 1 .. Len(room) : room[i] = v.sig THEN room ELSE Append(room, v.sig)
  BY DEF CacheSignal, validation
<1>2. v.sig \in Signals
  BY DEF PathInv, MessagesAreVetted, Known
<1>3. cache \in Seq(Signals) /\ Len(cache) <= CacheSize /\ CacheSize \in Nat \ {0}
      /\ (\A i, j \in 1 .. Len(cache) : cache[i] = cache[j] => i = j)
  BY SignalPathAssumption DEF PathInv, CacheHasNoTwins
<1>4. /\ room \in Seq(Signals) /\ Len(room) \in Nat /\ Len(room) + 1 <= CacheSize
      /\ \A i, j \in 1 .. Len(room) : room[i] = room[j] => i = j
  <2>1. CASE Len(cache) >= CacheSize
    <3>1. room = Tail(cache) /\ cache # <<>>
      BY <1>3, <2>1 DEF RoomInCache
    <3>2. room \in Seq(Signals) /\ Len(room) = Len(cache) - 1 /\ \A i \in 1 .. Len(room) : room[i] = cache[i + 1]
      BY <1>3, <3>1
    <3>3. Len(cache) \in Nat /\ \A i \in 1 .. Len(room) : i + 1 \in 1 .. Len(cache)
      BY <1>3, <3>2
    <3>4. \A i, j \in 1 .. Len(room) : room[i] = room[j] => i + 1 = j + 1
      BY <1>3, <3>2, <3>3
    <3> QED BY <1>3, <3>2, <3>3, <3>4
  <2>2. CASE ~(Len(cache) >= CacheSize)
    <3>1. room = cache
      BY <2>2 DEF RoomInCache
    <3> QED BY <1>3, <2>2, <3>1
  <2> QED BY <2>1, <2>2
<1> HIDE DEF room
<1>5. CacheHasNoTwins'
  <2>1. CASE \E i \in 1 .. Len(room) : room[i] = v.sig
    BY <1>1, <1>3, <1>4, <2>1 DEF CacheHasNoTwins
  <2>2. CASE ~\E i \in 1 .. Len(room) : room[i] = v.sig
    <3>1. cache' = Append(room, v.sig)
      BY <1>1, <2>2
    <3>2. /\ cache' \in Seq(Signals) /\ Len(cache') = Len(room) + 1
          /\ \A i \in 1 .. Len(room) : cache'[i] = room[i]
          /\ cache'[Len(room) + 1] = v.sig
      BY <1>2, <1>4, <3>1
    <3>3. \A i \in 1 .. Len(cache') : i \in 1 .. Len(room) \/ i = Len(room) + 1
      BY <1>4, <3>2
    <3>4. \A i, j \in 1 .. Len(cache') : cache'[i] = cache'[j] => i = j
      BY <1>4, <2>2, <3>2, <3>3
    <3> QED BY <1>3, <1>4, <3>2, <3>4 DEF CacheHasNoTwins
  <2> QED BY <2>1, <2>2
<1>6. MessagesAreVetted'
  BY <1>1 DEF PathInv, MessagesAreVetted, Known, Passed
<1>7. PlansAreGood'
  BY <1>1, PlansStayGood DEF PathInv
<1>8. CountsAddUp'
  BY <1>1 DEF PathInv, CountsAddUp, Busy
<1> QED BY <1>5, <1>6, <1>7, <1>8 DEF PathInv

\* A plan is built for an approved signal, with the candidate's prices.
LEMMA BuildStep ==
  ASSUME PathInv, NEW h \in Handlers, NEW d \in decisions, NEW equity \in Equities,
         NEW edge, NEW cost, BuildPlan(h, d, equity, edge, cost)
  PROVE  PathInv'
<1> DEFINE c == candidates[d.sig]
           n == Shares(equity, c.entry, c.stop)
           plan == [sig |-> d.sig, entry |-> c.entry, risk |-> Distance(c.entry, c.stop),
                    equity |-> equity, shares |-> n]
<1>1. /\ d.approved /\ c.entry # c.stop
      /\ planning' = [planning EXCEPT ![h] = plan]
      /\ UNCHANGED <<candidates, checking, stats, validated, decisions, cache, plans>>
  BY DEF BuildPlan, Plannable, validation
<1>2. [sig |-> d.sig, approved |-> TRUE] \in decisions /\ Passed(d.sig) \in validated
  BY <1>1 DEF PathInv, MessagesAreVetted
<1>3. Known(d.sig)
  BY <1>2 DEF PathInv, MessagesAreVetted, Passed
<1>4. c.entry \in Nat \ {0} /\ c.stop \in Nat \ {0} /\ equity \in Nat
  BY <1>3, SignalPathAssumption DEF PathInv, MessagesAreVetted, Known, Candidate
<1> HIDE DEF c
<1>5. /\ Affordable(n, Distance(c.entry, c.stop), c.entry, equity)
      /\ ~Affordable(n + 1, Distance(c.entry, c.stop), c.entry, equity)
  BY <1>1, <1>4, SharesFit
<1> HIDE DEF n
<1>6. GoodPlan(plan)
  BY <1>2, <1>5 DEF GoodPlan
<1> HIDE DEF plan
<1>7. \A p : GoodPlan(p)' <=> GoodPlan(p)
  BY <1>1 DEF GoodPlan, Passed
<1>8. PlansAreGood'
  BY <1>1, <1>6, <1>7 DEF PathInv, PlansAreGood
<1>9. MessagesAreVetted'
  BY <1>1 DEF PathInv, MessagesAreVetted, Known, Passed
<1>10. CountsAddUp'
  BY <1>1 DEF PathInv, CountsAddUp, Busy
<1>11. CacheHasNoTwins'
  BY <1>1 DEF PathInv, CacheHasNoTwins
<1> QED BY <1>8, <1>9, <1>10, <1>11 DEF PathInv

\* The plan goes out as it was built.
LEMMA PlanStep ==
  ASSUME PathInv, NEW h \in Handlers, PublishPlan(h)
  PROVE  PathInv'
<1>1. /\ planning[h] # NoSignal
      /\ plans' = plans \cup {planning[h]}
      /\ planning' = [planning EXCEPT ![h] = NoSignal]
      /\ UNCHANGED <<candidates, checking, stats, validated, decisions, cache>>
  BY DEF PublishPlan, validation
<1>2. \A p : GoodPlan(p)' <=> GoodPlan(p)
  BY <1>1 DEF GoodPlan, Passed
<1>3. PlansAreGood'
  BY <1>1, <1>2 DEF PathInv, PlansAreGood
<1>4. MessagesAreVetted'
  BY <1>1 DEF PathInv, MessagesAreVetted, Known, Passed
<1>5. CountsAddUp'
  BY <1>1 DEF PathInv, CountsAddUp, Busy
<1>6. CacheHasNoTwins'
  BY <1>1 DEF PathInv, CacheHasNoTwins
<1> QED BY <1>3, <1>4, <1>5, <1>6 DEF PathInv

\* For any number of signals and handler tasks, every price, equity and limit:
\* however late, doubled or reordered the messages are, a TRADE_PLAN exists only
\* for a signal that passed every rule and was approved, with the largest size
\* that both limits allow; every candidate is accounted for; the cache is bounded.
THEOREM PathIsVetted == PathSpec => []PathIsSound
<1>1. PathInit => PathInv
  <2> SUFFICES ASSUME PathInit PROVE PathInv
    OBVIOUS
  <2>1. MessagesAreVetted
    BY DEF PathInit, MessagesAreVetted
  <2>2. PlansAreGood
    BY DEF PathInit, PlansAreGood
  <2>3. CountsAddUp
    <3>1. Busy = {}
      BY DEF PathInit, Busy
    <3>2. IsFiniteSet({}) /\ Cardinality({}) = 0
      BY FS_EmptySet
    <3> QED BY <3>1, <3>2 DEF PathInit, CountsAddUp
  <2>4. CacheHasNoTwins
    BY SignalPathAssumption DEF PathInit, CacheHasNoTwins
  <2> QED BY <2>1, <2>2, <2>3, <2>4 DEF PathInv
<1>2. PathInv /\ [PathNext]_pathVars => PathInv'
  <2> SUFFICES ASSUME PathInv, [PathNext]_pathVars PROVE PathInv'
    OBVIOUS
  <2>1. CASE UNCHANGED pathVars
    <3>1. UNCHANGED <<candidates, checking, stats, validated, decisions, cache, planning, plans>>
      BY <2>1 DEF pathVars, validation, sizing
    <3> QED BY <3>1 DEF PathInv, MessagesAreVetted, PlansAreGood, CountsAddUp, CacheHasNoTwins, Known, Passed,
                        GoodPlan, Busy
  <2> QED BY <2>1, CandidateStep, ReceiveStep, ValidatedStep, DecideStep, CacheStep, BuildStep, PlanStep,
             Zenon DEF PathNext
<1>3. PathInv => PathIsSound
  <2> SUFFICES ASSUME PathInv PROVE PathIsSound
    OBVIOUS
  <2>1. PlanIsVetted
    <3>1. ASSUME NEW plan \in plans
          PROVE  /\ [sig |-> plan.sig, approved |-> TRUE] \in decisions
                 /\ [sig |-> plan.sig, result |-> "PASS", clean |-> TRUE] \in validated
      <4>1. GoodPlan(plan)
        BY DEF PathInv, PlansAreGood
      <4> QED BY <4>1, Zenon DEF GoodPlan, Passed
    <3> QED BY <3>1, Zenon DEF PlanIsVetted
  <2>2. RiskWithinBudget
    <3>1. \A plan \in plans : GoodPlan(plan)
      BY DEF PathInv, PlansAreGood
    <3>2. \A plan \in plans : /\ Affordable(plan.shares, plan.risk, plan.entry, plan.equity)
                              /\ ~Affordable(plan.shares + 1, plan.risk, plan.entry, plan.equity)
      BY <3>1, Zenon DEF GoodPlan
    <3> QED BY <3>2, Zenon DEF RiskWithinBudget, Affordable
  <2>3. StatsAddUp
    BY DEF PathInv, CountsAddUp, Busy, StatsAddUp
  <2>4. CacheIsBounded
    <3>1. Len(cache) \in Nat
      BY DEF PathInv, CacheHasNoTwins
    <3>2. Cardinality({cache[i] : i \in 1 .. Len(cache)}) = Len(cache)
      BY <3>1, DistinctEntries DEF PathInv, CacheHasNoTwins
    <3> QED BY <3>2 DEF PathInv, CacheHasNoTwins, CacheIsBounded, Cached
  <2> QED BY <2>1, <2>2, <2>3, <2>4 DEF PathIsSound
<1> QED BY <1>1, <1>2, <1>3, PTL DEF PathSpec

-----------------------------------------------------------------------------
(* The risk gate. *)

Loss == [at : Nat, amount : Nat]
LossLog == Seq(Loss)
Booked == [at : Nat, pnl : Int]
Amounts(log) == [i \in 1 .. Len(log) |-> log[i].amount]

\* What of the log, and of the trades, was lost at t or later.
Logged(log, t) == [i \in 1 .. Len(log) |-> IF log[i].at >= t THEN log[i].amount ELSE 0]
Lost(t) ==
  [i \in 1 .. Len(closed) |-> IF closed[i].at >= t /\ closed[i].pnl < 0 THEN -closed[i].pnl ELSE 0]

RiskTypes ==
  /\ clock \in Nat \ {0} /\ streak \in Nat
  /\ lossTimes \in LossLog /\ closed \in Seq(Booked)
  /\ pauseUntil \in Nat /\ cooldownUntil \in Nat /\ stopped \in Nat
  /\ dayTrades \in Nat

\* From the beginning of the window on, the log has lost what the trades lost.
BurstIsLogged ==
  \A t \in Int : t >= clock - VelocityWindow =>
    Total(Logged(lossTimes, t), Len(lossTimes)) = Total(Lost(t), Len(closed))

\* The streak is the number of losses behind the last trade that was none.
StreakIsTrue ==
  /\ streak <= Len(closed)
  /\ streak < Len(closed) => closed[Len(closed) - streak].pnl >= 0

RiskInv ==
  /\ RiskTypes /\ BurstIsLogged /\ StreakIsTrue
  /\ stopped # 0 => pauseUntil = stopped + VelocityPause
  /\ dayTrades = dayTradesEver

\* Amount adds up a log.
LEMMA AmountIsTotal ==
  ASSUME NEW log, Len(log) \in Nat
  PROVE  Amount(log) = Total(Amounts(log), Len(log))
<1> DEFINE a == Amounts(log)
           n == Len(log)
<1>1. PICK f : Sums(a, n, f)
  BY SumsExist
<1>2. f = [i \in 0 .. n |-> IF i = 0 THEN 0 ELSE f[i - 1] + log[i].amount]
  <2>1. f = [i \in 0 .. n |-> IF i = 0 THEN 0 ELSE f[i - 1] + a[i]]
    BY <1>1, Zenon DEF Sums
  <2>2. \A i \in 0 .. n : i # 0 => a[i] = log[i].amount
    BY DEF Amounts
  <2> HIDE DEF a
  <2> QED BY <2>1, <2>2
<1> DEFINE sum[i \in 0 .. Len(log)] == IF i = 0 THEN 0 ELSE sum[i - 1] + log[i].amount
<1>3. sum = [i \in 0 .. n |-> IF i = 0 THEN 0 ELSE sum[i - 1] + log[i].amount]
  <2>1. \E g : g = [i \in 0 .. n |-> IF i = 0 THEN 0 ELSE g[i - 1] + log[i].amount]
    BY <1>2, Zenon
  <2> QED BY <2>1, Zenon
<1>4. Amount(log) = sum[n]
  BY DEF Amount
<1> HIDE DEF sum
<1>5. sum = [i \in 0 .. n |-> IF i = 0 THEN 0 ELSE sum[i - 1] + a[i]]
  <2>1. \A i \in 0 .. n : i # 0 => a[i] = log[i].amount
    BY DEF Amounts
  <2> HIDE DEF a
  <2> QED BY <1>3, <2>1
<1>6. Sums(a, n, sum)
  BY <1>5, Zenon DEF Sums
<1> HIDE DEF a
<1>7. Total(a, n) = sum[n]
  BY <1>6, TotalIs
<1> QED BY <1>4, <1>7 DEF a

\* What a log is.
LEMMA LogEntries ==
  ASSUME NEW log, log \in LossLog
  PROVE  /\ Len(log) \in Nat
         /\ \A i \in 1 .. Len(log) : /\ log[i] \in Loss
                                     /\ log[i].at \in Nat /\ log[i].amount \in Nat
<1>1. Len(log) \in Nat /\ \A i \in 1 .. Len(log) : log[i] \in Loss
  BY DEF LossLog
<1> QED BY <1>1 DEF Loss

\* Pruning drops entries at the head, each of them older than the cutoff.
LEMMA PruningDropsHeads ==
  ASSUME NEW log \in LossLog, NEW cutoff \in Int
  PROVE  \E d \in 0 .. Len(log) : /\ \A i \in 1 .. d : log[i].at < cutoff
                                  /\ WithoutHeads(log, cutoff) = SubSeq(log, d + 1, Len(log))
<1> DEFINE n == Len(log)
           OK(d) == /\ \A i \in 1 .. d : log[i].at < cutoff
                    /\ d < n => log[d + 1].at >= cutoff
           T == {i \in 1 .. n : log[i].at >= cutoff}
<1>1. n \in Nat /\ \A i \in 1 .. n : log[i].at \in Int
  BY LogEntries
<1> HIDE DEF n
<1>2. \E d \in 0 .. n : OK(d)
  <2>1. CASE T = {}
    <3>1. \A i \in 1 .. n : log[i].at < cutoff
      BY <1>1, <2>1
    <3>2. n \in 0 .. n /\ OK(n)
      BY <1>1, <3>1
    <3> QED BY <3>2
  <2>2. CASE T # {}
    <3>1. T \in SUBSET Nat
      BY <1>1
    <3>2. PICK m \in T : \A k \in T : m <= k
      <4> HIDE DEF T
      <4> QED BY <2>2, <3>1, LeastNumber
    <3>3. \A i \in 1 .. m - 1 : log[i].at < cutoff
      <4>1. \A i \in 1 .. m - 1 : i \in 1 .. n /\ i \notin T
        BY <1>1, <3>2
      <4> QED BY <1>1, <4>1
    <3>4. m - 1 \in 0 .. n /\ m - 1 + 1 = m /\ log[m].at >= cutoff
      BY <1>1, <3>2
    <3>5. OK(m - 1)
      BY <3>3, <3>4
    <3> QED BY <3>4, <3>5
  <2> QED BY <2>1, <2>2
<1> DEFINE stale == CHOOSE d \in 0 .. n : OK(d)
<1>3. stale \in 0 .. n /\ OK(stale)
  BY <1>2, Zenon
<1>4. WithoutHeads(log, cutoff) = SubSeq(log, stale + 1, n)
  BY Zenon DEF WithoutHeads, n
<1> HIDE DEF stale
<1> QED BY <1>3, <1>4 DEF n

\* What it drops was lost before every t that is not before the cutoff.
LEMMA PruningKeepsTotals ==
  ASSUME NEW log \in LossLog, NEW cutoff \in Int, NEW t \in Int, t >= cutoff,
         NEW new, new = WithoutHeads(log, cutoff)
  PROVE  new \in LossLog /\ Total(Logged(new, t), Len(new)) = Total(Logged(log, t), Len(log))
<1>1. PICK d \in 0 .. Len(log) : /\ \A i \in 1 .. d : log[i].at < cutoff
                                 /\ new = SubSeq(log, d + 1, Len(log))
  BY PruningDropsHeads
<1> DEFINE m == Len(log) - d
<1>2. /\ d \in Nat /\ m \in Nat /\ d + m = Len(log) /\ Len(log) \in Nat
      /\ \A i \in 1 .. Len(log) : log[i].at \in Nat
  <2>1. Len(log) \in Nat /\ \A i \in 1 .. Len(log) : log[i].at \in Nat
    BY LogEntries
  <2> QED BY <2>1
<1>3. new \in LossLog /\ Len(new) = m /\ \A i \in 1 .. m : new[i] = log[d + i]
  <2>1. log \in Seq(Loss)
    BY DEF LossLog
  <2>2. new \in Seq(Loss)
    BY <1>1, <1>2, <2>1
  <2>3. Len(new) = m
    <3> DEFINE lo == d + 1
               hi == Len(log)
    <3>1. lo \in Int /\ hi \in Int /\ \A i \in lo .. hi : log[i] \in Loss
      BY <1>2, <2>1
    <3> HIDE DEF lo, hi
    <3>2. Len(SubSeq(log, lo, hi)) = IF lo <= hi THEN hi - lo + 1 ELSE 0
      BY <3>1, SubSeqProperties
    <3>3. new = SubSeq(log, lo, hi)
      BY <1>1, Zenon DEF lo, hi
    <3>4. (IF lo <= hi THEN hi - lo + 1 ELSE 0) = m
      <4>1. m \in Nat /\ d \in Nat /\ lo = d + 1 /\ hi = d + m
        BY <1>2 DEF lo, hi
      <4> HIDE DEF m
      <4> QED BY <4>1
    <3> QED BY <3>2, <3>3, <3>4, Zenon
  <2>4. ASSUME NEW i \in 1 .. m PROVE new[i] = log[d + i]
    <3>1. i \in 1 .. Len(new) /\ d + 1 + i - 1 = d + i
      BY <1>2, <2>3
    <3>2. new[i] = log[d + 1 + i - 1]
      BY <1>1, <1>2, <2>1, <3>1
    <3> QED BY <3>1, <3>2
  <2> QED BY <2>2, <2>3, <2>4 DEF LossLog
<1> HIDE DEF m
<1>4. Shifted(Logged(log, t), Logged(new, t), d, m)
  <2>1. ASSUME NEW i \in 1 .. d PROVE i \in 1 .. Len(log) /\ ~(log[i].at >= t)
    <3>1. i \in 1 .. Len(log)
      BY <1>2
    <3>2. log[i].at < cutoff /\ log[i].at \in Nat
      BY <1>1, <1>2, <3>1
    <3> QED BY <3>1, <3>2
  <2>2. \A i \in 1 .. d : Logged(log, t)[i] = 0
    BY <2>1 DEF Logged
  <2>3. \A i \in 1 .. m : d + i \in 1 .. Len(log) /\ i \in 1 .. Len(new)
    BY <1>2, <1>3
  <2>4. \A i \in 1 .. m : Logged(new, t)[i] = Logged(log, t)[d + i]
    BY <1>3, <2>3 DEF Logged
  <2> QED BY <2>2, <2>4 DEF Shifted
<1>5. Total(Logged(log, t), d + m) = Total(Logged(new, t), m)
  BY <1>2, <1>4, TotalShift
<1> QED BY <1>2, <1>3, <1>5

\* The log of the gate survives its own pruning.
LEMMA PrunedStep ==
  ASSUME RiskTypes, BurstIsLogged, clock' = clock, closed' = closed,
         lossTimes' = lossTimes \/ lossTimes' = Pruned(lossTimes)
  PROVE  lossTimes' \in LossLog /\ BurstIsLogged'
<1> DEFINE cutoff == clock - VelocityWindow
<1>1. cutoff \in Int /\ lossTimes \in LossLog
  BY RiskGateAssumption DEF RiskTypes
<1>2. CASE lossTimes' = lossTimes
  BY <1>1, <1>2 DEF BurstIsLogged, Lost
<1>3. CASE lossTimes' = Pruned(lossTimes)
  <2>1. lossTimes' = WithoutHeads(lossTimes, cutoff)
    BY <1>3 DEF Pruned
  <2>2. cutoff >= cutoff
    BY <1>1
  <2> HIDE DEF cutoff
  <2>3. lossTimes' \in LossLog
    BY <1>1, <2>1, <2>2, PruningKeepsTotals
  <2>4. ASSUME NEW t \in Int, t >= cutoff
        PROVE  Total(Logged(lossTimes', t), Len(lossTimes')) = Total(Lost(t), Len(closed))
    <3>1. Total(Logged(lossTimes', t), Len(lossTimes')) = Total(Logged(lossTimes, t), Len(lossTimes))
      BY <1>1, <2>1, <2>4, PruningKeepsTotals
    <3>2. Total(Logged(lossTimes, t), Len(lossTimes)) = Total(Lost(t), Len(closed))
      BY <2>4 DEF BurstIsLogged, cutoff
    <3> QED BY <3>1, <3>2
  <2>5. \A t : Lost(t)' = Lost(t) /\ Logged(lossTimes, t)' = Logged(lossTimes', t)
    BY DEF Lost, Logged
  <2>6. BurstIsLogged'
    BY <2>4, <2>5 DEF BurstIsLogged, cutoff
  <2> QED BY <2>3, <2>6
<1> QED BY <1>2, <1>3

\* A loss enters the log as it enters the books.
LEMMA LossStep ==
  ASSUME RiskTypes, BurstIsLogged, NEW pnl \in Int, clock' = clock,
         closed' = Append(closed, [at |-> clock, pnl |-> pnl]),
         lossTimes' = Pruned(IF pnl < 0 THEN Append(lossTimes, [at |-> clock, amount |-> -pnl]) ELSE lossTimes)
  PROVE  lossTimes' \in LossLog /\ BurstIsLogged'
<1> DEFINE cutoff == clock - VelocityWindow
           grown == IF pnl < 0 THEN Append(lossTimes, [at |-> clock, amount |-> -pnl]) ELSE lossTimes
<1>1. cutoff \in Int /\ lossTimes \in LossLog /\ clock \in Nat
  BY RiskGateAssumption DEF RiskTypes
<1>2. lossTimes' = WithoutHeads(grown, cutoff)
  BY DEF Pruned
<1>3. grown \in LossLog
  <2>1. CASE pnl < 0
    <3> DEFINE e == [at |-> clock, amount |-> -pnl]
    <3>1. e \in Loss
      BY <1>1, <2>1 DEF Loss
    <3> HIDE DEF e
    <3>2. Append(lossTimes, e) \in Seq(Loss)
      BY <1>1, <3>1 DEF LossLog
    <3> QED BY <2>1, <3>2 DEF e, LossLog
  <2>2. CASE ~(pnl < 0)
    BY <1>1, <2>2
  <2> QED BY <2>1, <2>2
<1>4. closed \in Seq(Booked) /\ Len(closed) \in Nat /\ Len(closed') = Len(closed) + 1
  BY DEF RiskTypes
<1>5. ASSUME NEW t \in Int, t >= cutoff
      PROVE  Total(Logged(lossTimes', t), Len(lossTimes')) = Total(Lost(t)', Len(closed'))
  <2> DEFINE more == IF clock >= t /\ pnl < 0 THEN -pnl ELSE 0
  <2>1. Total(Logged(lossTimes', t), Len(lossTimes')) = Total(Logged(grown, t), Len(grown))
    <3> HIDE DEF grown, cutoff
    <3> QED BY <1>1, <1>2, <1>3, <1>5, PruningKeepsTotals
  <2>2. Total(Logged(lossTimes, t), Len(lossTimes)) = Total(Lost(t), Len(closed))
    BY <1>5 DEF BurstIsLogged
  <2>3. Total(Lost(t)', Len(closed')) = Total(Lost(t), Len(closed)) + more
    <3>1. \A i \in 1 .. Len(closed) : Lost(t)[i] = Lost(t)'[i]
      BY <1>4 DEF Lost
    <3>2. Lost(t)'[Len(closed) + 1] = more
      BY <1>4 DEF Lost
    <3> HIDE DEF more
    <3> DEFINE a == Lost(t)
               b == Lost(t)'
    <3> HIDE DEF a, b
    <3>3. Total(b, Len(closed) + 1) = Total(a, Len(closed)) + b[Len(closed) + 1]
      BY <1>4, <3>1, TotalAppend DEF a, b
    <3> QED BY <1>4, <3>2, <3>3 DEF a, b
  <2>4. Total(Lost(t), Len(closed)) \in Int
    <3>1. \A i \in 1 .. Len(closed) : Lost(t)[i] \in Int
      <4>1. \A i \in 1 .. Len(closed) : closed[i] \in Booked
        BY <1>4
      <4> QED BY <4>1 DEF Lost, Booked
    <3> QED BY <1>4, <3>1, TotalType
  <2>5. Total(Logged(grown, t), Len(grown)) = Total(Logged(lossTimes, t), Len(lossTimes)) + more
    <3>1. CASE pnl < 0
      <4> DEFINE e == [at |-> clock, amount |-> -pnl]
      <4>1. Len(lossTimes) \in Nat /\ lossTimes \in Seq(Loss)
        BY <1>1, LogEntries DEF LossLog
      <4>2. e.at = clock /\ e.amount = -pnl
        OBVIOUS
      <4>3. grown = Append(lossTimes, e)
        BY <3>1
      <4> HIDE DEF e, grown
      <4>4. /\ Len(grown) = Len(lossTimes) + 1 /\ grown[Len(lossTimes) + 1] = e
            /\ \A i \in 1 .. Len(lossTimes) : grown[i] = lossTimes[i]
        BY <4>1, <4>3
      <4>5. \A i \in 1 .. Len(lossTimes) : Logged(lossTimes, t)[i] = Logged(grown, t)[i]
        BY <4>1, <4>4 DEF Logged
      <4>6. Logged(grown, t)[Len(lossTimes) + 1] = more
        BY <3>1, <4>1, <4>2, <4>4 DEF Logged
      <4> HIDE DEF more
      <4> DEFINE a == Logged(lossTimes, t)
                 b == Logged(grown, t)
      <4> HIDE DEF a, b
      <4>7. Total(b, Len(lossTimes) + 1) = Total(a, Len(lossTimes)) + b[Len(lossTimes) + 1]
        BY <4>1, <4>5, TotalAppend DEF a, b
      <4> QED BY <4>4, <4>6, <4>7 DEF a, b
    <3>2. CASE ~(pnl < 0)
      <4>1. grown = lossTimes /\ more = 0
        BY <3>2
      <4> QED BY <2>2, <2>4, <4>1
    <3> QED BY <3>1, <3>2
  <2> QED BY <2>1, <2>2, <2>3, <2>5
<1>6. lossTimes' \in LossLog
  <2>1. cutoff >= cutoff
    BY <1>1
  <2> HIDE DEF grown, cutoff
  <2> QED BY <1>1, <1>2, <1>3, <2>1, PruningKeepsTotals
<1>7. \A t : Logged(lossTimes, t)' = Logged(lossTimes', t)
  BY DEF Logged
<1>8. BurstIsLogged'
  BY <1>5, <1>7 DEF BurstIsLogged
<1> QED BY <1>6, <1>8

\* An approval means that no rule speaks against it.
LEMMA ApprovalMeans ==
  ASSUME RiskInv, NEW x \in Situations, FirstFailure(x) = "approved"
  PROVE  /\ clock >= pauseUntil /\ ~VelocityRule
         /\ streak < StreakLimit
         /\ ~x.rich => dayTrades < MaxDayTrades
<1>1. clock \in Int /\ pauseUntil \in Int /\ cooldownUntil \in Int /\ streak \in Int /\ dayTrades \in Int
  BY DEF RiskInv, RiskTypes
<1>2. /\ ~(clock < pauseUntil) /\ ~(clock >= pauseUntil /\ VelocityRule)
      /\ ~(clock < cooldownUntil) /\ ~(clock >= cooldownUntil /\ CooldownRule)
      /\ ~(~x.rich /\ dayTrades >= MaxDayTrades)
  BY DEF FirstFailure
<1> QED BY <1>1, <1>2, RiskGateAssumption DEF CooldownRule

\* The invariant gives the property.
LEMMA RiskInvImplies ==
  ASSUME RiskInv
  PROVE  ApprovalIsSafe
<1>1. BurstStopsApprovals
  <2> SUFFICES ASSUME Approvable(TRUE)
               PROVE  /\ LossesSince(clock - VelocityWindow) <= VelocityLoss
                      /\ stopped = 0 \/ clock >= stopped + VelocityPause
    BY DEF BurstStopsApprovals
  <2>1. PICK x \in Situations : FirstFailure(x) = "approved"
    BY DEF Approvable
  <2>2. clock >= pauseUntil /\ ~VelocityRule
    BY <2>1, ApprovalMeans
  <2>3. stopped = 0 \/ clock >= stopped + VelocityPause
    BY <2>2, RiskGateAssumption DEF RiskInv, RiskTypes
  <2> DEFINE t == clock - VelocityWindow
             new == Pruned(lossTimes)
             book == [i \in 1 .. Len(closed) |->
                       [amount |-> IF closed[i].at >= t /\ closed[i].pnl < 0 THEN -closed[i].pnl ELSE 0]]
  <2>4. t \in Int /\ t >= t /\ lossTimes \in LossLog /\ closed \in Seq(Booked) /\ Len(closed) \in Nat
    BY RiskGateAssumption DEF RiskInv, RiskTypes
  <2>5. new = WithoutHeads(lossTimes, t)
    BY DEF Pruned
  <2>6. Total(Logged(lossTimes, t), Len(lossTimes)) = Total(Lost(t), Len(closed))
    BY <2>4 DEF RiskInv, BurstIsLogged
  <2>7. LossesSince(t) = Total(Lost(t), Len(closed))
    <3>1. Len(book) = Len(closed) /\ Amounts(book) = Lost(t)
      BY <2>4 DEF Amounts, Lost
    <3>2. LossesSince(t) = Amount(book)
      BY Zenon DEF LossesSince
    <3> HIDE DEF book, t
    <3>3. Amount(book) = Total(Amounts(book), Len(book))
      BY <2>4, <3>1, AmountIsTotal
    <3> QED BY <3>1, <3>2, <3>3
  <2> HIDE DEF t, new, book
  <2>8. /\ new \in LossLog
        /\ Total(Logged(new, t), Len(new)) = Total(Logged(lossTimes, t), Len(lossTimes))
    BY <2>4, <2>5, PruningKeepsTotals
  <2>9. /\ Len(new) \in Nat
        /\ \A i \in 1 .. Len(new) : new[i].at \in Nat /\ new[i].amount \in Nat
    BY <2>8, LogEntries
  <2>10. /\ Total(Logged(new, t), Len(new)) \in Int /\ Total(Amounts(new), Len(new)) \in Int
         /\ Total(Logged(new, t), Len(new)) <= Total(Amounts(new), Len(new))
    <3>1. \A i \in 1 .. Len(new) : /\ Logged(new, t)[i] \in Int /\ Amounts(new)[i] \in Int
                                   /\ Logged(new, t)[i] <= Amounts(new)[i]
      BY <2>9 DEF Logged, Amounts
    <3> QED BY <2>9, <3>1, TotalGrows
  <2>11. Amount(new) = Total(Amounts(new), Len(new))
    BY <2>9, AmountIsTotal
  <2>12. ~(Amount(new) > VelocityLoss)
    BY <2>2 DEF VelocityRule, new
  <2>13. LossesSince(t) <= VelocityLoss
    BY <2>6, <2>7, <2>8, <2>10, <2>11, <2>12, RiskGateAssumption
  <2> QED BY <2>3, <2>13 DEF t
<1>2. StreakNeedsWin
  <2> SUFFICES ASSUME Approvable(TRUE), ~(Len(closed) < StreakLimit)
               PROVE  \E i \in Len(closed) - StreakLimit + 1 .. Len(closed) : closed[i].pnl >= 0
    BY DEF StreakNeedsWin
  <2>1. streak < StreakLimit
    BY ApprovalMeans DEF Approvable
  <2>2. Len(closed) \in Nat /\ streak \in Nat /\ StreakLimit \in Nat
    BY RiskGateAssumption DEF RiskInv, RiskTypes
  <2>3. /\ Len(closed) - streak \in Len(closed) - StreakLimit + 1 .. Len(closed)
        /\ streak < Len(closed)
    BY <2>1, <2>2
  <2> QED BY <2>3 DEF RiskInv, StreakIsTrue
<1>3. DayTradesOutliveSession
  <2> SUFFICES ASSUME Approvable(FALSE) PROVE dayTradesEver < MaxDayTrades
    BY DEF DayTradesOutliveSession
  <2>1. PICK x \in Situations : x.rich = FALSE /\ FirstFailure(x) = "approved"
    BY Zenon DEF Approvable
  <2>2. ~x.rich
    BY <2>1, Zenon
  <2> QED BY <2>1, <2>2, ApprovalMeans DEF RiskInv
<1> QED BY <1>1, <1>2, <1>3 DEF ApprovalIsSafe

\* An evaluation prunes the log and may start a pause or a cooldown.
LEMMA EvaluateStep ==
  ASSUME RiskInv, NEW x \in Situations, Evaluate(x)
  PROVE  RiskInv'
<1> DEFINE rule == FirstFailure(x)
<1>1. /\ pauseUntil' = IF rule = "velocity" THEN clock + VelocityPause ELSE pauseUntil
      /\ cooldownUntil' = IF rule = "streak" THEN clock + Cooldown ELSE cooldownUntil
      /\ stopped' = IF rule = "velocity" THEN clock ELSE stopped
      /\ UNCHANGED <<clock, streak, dayTrades, closed, dayTradesEver>>
      /\ lossTimes' = lossTimes \/ lossTimes' = Pruned(lossTimes)
  BY DEF Evaluate
<1> HIDE DEF rule
<1>2. lossTimes' \in LossLog /\ BurstIsLogged'
  BY <1>1, PrunedStep DEF RiskInv
<1>3. RiskTypes'
  BY <1>1, <1>2, RiskGateAssumption DEF RiskInv, RiskTypes
<1>4. StreakIsTrue'
  BY <1>1 DEF RiskInv, StreakIsTrue
<1>5. stopped' # 0 => pauseUntil' = stopped' + VelocityPause
  BY <1>1 DEF RiskInv
<1> QED BY <1>1, <1>2, <1>3, <1>4, <1>5 DEF RiskInv

\* A trade closes.
LEMMA CloseStep ==
  ASSUME RiskInv, NEW pnl \in Pnls, TradeClosed(pnl)
  PROVE  RiskInv'
<1> DEFINE e == [at |-> clock, pnl |-> pnl]
<1>1. /\ streak' = IF pnl < 0 THEN streak + 1 ELSE 0
      /\ lossTimes' = Pruned(IF pnl < 0 THEN Append(lossTimes, [at |-> clock, amount |-> -pnl])
                                        ELSE lossTimes)
      /\ closed' = Append(closed, e)
      /\ UNCHANGED <<clock, pauseUntil, cooldownUntil, dayTrades, stopped, dayTradesEver>>
  BY DEF TradeClosed, timers
<1>2. pnl \in Int
  BY RiskGateAssumption
<1>3. lossTimes' \in LossLog /\ BurstIsLogged'
  BY <1>1, <1>2, LossStep DEF RiskInv
<1>4. e \in Booked /\ e.pnl = pnl
  BY <1>2 DEF Booked, RiskInv, RiskTypes
<1> HIDE DEF e
<1>5. /\ closed' \in Seq(Booked) /\ Len(closed) \in Nat /\ Len(closed') = Len(closed) + 1
      /\ closed'[Len(closed) + 1] = e /\ \A i \in 1 .. Len(closed) : closed'[i] = closed[i]
  BY <1>1, <1>4 DEF RiskInv, RiskTypes
<1>6. streak' \in Nat
  BY <1>1 DEF RiskInv, RiskTypes
<1>7. RiskTypes'
  BY <1>1, <1>3, <1>5, <1>6 DEF RiskInv, RiskTypes
<1>8. StreakIsTrue'
  <2>1. streak \in Nat /\ streak <= Len(closed)
        /\ (streak < Len(closed) => closed[Len(closed) - streak].pnl >= 0)
    BY DEF RiskInv, StreakIsTrue, RiskTypes
  <2>2. CASE pnl < 0
    <3>1. streak' = streak + 1 /\ Len(closed') - streak' = Len(closed) - streak
      BY <1>1, <1>5, <2>1, <2>2
    <3>2. streak < Len(closed) => Len(closed) - streak \in 1 .. Len(closed)
      BY <1>5, <2>1
    <3> QED BY <1>5, <2>1, <3>1, <3>2 DEF StreakIsTrue
  <2>3. CASE ~(pnl < 0)
    <3>1. streak' = 0 /\ Len(closed') - streak' = Len(closed) + 1 /\ pnl >= 0
      BY <1>1, <1>2, <1>5, <2>3
    <3> QED BY <1>4, <1>5, <3>1 DEF StreakIsTrue
  <2> QED BY <2>2, <2>3
<1> QED BY <1>1, <1>3, <1>7, <1>8 DEF RiskInv

\* The session starts again; the day trades stay.
LEMMA ResetStep ==
  ASSUME RiskInv, ResetForNewSession
  PROVE  RiskInv'
<1>1. /\ streak' = 0 /\ lossTimes' = <<>> /\ closed' = <<>>
      /\ pauseUntil' = 0 /\ cooldownUntil' = 0 /\ stopped' = 0
      /\ dayTrades' = dayTrades /\ UNCHANGED <<clock, dayTradesEver>>
  BY Zenon DEF ResetForNewSession, DayTradesAtReset
<1>2. Len(lossTimes') = 0 /\ Len(closed') = 0 /\ lossTimes' \in LossLog /\ closed' \in Seq(Booked)
  BY <1>1 DEF LossLog
<1>3. RiskTypes'
  BY <1>1, <1>2 DEF RiskInv, RiskTypes
<1>4. BurstIsLogged'
  <2>1. \A a : Total(a, 0) = 0
    BY TotalUnfolds
  <2> QED BY <1>2, <2>1 DEF BurstIsLogged
<1>5. StreakIsTrue'
  BY <1>1, <1>2 DEF StreakIsTrue
<1> QED BY <1>1, <1>3, <1>4, <1>5 DEF RiskInv

\* Time passes, a counter or a flag changes: a later window is part of the old one.
LEMMA OtherRiskStep ==
  ASSUME RiskInv,
         \/ DailyPnlSynced(0) \/ AnomalyAlert \/ ClearAnomalyHold \/ IncrementPdtCounter \/ RiskTick
         \/ UNCHANGED riskVars
  PROVE  RiskInv'
<1>1. /\ UNCHANGED <<streak, lossTimes, closed, pauseUntil, cooldownUntil, stopped>>
      /\ clock' = clock \/ clock' = clock + 1
      /\ \/ UNCHANGED <<dayTrades, dayTradesEver>>
         \/ dayTrades' = dayTrades + 1 /\ dayTradesEver' = dayTradesEver + 1
  BY DEF DailyPnlSynced, AnomalyAlert, ClearAnomalyHold, IncrementPdtCounter, RiskTick, riskVars,
         counters, timers, riskHistory
<1>2. RiskTypes' /\ dayTrades' = dayTradesEver'
  BY <1>1 DEF RiskInv, RiskTypes
<1>3. \A t : Lost(t)' = Lost(t) /\ Logged(lossTimes, t)' = Logged(lossTimes, t)
  BY <1>1 DEF Lost, Logged
<1>4. \A t \in Int : t >= clock' - VelocityWindow => t >= clock - VelocityWindow
  BY <1>1, RiskGateAssumption DEF RiskInv, RiskTypes
<1>5. BurstIsLogged'
  BY <1>1, <1>3, <1>4 DEF RiskInv, BurstIsLogged
<1>6. StreakIsTrue'
  BY <1>1 DEF RiskInv, StreakIsTrue
<1> QED BY <1>1, <1>2, <1>5, <1>6 DEF RiskInv

\* For every limit, window and pause, any results of trades and any number of
\* sessions: a signal can be approved only when the losses of the window are
\* within the threshold and a pause is over, when the last trades are not a
\* streak of losses, and when the day trades of all sessions leave room.
THEOREM ApprovalsAreSafe == RiskSpec => []ApprovalIsSafe
<1>1. RiskInit => RiskInv
  <2> SUFFICES ASSUME RiskInit PROVE RiskInv
    OBVIOUS
  <2>1. /\ clock = 1 /\ streak = 0 /\ lossTimes = <<>> /\ closed = <<>>
        /\ pauseUntil = 0 /\ cooldownUntil = 0 /\ stopped = 0 /\ dayTrades = 0 /\ dayTradesEver = 0
    BY Zenon DEF RiskInit
  <2>2. Len(lossTimes) = 0 /\ Len(closed) = 0 /\ lossTimes \in LossLog /\ closed \in Seq(Booked)
    BY <2>1 DEF LossLog
  <2>3. RiskTypes
    BY <2>1, <2>2 DEF RiskTypes
  <2>4. BurstIsLogged
    <3>1. \A a : Total(a, 0) = 0
      BY TotalUnfolds
    <3> QED BY <2>2, <3>1 DEF BurstIsLogged
  <2>5. StreakIsTrue
    BY <2>1, <2>2 DEF StreakIsTrue
  <2> QED BY <2>1, <2>3, <2>4, <2>5 DEF RiskInv
<1>2. RiskInv /\ [RiskNext]_riskVars => RiskInv'
  BY EvaluateStep, CloseStep, ResetStep, OtherRiskStep, Zenon DEF RiskNext
<1> QED BY <1>1, <1>2, RiskInvImplies, PTL DEF RiskSpec

-----------------------------------------------------------------------------
(* Intake. *)

\* The cap keeps as many of the symbols that pass as it may, whatever their
\* catalysts and volumes.
LEMMA CapIsFull ==
  ASSUME NEW passing \in SUBSET Listings
  PROVE  /\ Capped(passing) \subseteq passing
         /\ IsFiniteSet(Capped(passing))
         /\ Cardinality(Capped(passing)) <= MaxSymbols
         /\ Capped(passing) # passing => Cardinality(Capped(passing)) = MaxSymbols
<1> DEFINE R == {x \in passing \X passing : Ahead(x[1], x[2])}
<1>1. IsFiniteSet(passing)
  BY ListingAssumption, FS_Subset
<1>2. \A a, b \in passing : <<a, b>> \in R <=> Ahead(a, b)
  OBVIOUS
<1>3. \A a \in passing : a.order \in Int /\ a.volume \in Int /\ a.catalyst \in BOOLEAN
  BY ListingAssumption
<1>4. \A a, b \in passing : a.order = b.order => a = b
  BY ListingAssumption
<1> HIDE DEF R
<1>5. TotalOrder(R, passing)
  <2>1. \A a \in passing : ~(<<a, a>> \in R)
    BY <1>2, <1>3 DEF Ahead
  <2>2. ASSUME NEW a \in passing, NEW b \in passing, NEW c \in passing, <<a, b>> \in R, <<b, c>> \in R
        PROVE  <<a, c>> \in R
    <3>1. Ahead(a, b) /\ Ahead(b, c)
      BY <1>2, <2>2
    <3>2. Ahead(a, c)
      BY <1>3, <3>1 DEF Ahead
    <3> QED BY <1>2, <3>2
  <2>3. ASSUME NEW a \in passing, NEW b \in passing, a # b PROVE <<a, b>> \in R \/ <<b, a>> \in R
    <3>1. a.order # b.order
      BY <1>4, <2>3
    <3>2. Ahead(a, b) \/ Ahead(b, a)
      BY <1>3, <3>1 DEF Ahead
    <3> QED BY <1>2, <3>2
  <2> QED BY <2>1, <2>2, <2>3 DEF TotalOrder
<1> DEFINE low == {a \in passing : Rank(R, passing, a) < MaxSymbols}
<1>6. low = Capped(passing)
  <2>1. ASSUME NEW a \in passing PROVE Before(R, passing, a) = {b \in passing : Ahead(b, a)}
    BY <1>2 DEF Before
  <2> QED BY <2>1 DEF Capped, Rank
<1>7. MaxSymbols \in Nat
  BY IntakeAssumption
<1>8. IsFiniteSet(low) /\ Cardinality(low) = IF Cardinality(passing) < MaxSymbols THEN Cardinality(passing) ELSE MaxSymbols
  BY <1>1, <1>5, <1>7, LowRanks
<1>9. low \in SUBSET passing
  OBVIOUS
<1> HIDE DEF low
<1>10. Cardinality(passing) \in Nat /\ (low # passing => Cardinality(low) # Cardinality(passing))
  BY <1>1, <1>9, FS_Subset, FS_CardinalityType
<1> QED BY <1>6, <1>7, <1>8, <1>9, <1>10

\* A symbol stands for its listing: as many symbols as listings are kept, and a
\* symbol is left out with its listing.
LEMMA UniverseStep ==
  ASSUME NEW listed \in Screenings, BuildUniverse(listed)
  PROVE  UniverseIsFull'
<1> DEFINE passing == Passing(listed)
           kept == Capped(passing)
           syms == {a.sym : a \in kept}
           all == {a.sym : a \in passing}
<1>1. universe' = syms /\ screened' = listed
  BY DEF BuildUniverse
<1>2. passing \in SUBSET Listings /\ passing = {b \in listed : ~b.fails}
  BY DEF Passing, Screenings
<1>3. all = {a.sym : a \in {b \in screened' : ~b.fails}}
  BY <1>1, <1>2
<1> HIDE DEF passing
<1>4. /\ kept \subseteq passing /\ IsFiniteSet(kept)
      /\ Cardinality(kept) <= MaxSymbols
      /\ kept # passing => Cardinality(kept) = MaxSymbols
  BY <1>2, CapIsFull
<1> HIDE DEF kept
<1>5. Cardinality(syms) = Cardinality(kept)
  <2> DEFINE f == [a \in kept |-> a.sym]
  <2>1. f \in [kept -> syms] /\ (\A z \in syms : \E a \in kept : f[a] = z)
    OBVIOUS
  <2>2. \A a, b \in kept : f[a] = f[b] => a = b
    BY <1>2, <1>4, ListingAssumption
  <2> HIDE DEF f, syms
  <2> QED BY <1>4, <2>1, <2>2, SameSize
<1>6. syms \subseteq all
  BY <1>4
<1>7. syms # all => kept # passing
  OBVIOUS
<1> HIDE DEF syms, all
<1>8. /\ syms \subseteq all /\ Cardinality(syms) <= MaxSymbols
      /\ syms # all => Cardinality(syms) = MaxSymbols
  BY <1>4, <1>5, <1>6, <1>7
<1> QED BY <1>1, <1>3, <1>8 DEF UniverseIsFull

\* Every regime, published or seen, allows setups of its label only, and none
\* under a label that does not trade.
FitRegime(r) == r.allowed \subseteq SetupMap[r.label] /\ (r.allowed # {} => r.label \in Tradeable)
RegimesFit ==
  /\ \A r \in regimes : FitRegime(r)
  /\ seesRegime = NoRegime \/ FitRegime(seesRegime)
  /\ CandidateFitsRegime

\* The clean checks counted are the latest outcomes.
Outcome == {"clean", "anomaly", "nothing"}
CountIsOfTheLast ==
  /\ feedClean \in BOOLEAN
  /\ outcomes \in Seq(Outcome) /\ Len(outcomes) <= Required
  /\ cleanChecks \in Nat /\ cleanChecks <= Len(outcomes)
  /\ \A i \in 1 .. Len(outcomes) : i > Len(outcomes) - cleanChecks => outcomes[i] = "clean"

IntakeInv == UniverseIsFull /\ RegimesFit /\ CountIsOfTheLast

\* What an outcome does to the memory of the last checks.
LEMMA MemoryMoves ==
  ASSUME CountIsOfTheLast, NEW o \in Outcome, outcomes' = Remembered(o)
  PROVE  /\ outcomes' \in Seq(Outcome) /\ Len(outcomes') \in 1 .. Required
         /\ outcomes'[Len(outcomes')] = o
         /\ Len(outcomes') = Len(outcomes) + 1 \/ (Len(outcomes') = Len(outcomes) /\ Len(outcomes) = Required)
         /\ \A i \in 1 .. Len(outcomes') - 1 :
              LET j == i + Len(outcomes) + 1 - Len(outcomes')
              IN  j \in 1 .. Len(outcomes) /\ outcomes'[i] = outcomes[j]
<1>1. outcomes \in Seq(Outcome) /\ Len(outcomes) \in Nat /\ Len(outcomes) <= Required /\ Required \in Nat \ {0}
  BY IntakeAssumption DEF CountIsOfTheLast
<1> DEFINE all == Append(outcomes, o)
<1>2. /\ all \in Seq(Outcome) /\ Len(all) = Len(outcomes) + 1 /\ all[Len(outcomes) + 1] = o
      /\ \A i \in 1 .. Len(outcomes) : all[i] = outcomes[i]
  BY <1>1
<1>3. outcomes' = IF Len(all) > Required THEN Tail(all) ELSE all
  BY DEF Remembered
<1> HIDE DEF all
<1>4. CASE Len(all) > Required
  <2>1. outcomes' = Tail(all) /\ Len(outcomes) = Required /\ all # <<>>
    BY <1>1, <1>2, <1>3, <1>4
  <2>2. /\ outcomes' \in Seq(Outcome) /\ Len(outcomes') = Required
        /\ \A i \in 1 .. Required : outcomes'[i] = all[i + 1]
    BY <1>1, <1>2, <2>1
  <2>3. \A i \in 1 .. Required - 1 : i + 1 \in 1 .. Len(outcomes) /\ i + Len(outcomes) + 1 - Required = i + 1
    BY <1>1, <2>1
  <2> QED BY <1>1, <1>2, <2>1, <2>2, <2>3
<1>5. CASE ~(Len(all) > Required)
  <2>1. outcomes' = all
    BY <1>3, <1>5
  <2>2. \A i \in 1 .. Len(all) - 1 : i \in 1 .. Len(outcomes) /\ i + Len(outcomes) + 1 - Len(all) = i
    BY <1>1, <1>2
  <2> QED BY <1>1, <1>2, <1>5, <2>1, <2>2
<1> QED BY <1>4, <1>5

\* What a step may do to the gate of the feed.
GateStep ==
  /\ feedClean' /\ ~feedClean => outcomes' = [i \in 1 .. Required |-> "clean"]
  /\ outcomes' # outcomes /\ outcomes'[Len(outcomes')] = "anomaly" => ~feedClean'

\* A round without symbols starts the count again.
LEMMA NothingStep ==
  ASSUME CountIsOfTheLast, CheckNothing
  PROVE  CountIsOfTheLast' /\ GateStep
<1>1. cleanChecks' = 0 /\ outcomes' = Remembered("nothing") /\ feedClean' = feedClean
  BY DEF CheckNothing, CountWithoutSymbols
<1>2. /\ outcomes' \in Seq(Outcome) /\ Len(outcomes') \in 1 .. Required
      /\ outcomes'[Len(outcomes')] = "nothing"
  BY <1>1, MemoryMoves DEF Outcome
<1>3. \A i \in 1 .. Len(outcomes') : ~(i > Len(outcomes') - 0)
  BY <1>2
<1>4. CountIsOfTheLast'
  BY <1>1, <1>2, <1>3, IntakeAssumption DEF CountIsOfTheLast
<1>5. GateStep
  BY <1>1, <1>2 DEF GateStep, CountIsOfTheLast
<1> QED BY <1>4, <1>5

\* A round with symbols counts when it finds nothing; the gate opens at the
\* required count and shuts when something is found.
LEMMA ChecksStep ==
  ASSUME CountIsOfTheLast, NEW ticks, RunChecks(ticks)
  PROVE  CountIsOfTheLast' /\ GateStep
<1> DEFINE found == UNION {Anomalies(s, ticks[s]) : s \in DOMAIN ticks}
           count == IF cleanChecks < Required THEN cleanChecks + 1 ELSE cleanChecks
           o == IF found = {} THEN "clean" ELSE "anomaly"
           n == Len(outcomes)
           k == Len(outcomes')
<1>1. /\ cleanChecks' = IF found = {} THEN count ELSE 0
      /\ feedClean' = IF found = {} /\ count >= Required /\ ~feedClean THEN TRUE
                      ELSE IF found # {} /\ feedClean THEN FALSE ELSE feedClean
      /\ outcomes' = Remembered(o)
  BY Zenon DEF RunChecks, FeedCleanDue
<1>2. o \in Outcome
  BY DEF Outcome
<1> HIDE DEF found
<1>3. /\ outcomes' \in Seq(Outcome) /\ k \in 1 .. Required
      /\ outcomes'[k] = o
      /\ k = n + 1 \/ (k = n /\ n = Required)
      /\ \A i \in 1 .. k - 1 : LET j == i + n + 1 - k IN j \in 1 .. n /\ outcomes'[i] = outcomes[j]
  BY <1>1, <1>2, MemoryMoves
<1>4. n \in Nat /\ cleanChecks \in Nat /\ cleanChecks <= n /\ n <= Required /\ Required \in Nat \ {0}
  BY IntakeAssumption DEF CountIsOfTheLast
<1>5. feedClean \in BOOLEAN /\ feedClean' \in BOOLEAN
  <2>1. feedClean \in BOOLEAN
    BY DEF CountIsOfTheLast
  <2> QED BY <1>1, <2>1, Zenon
<1>6. CASE found = {}
  <2>1. o = "clean" /\ cleanChecks' = count
    BY <1>1, <1>6
  <2>2. count \in Nat /\ count <= k /\ count <= cleanChecks + 1
    BY <1>3, <1>4
  <2> HIDE DEF n, k, count
  <2>3. ASSUME NEW i \in 1 .. k, i > k - count PROVE outcomes'[i] = "clean"
    <3>1. CASE i = k
      BY <1>3, <2>1, <3>1
    <3>2. CASE i # k
      <4>1. i \in 1 .. k - 1
        BY <1>3, <3>2
      <4> DEFINE j == i + n + 1 - k
      <4>2. j \in 1 .. n /\ outcomes'[i] = outcomes[j]
        BY <1>3, <4>1
      <4>3. j > n - cleanChecks
        BY <1>3, <1>4, <2>2, <2>3
      <4> HIDE DEF j
      <4> QED BY <4>2, <4>3 DEF CountIsOfTheLast, n
    <3> QED BY <3>1, <3>2
  <2>4. CountIsOfTheLast'
    <3>1. k <= Required
      BY <1>3
    <3> QED BY <1>3, <1>5, <2>1, <2>2, <2>3, <3>1 DEF CountIsOfTheLast, k
  <2>5. feedClean' /\ ~feedClean => count >= Required
    BY <1>1, <1>6, Zenon
  <2>6. ASSUME count >= Required PROVE outcomes' = [i \in 1 .. Required |-> "clean"]
    <3>1. k = Required /\ \A i \in 1 .. k : i > k - count
      BY <1>3, <1>4, <2>2, <2>6
    <3>2. \A i \in 1 .. Required : outcomes'[i] = "clean"
      BY <2>3, <3>1
    <3>3. outcomes' = [i \in 1 .. k |-> outcomes'[i]]
      BY <1>3 DEF k
    <3> QED BY <3>1, <3>2, <3>3
  <2>7. GateStep
    BY <1>3, <2>1, <2>5, <2>6 DEF GateStep, k
  <2> QED BY <2>4, <2>7
<1>7. CASE found # {}
  <2>1. o = "anomaly" /\ cleanChecks' = 0 /\ ~feedClean'
    <3>1. ~feedClean'
      BY <1>1, <1>5, <1>7, Zenon
    <3> QED BY <1>1, <1>7, <3>1
  <2>2. \A i \in 1 .. k : ~(i > k - 0)
    BY <1>3
  <2>3. CountIsOfTheLast'
    BY <1>3, <1>4, <1>5, <2>1, <2>2 DEF CountIsOfTheLast
  <2>4. GateStep
    BY <2>1 DEF GateStep
  <2> QED BY <2>3, <2>4
<1> QED BY <1>6, <1>7

\* Whatever the model answers, the assessment fits the canonical map.
LEMMA AssessmentFits ==
  ASSUME NEW label \in Labels, NEW raw, NEW vixHigh \in BOOLEAN
  PROVE  FitRegime(Assessed(label, raw, vixHigh))
<1> DEFINE r == Assessed(label, raw, vixHigh)
<1>1. CASE vixHigh \/ label \notin Tradeable
  <2>1. r.allowed = {}
    BY <1>1 DEF Assessed
  <2> QED BY <2>1 DEF FitRegime
<1>2. CASE ~(vixHigh \/ label \notin Tradeable)
  <2>1. r.label = label /\ r.allowed \subseteq SetupMap[label]
    BY <1>2 DEF Assessed
  <2> QED BY <1>2, <2>1 DEF FitRegime
<1> QED BY <1>1, <1>2

\* Regimes are classified and reach the scan; a candidate is emitted under the
\* regime as it is when the model has answered.
LEMMA RegimeStep ==
  ASSUME RegimesFit,
         \/ \E label \in Labels, raw \in SUBSET Setups, vixHigh \in BOOLEAN : ClassifyRegime(label, raw, vixHigh)
         \/ \E r \in regimes : TakeRegime(r)
         \/ \E setup \in Setups : EmitCandidate(setup)
  PROVE  RegimesFit'
<1>1. ASSUME NEW label \in Labels, NEW raw \in SUBSET Setups, NEW vixHigh \in BOOLEAN,
             ClassifyRegime(label, raw, vixHigh)
      PROVE  RegimesFit'
  <2>1. regimes' = regimes \cup {Assessed(label, raw, vixHigh)} /\ UNCHANGED <<seesRegime, emitted>>
    BY <1>1 DEF ClassifyRegime, scanVars
  <2>2. FitRegime(Assessed(label, raw, vixHigh))
    BY AssessmentFits
  <2> QED BY <2>1, <2>2 DEF RegimesFit, FitRegime, CandidateFitsRegime
<1>2. ASSUME NEW r \in regimes, TakeRegime(r) PROVE RegimesFit'
  <2>1. seesRegime' = r /\ UNCHANGED <<regimes, emitted>>
    BY <1>2 DEF TakeRegime
  <2> QED BY <2>1 DEF RegimesFit, FitRegime, CandidateFitsRegime
<1>3. ASSUME NEW setup \in Setups, EmitCandidate(setup) PROVE RegimesFit'
  <2>1. /\ setup \in seesRegime.allowed /\ UNCHANGED <<regimes, seesRegime>>
        /\ emitted' = [label |-> seesRegime.label, allowed |-> {setup}]
    BY <1>3 DEF EmitCandidate, MayEmit
  <2>2. FitRegime(seesRegime)
    BY <2>1 DEF RegimesFit, NoRegime
  <2>3. {setup} \subseteq SetupMap[seesRegime.label] /\ seesRegime.label \in Tradeable
    BY <2>1, <2>2 DEF FitRegime
  <2>4. emitted'.label = seesRegime.label /\ emitted'.allowed = {setup}
    BY <2>1
  <2>5. CandidateFitsRegime'
    BY <2>3, <2>4 DEF CandidateFitsRegime, Tradeable, Labels
  <2> QED BY <2>1, <2>5 DEF RegimesFit, FitRegime
<1> QED BY <1>1, <1>2, <1>3

\* The steps that touch neither regimes nor the checks.
QuietIntake ==
  \/ FeedHeartbeat \/ ReportTakenElsewhere \/ TakeFeedStatus
  \/ \E approved \in SUBSET Setups : TakeSetups(approved)
  \/ BeginScan
  \/ ScanWithoutSignal
  \/ UNCHANGED intakeVars

\* Every step keeps the invariant, and earns the opening of the gate.
LEMMA IntakeStep ==
  ASSUME IntakeInv, [IntakeNext]_intakeVars
  PROVE  IntakeInv' /\ GateStep
<1>1. /\ UNCHANGED <<universe, screened>> => UniverseIsFull'
      /\ UNCHANGED <<regimes, seesRegime, emitted>> => RegimesFit'
      /\ UNCHANGED <<feedClean, outcomes, cleanChecks>> => CountIsOfTheLast' /\ GateStep
  <2>1. UNCHANGED <<universe, screened>> => UniverseIsFull'
    BY DEF IntakeInv, UniverseIsFull
  <2>2. UNCHANGED <<regimes, seesRegime, emitted>> => RegimesFit'
    BY DEF IntakeInv, RegimesFit, FitRegime, CandidateFitsRegime
  <2>3. UNCHANGED <<feedClean, outcomes, cleanChecks>> => CountIsOfTheLast' /\ GateStep
    BY DEF IntakeInv, CountIsOfTheLast, GateStep
  <2> QED BY <2>1, <2>2, <2>3
<1>2. ASSUME NEW listed \in Screenings, BuildUniverse(listed) PROVE IntakeInv' /\ GateStep
  <2>1. UNCHANGED <<regimes, seesRegime, emitted>> /\ UNCHANGED <<feedClean, outcomes, cleanChecks>>
    BY <1>2 DEF BuildUniverse, feedVars, scanVars
  <2> QED BY <1>1, <1>2, <2>1, UniverseStep DEF IntakeInv
<1>3. CASE \/ \E label \in Labels, raw \in SUBSET Setups, vixHigh \in BOOLEAN : ClassifyRegime(label, raw, vixHigh)
           \/ \E r \in regimes : TakeRegime(r)
           \/ \E setup \in Setups : EmitCandidate(setup)
  <2>1. UNCHANGED <<universe, screened>> /\ UNCHANGED <<feedClean, outcomes, cleanChecks>>
    BY <1>3 DEF ClassifyRegime, TakeRegime, EmitCandidate, universeVars, feedVars
  <2>2. RegimesFit'
    BY <1>3, RegimeStep DEF IntakeInv
  <2> QED BY <1>1, <2>1, <2>2 DEF IntakeInv
<1>4. ASSUME CheckNothing \/ \E ticks : RunChecks(ticks) PROVE IntakeInv' /\ GateStep
  <2>1. UNCHANGED <<universe, screened>> /\ UNCHANGED <<regimes, seesRegime, emitted>>
    BY <1>4, Zenon DEF CheckNothing, RunChecks, universeVars, scanVars
  <2>2. CountIsOfTheLast' /\ GateStep
    BY <1>4, NothingStep, ChecksStep DEF IntakeInv
  <2> QED BY <1>1, <2>1, <2>2 DEF IntakeInv
<1>5. CASE QuietIntake
  <2>1. /\ UNCHANGED <<universe, screened>> /\ UNCHANGED <<regimes, seesRegime, emitted>>
        /\ UNCHANGED <<feedClean, outcomes, cleanChecks>>
    BY <1>5 DEF QuietIntake, FeedHeartbeat, ReportTakenElsewhere, TakeFeedStatus, TakeSetups, BeginScan,
                ScanWithoutSignal, intakeVars, universeVars, feedVars, scanVars
  <2> QED BY <1>1, <2>1 DEF IntakeInv
<1> QED BY <1>2, <1>3, <1>4, <1>5, Zenon DEF IntakeNext, QuietIntake

\* The invariant holds from the start.
LEMMA IntakeStart == IntakeInit => IntakeInv
<1> SUFFICES ASSUME IntakeInit PROVE IntakeInv
  OBVIOUS
<1>1. /\ universe = NotYet /\ regimes = {} /\ seesRegime = NoRegime /\ emitted = NoRegime
      /\ feedClean = FALSE /\ cleanChecks = 0 /\ outcomes = <<>>
  BY Zenon DEF IntakeInit
<1>2. feedClean \in BOOLEAN
  BY <1>1, Zenon
<1>3. UniverseIsFull
  BY <1>1 DEF UniverseIsFull
<1>4. RegimesFit
  BY <1>1 DEF RegimesFit, CandidateFitsRegime
<1>5. CountIsOfTheLast
  BY <1>1, <1>2, IntakeAssumption DEF CountIsOfTheLast
<1> QED BY <1>3, <1>4, <1>5 DEF IntakeInv

\* For every screening, cap, label, setup map and order of messages: the universe
\* is as full as the cap allows and holds only what passed the filters, and a
\* candidate carries a setup that the regime of its label allows.
THEOREM IntakeHolds == IntakeSpec => []IntakeIsSound
<1>1. IntakeInv /\ [IntakeNext]_intakeVars => IntakeInv'
  BY IntakeStep
<1>2. IntakeInv => IntakeIsSound
  BY DEF IntakeInv, RegimesFit, IntakeIsSound
<1> QED BY <1>1, <1>2, IntakeStart, PTL DEF IntakeSpec

\* For every number of symbols and every required number of rounds: the gate of
\* the feed opens only after that many rounds that looked at symbols and found
\* nothing, and the round that finds an anomaly shuts it.
THEOREM GateIsEarned == IntakeSpec => CleanIsEarned
<1>1. IntakeInv /\ [IntakeNext]_intakeVars => IntakeInv' /\ GateStep
  BY IntakeStep
<1>2. GateStep =>
        [/\ feedClean' /\ ~feedClean => outcomes' = [i \in 1 .. Required |-> "clean"]
         /\ outcomes' # outcomes /\ outcomes'[Len(outcomes')] = "anomaly" => ~feedClean']_intakeVars
  BY DEF GateStep
<1> QED BY <1>1, <1>2, IntakeStart, PTL DEF IntakeSpec, CleanIsEarned

=============================================================================
