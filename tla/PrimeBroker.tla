---------------------------- MODULE PrimeBroker -----------------------------
(***************************************************************************)
(* The prime broker router (infrastructure/prime_broker.py).  A desk       *)
(* chooses a broker and, when its order goes out, consumes the broker's    *)
(* credit; others may have consumed it in between.  Of a credit line of    *)
(* Limit the hard limit leaves HardLimit to be used.                       *)
(***************************************************************************)
EXTENDS Integers, FiniteSets, FiniteSetsExt

CONSTANTS
  Brokers,     \* brokers with a credit line
  Preferred,   \* the system's preferred broker
  Desks,       \* callers
  Notionals,   \* sizes of their orders
  Limit,       \* limit_usd
  HardLimit    \* limit_usd * hard_limit

ASSUME PrimeAssumption ==
  /\ Preferred \in Brokers /\ IsFiniteSet(Desks) /\ Notionals \subseteq Nat \ {0}
  /\ Limit \in Nat /\ HardLimit \in 0 .. Limit

VARIABLES
  used,     \* broker -> used_usd
  desk      \* desk -> where its order is

primeVars == <<used, desk>>

NoOrder == [at |-> "none"]

PrimeInit ==
  /\ used = [b \in Brokers |-> 0]
  /\ desk = [d \in Desks |-> NoOrder]

HardLimited(b) == used[b] >= HardLimit
HasRoom(b, notional) == ~HardLimited(b) /\ Limit - used[b] >= notional

\* select_broker: the caller's choice, the system's, then any with room.
Selectable(notional, choice) ==
  IF HasRoom(choice, notional) THEN {choice}
  ELSE IF HasRoom(Preferred, notional) THEN {Preferred}
  ELSE {b \in Brokers : HasRoom(b, notional)}

SelectBroker(d, notional, choice, b) ==
  /\ desk[d] = NoOrder /\ b \in Selectable(notional, choice)
  /\ desk' = [desk EXCEPT ![d] = [at |-> "selected", broker |-> b, notional |-> notional]]
  /\ UNCHANGED used

\* Mutant: only a line that is used up refuses.
AcceptsUnchecked(b, notional) == ~HardLimited(b)

\* CreditLine.consume.
Accepts(b, notional) == ~HardLimited(b) /\ used[b] + notional <= HardLimit

\* consume_credit; a refused desk starts over.
ConsumeCredit(d) ==
  /\ desk[d].at = "selected"
  /\ IF Accepts(desk[d].broker, desk[d].notional)
     THEN /\ used' = [used EXCEPT ![desk[d].broker] = @ + desk[d].notional]
          /\ desk' = [desk EXCEPT ![d].at = "open"]
     ELSE desk' = [desk EXCEPT ![d] = NoOrder] /\ UNCHANGED used

\* CreditLine.release never goes below zero.
Released(b, notional) == IF used[b] > notional THEN used[b] - notional ELSE 0

ReleaseCredit(d) ==
  /\ desk[d].at = "open"
  /\ used' = [used EXCEPT ![desk[d].broker] = Released(desk[d].broker, desk[d].notional)]
  /\ desk' = [desk EXCEPT ![d] = NoOrder]

PrimeNext ==
  \E d \in Desks :
    \/ \E notional \in Notionals, choice, b \in Brokers : SelectBroker(d, notional, choice, b)
    \/ ConsumeCredit(d) \/ ReleaseCredit(d)

PrimeSpec == PrimeInit /\ [][PrimeNext]_primeVars

-----------------------------------------------------------------------------
(* Properties. *)

\* A choice made before others consumed the same credit never takes a line
\* beyond its hard limit.
WithinHardLimit == \A b \in Brokers : used[b] <= HardLimit

\* A line is used by exactly the orders that are open, whatever the order of
\* selections, refusals and releases.
UsedByOpenOrders ==
  \A b \in Brokers :
    used[b] = MapThenSumSet(LAMBDA d : desk[d].notional,
                            {d \in Desks : desk[d].at = "open" /\ desk[d].broker = b})

\* Credit lines stay within their limits and are given back in full.
CreditIsSound == WithinHardLimit /\ UsedByOpenOrders

=============================================================================
