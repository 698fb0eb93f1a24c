------------------------------ MODULE DarkPool ------------------------------
(***************************************************************************)
(* The crossing engine (agents/agent_25_dark_pool.py): an order is crossed *)
(* against the market maker's inventory or sent to the lit market.  The    *)
(* market maker (agent 20) overwrites the inventory with its own figures   *)
(* from time to time.  Of a quote it matters whether its spread reaches    *)
(* the minimum.                                                            *)
(***************************************************************************)
EXTENDS Integers

CONSTANTS
  Quantities,   \* quantities of orders and inventories
  MaxQty,       \* max_internalization_qty
  InternalizeArb,  \* internalize_arbitrage
  MaxOrders     \* bound: orders

ASSUME PoolAssumption ==
  Quantities \subseteq Nat /\ MaxQty \in Nat /\ InternalizeArb \in BOOLEAN /\ MaxOrders \in Nat

VARIABLES
  inventory,  \* [known, long, short] of the symbol
  stats,      \* ATSStats: orders, internalized, lit, shares crossed, shares lit
  snapshot,   \* history: the inventory as it was last reported
  crossed     \* history: shares crossed since then

poolVars == <<inventory, stats, snapshot, crossed>>

PoolInit ==
  /\ inventory = [known |-> FALSE, long |-> 0, short |-> 0]
  /\ stats = [orders |-> 0, internalized |-> 0, lit |-> 0, crossed |-> 0, sent |-> 0]
  /\ snapshot = 0 /\ crossed = 0

UpdateInventory(long, short) ==
  /\ inventory' = [known |-> TRUE, long |-> long, short |-> short]
  /\ snapshot' = long /\ crossed' = 0
  /\ UNCHANGED stats

\* Mutant: any long inventory will do.
CoversAny(qty) == inventory.long > 0

\* Buyers are served from the long inventory, and sellers are held to it too.
Covers(qty) == inventory.long >= qty

CanInternalize(order, wide) ==
  /\ order.flow # "arbitrage" \/ InternalizeArb
  /\ order.qty <= MaxQty
  /\ wide
  /\ inventory.known
  /\ order.side = "buy" => inventory.long > 0
  /\ Covers(order.qty)

RouteInternally(order, wide) ==
  /\ stats.orders < MaxOrders /\ CanInternalize(order, wide)
  /\ inventory' = [inventory EXCEPT !.long = @ - order.qty]
  /\ stats' = [stats EXCEPT !.orders = @ + 1, !.internalized = @ + 1, !.crossed = @ + order.qty]
  /\ crossed' = crossed + order.qty
  /\ UNCHANGED snapshot

RouteToLit(order, wide) ==
  /\ stats.orders < MaxOrders /\ ~CanInternalize(order, wide)
  /\ stats' = [stats EXCEPT !.orders = @ + 1, !.lit = @ + 1, !.sent = @ + order.qty]
  /\ UNCHANGED <<inventory, snapshot, crossed>>

Incoming == [side : {"buy", "sell"}, qty : Quantities \ {0}, flow : {"retail", "institutional", "arbitrage"}]

PoolNext ==
  \/ \E long, short \in Quantities : UpdateInventory(long, short)
  \/ \E order \in Incoming, wide \in BOOLEAN : RouteInternally(order, wide) \/ RouteToLit(order, wide)

PoolSpec == PoolInit /\ [][PoolNext]_poolVars

-----------------------------------------------------------------------------
(* Properties. *)

\* Between two reports of the market maker no series of orders, of whatever
\* side, crosses more shares than the report said it holds.
CrossesWhatItHolds == crossed <= snapshot
=============================================================================
