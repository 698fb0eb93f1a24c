------------------------------ MODULE RedisBus ------------------------------
(***************************************************************************)
(* One topic of the Redis backend (infrastructure/message_bus.py,          *)
(* RedisStreamBus).  All handlers read the stream as consumers of one      *)
(* group: an entry goes to one of them and is acknowledged when the        *)
(* handler returns.  Nobody reads entries that were not acknowledged, and  *)
(* the oldest entries are trimmed, read or not.  An error of the           *)
(* connection ends a consumer task; nothing starts it again.               *)
(***************************************************************************)
EXTENDS Integers, Sequences

CONSTANTS
  Consumers,   \* consumer tasks of the topic
  Batch,       \* entries read at once
  MaxLen,      \* max_len
  MaxEntries,  \* bound: entries published
  MaxOutages   \* bound: errors met outside a handler, and restarts

ASSUME RedisAssumption ==
  Batch \in Nat \ {0} /\ MaxLen \in Nat \ {0} /\ MaxEntries \in Nat /\ MaxOutages \in Nat

VARIABLES
  healthy,   \* _healthy
  entries,   \* last entry of the stream
  trimmed,   \* entries trimmed off its head
  grouped,   \* the group exists
  delivered, \* last-delivered-id of the group
  reading,   \* consumer -> the entries it has read; its handler has the first
  begun,     \* consumers whose task was started
  alive,     \* consumers whose loop runs
  pendingEntries, \* entries of the group delivered and not acknowledged
  acked,     \* entries acknowledged
  succeeded, \* history: entries a handler returned for
  lostEntries, \* history: entries no reader of the group can get
  outages

redisVars == <<healthy, entries, trimmed, grouped, delivered, reading, begun, alive, pendingEntries,
               acked, succeeded, lostEntries, outages>>
groupVars == <<grouped, delivered, pendingEntries, acked, succeeded, lostEntries>>

RedisInit ==
  /\ healthy = TRUE /\ entries = 0 /\ trimmed = 0 /\ grouped = FALSE /\ delivered = 0
  /\ reading = [c \in Consumers |-> <<>>]
  /\ begun = {} /\ alive = {} /\ pendingEntries = {} /\ acked = {} /\ succeeded = {}
  /\ lostEntries = {} /\ outages = 0

\* publish raises when the connection is known to be broken.  xadd trims the
\* stream to about MaxLen entries ("approximate": it may keep more).
PublishEntry ==
  /\ healthy /\ entries < MaxEntries
  /\ entries' = entries + 1
  /\ trimmed' \in {trimmed} \cup (trimmed .. entries' - MaxLen)
  /\ lostEntries' = lostEntries \cup (IF grouped THEN delivered + 1 .. trimmed' ELSE {entries'})
  /\ UNCHANGED <<healthy, grouped, delivered, reading, begun, alive, pendingEntries, acked, succeeded,
                 outages>>

\* start_consuming and _ensure_group: the group begins at the end of the stream
\* ("$"), unless it exists already.
StartConsumer(c) ==
  /\ c \notin begun
  /\ begun' = begun \cup {c} /\ alive' = alive \cup {c}
  /\ delivered' = IF grouped THEN delivered ELSE entries
  /\ grouped' = TRUE
  /\ UNCHANGED <<healthy, entries, trimmed, reading, pendingEntries, acked, succeeded, lostEntries, outages>>

\* xreadgroup with ">" and a count: what is still there behind the last entry
\* delivered.
Unread == IF trimmed > delivered THEN trimmed ELSE delivered
LastOfBatch == IF entries < Unread + Batch THEN entries ELSE Unread + Batch

Assigned ==
  /\ delivered < entries
  /\ delivered' = LastOfBatch
  /\ pendingEntries' = pendingEntries \cup (Unread + 1 .. LastOfBatch)
  /\ UNCHANGED <<grouped, acked, succeeded, lostEntries>>

ReadEntries(c) ==
  /\ c \in alive /\ healthy /\ reading[c] = <<>> /\ Assigned
  /\ reading' = [reading EXCEPT ![c] = [i \in 1 .. LastOfBatch - Unread |-> Unread + i]]
  /\ UNCHANGED <<healthy, entries, trimmed, begun, alive, outages>>

\* Mutant: the entry is acknowledged whatever the handler did.
AckedAlways(e, result) == acked \cup {e}

\* xack behind the handler; when the handler or xack raises, the entry stays
\* pending.
Acked(e, result) == IF result = "acknowledged" THEN acked \cup {e} ELSE acked

\* Mutant: the exception of a handler ends the consumer.
AliveAfterRaising(c, result) == IF result = "raised" THEN alive \ {c} ELSE alive

\* The exception is caught inside the loop.
AliveAfter(c, result) == alive

Results == {"acknowledged", "returned", "raised"}

HandlerDone(c, result) ==
  /\ reading[c] # <<>>
  /\ LET e == Head(reading[c]) IN
       /\ acked' = Acked(e, result)
       /\ pendingEntries' = IF result = "acknowledged" THEN pendingEntries \ {e} ELSE pendingEntries
       /\ succeeded' = IF result = "raised" THEN succeeded ELSE succeeded \cup {e}
  /\ reading' = [reading EXCEPT ![c] = Tail(@)]
  /\ alive' = AliveAfter(c, result)
  /\ UNCHANGED <<healthy, entries, trimmed, grouped, delivered, begun, lostEntries, outages>>

\* xreadgroup raises, with or without entries that were assigned and never
\* arrive.  A connection error sets the flag; a timeout or any other error ends
\* the task alone.
ReadFails(c) ==
  /\ c \in alive /\ healthy /\ reading[c] = <<>> /\ outages < MaxOutages
  /\ healthy' \in BOOLEAN
  /\ alive' = alive \ {c}
  /\ outages' = outages + 1
  /\ Assigned \/ UNCHANGED groupVars
  /\ UNCHANGED <<entries, trimmed, reading, begun>>

\* The other loops end when they look at the flag.
LoopEnds(c) ==
  /\ c \in alive /\ ~healthy /\ reading[c] = <<>>
  /\ alive' = alive \ {c}
  /\ UNCHANGED <<healthy, entries, trimmed, reading, begun, groupVars, outages>>

\* ping, called by the watchdog's health check, sets the flag again.
Ping ==
  /\ ~healthy
  /\ healthy' = TRUE
  /\ UNCHANGED <<entries, trimmed, reading, begun, alive, groupVars, outages>>

\* The process ends and starts again; the stream and its group stay.
ProcessRestarts ==
  /\ outages < MaxOutages /\ outages' = outages + 1
  /\ healthy' = TRUE /\ begun' = {} /\ alive' = {}
  /\ reading' = [c \in Consumers |-> <<>>]
  /\ UNCHANGED <<entries, trimmed, groupVars>>

RedisNext ==
  \/ PublishEntry \/ Ping \/ ProcessRestarts
  \/ \E c \in Consumers :
       \/ StartConsumer(c) \/ ReadEntries(c) \/ ReadFails(c) \/ LoopEnds(c)
       \/ \E result \in Results : HandlerDone(c, result)

RedisSpec == RedisInit /\ [][RedisNext]_redisVars

-----------------------------------------------------------------------------
(* Properties. *)

\* Every entry the group was given is accounted for: it was handled and
\* acknowledged, or it is pending, for good when its handler raised, its
\* acknowledgement failed or its consumer ended; and an entry has one consumer.
\* The entries that are neither were published before the group or trimmed
\* before they were read.
NothingAckedUnhandled ==
  /\ acked \subseteq succeeded
  /\ acked \cap pendingEntries = {}
  /\ \A c, d \in Consumers : c # d =>
       \A i \in 1 .. Len(reading[c]), j \in 1 .. Len(reading[d]) : reading[c][i] # reading[d][j]
  /\ \A e \in 1 .. delivered : e \in acked \cup pendingEntries \cup lostEntries
  /\ lostEntries \cap (acked \cup pendingEntries) = {}

\* An entry published for the group is handed to a consumer, unless it is trimmed
\* while the group is MaxLen entries or more behind, or no consumer is left and an
\* error outside the handlers or a restart was met: handlers that raise end nobody.
EntryIsDelivered ==
  \A e \in 1 .. MaxEntries :
    (entries >= e /\ e \notin lostEntries) ~>
      \/ e \in acked \cup pendingEntries
      \/ e \in lostEntries /\ entries >= e + MaxLen
      \/ alive = {} /\ outages > 0

\* Entries are accounted for and, while a consumer lives and they are not trimmed,
\* delivered.
EntriesAreHandled == []NothingAckedUnhandled /\ EntryIsDelivered

=============================================================================
