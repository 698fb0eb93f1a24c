----------------------------- MODULE FixSession -----------------------------
(***************************************************************************)
(* The FIX 4.4 connector (infrastructure/fix_connector.py): connecting     *)
(* with retries, logon, the read loop, and orders that wait for their      *)
(* execution report until a timeout.  Several tasks send at a time; a send *)
(* takes its sequence number and writes in one step and then waits for the *)
(* socket, which may raise or be cancelled.  The venue answers orders late,*)
(* twice or never.                                                         *)
(***************************************************************************)
EXTENDS Naturals, Sequences, FiniteSets

CONSTANTS
  Callers,       \* tasks that call new_order
  MaxAttempts,   \* max_reconnect_attempts
  MaxOut,        \* bound: messages sent
  MaxReplies     \* bound: execution reports on their way

ASSUME FixAssumption == MaxAttempts \in Nat /\ MaxOut \in Nat /\ MaxReplies \in Nat

VARIABLES
  fixRunning,  \* _running
  fixState,    \* _state: FIXSessionState
  connecting,  \* _connect_with_retry runs
  stopping,    \* stop waits in the drain of its LOGOUT
  socket,      \* the writer: "closed", "open", or "deaf": usable, but nobody hears it
  link,        \* connections made so far
  readers,     \* read loops alive
  attempts,    \* _reconnect_attempts
  seqOut,      \* _seq_num_out
  wire,        \* history: messages written, [no, on]: the connection the venue
               \* heard them on, 0 when it did not
  acks,        \* _pending_acks: caller's order -> is its future done?
  sending,     \* callers in the drain of their order
  waiting,     \* callers in wait_for
  ordered,     \* history: callers that called new_order
  raised,      \* history: orders whose send raised
  heard,       \* history: orders the venue heard
  replies,     \* execution reports on their way: the order they are for
  answered     \* history: orders whose caller saw a report

fixLink == <<fixRunning, fixState, connecting, stopping, socket, link, readers, attempts>>
fixOut == <<seqOut, wire>>
fixOrders == <<acks, sending, waiting, ordered, raised, heard, replies, answered>>
fixVars == <<fixLink, fixOut, fixOrders>>

FixInit ==
  /\ fixRunning = FALSE /\ fixState = "DISCONNECTED" /\ connecting = FALSE /\ stopping = FALSE
  /\ socket = "closed" /\ link = 0 /\ readers = 0 /\ attempts = 0
  /\ seqOut = 1 /\ wire = <<>>
  /\ acks = {} /\ sending = {} /\ waiting = {} /\ ordered = {} /\ raised = {} /\ heard = {}
  /\ replies = <<>> /\ answered = {}

\* Mutant: the number moves on behind the wait for the socket, when a second
\* sender may have used it.
SentLate(n, on) == /\ wire' = wire \o [i \in 1 .. n |-> [no |-> seqOut, on |-> on]]
                   /\ seqOut' = seqOut + 1

\* n calls of _send that overlap in their drain.
Sent(n, on) == /\ wire' = wire \o [i \in 1 .. n |-> [no |-> seqOut + i - 1, on |-> on]]
               /\ seqOut' = seqOut + n

Usable == socket # "closed"
HeardOn == IF socket = "open" THEN link ELSE 0

-----------------------------------------------------------------------------
StartFix ==
  /\ ~fixRunning /\ ~connecting /\ attempts = 0 /\ seqOut = 1
  /\ fixRunning' = TRUE /\ connecting' = TRUE
  /\ fixState' = "CONNECTING"
  /\ UNCHANGED <<stopping, socket, link, readers, attempts, fixOut, fixOrders>>

\* An attempt fails with an OSError; the last one gives up.
AttemptFails ==
  /\ attempts' = attempts + 1
  /\ connecting' = (fixRunning /\ attempts' < MaxAttempts)
  /\ UNCHANGED <<fixRunning, stopping, readers, fixOrders>>

ConnectFails ==
  /\ connecting /\ AttemptFails
  /\ fixState' = IF fixRunning THEN "CONNECTING" ELSE fixState
  /\ UNCHANGED <<socket, link, fixOut>>

\* The connection is there, and a LOGON goes out.  It asks for a reset of the
\* sequence numbers (ResetSeqNumFlag), but the number it has goes on counting.
LogonSent ==
  /\ connecting /\ seqOut <= MaxOut
  /\ fixState' = "LOGON_SENT" /\ link' = link + 1
  /\ Sent(1, link')

\* The loops are started.  When the session was stopped meanwhile the loops
\* end at once and the connection stays open.
ConnectSucceeds ==
  /\ LogonSent
  /\ socket' = "open"
  /\ connecting' = FALSE /\ attempts' = 0
  /\ readers' = IF fixRunning THEN readers + 1 ELSE readers
  /\ UNCHANGED <<fixRunning, stopping, fixOrders>>

\* The drain of the LOGON raises; the writer is kept.
LogonFails ==
  /\ LogonSent /\ AttemptFails
  /\ socket' \in {"deaf", "closed"}

\* _dispatch of LOGON and of LOGOUT.
ReceiveLogon ==
  /\ readers > 0 /\ fixState = "LOGON_SENT"
  /\ fixState' = "ACTIVE"
  /\ UNCHANGED <<fixRunning, connecting, stopping, socket, link, readers, attempts, fixOut, fixOrders>>

ReceiveLogout ==
  /\ readers > 0 /\ fixState \in {"ACTIVE", "LOGOUT_PENDING"}
  /\ fixState' = "DISCONNECTED"
  /\ UNCHANGED <<fixRunning, connecting, stopping, socket, link, readers, attempts, fixOut, fixOrders>>

\* The venue goes, or the transport finds that it went; the reader may find out
\* later.
VenueGoes ==
  /\ Usable /\ socket' \in {"deaf", "closed"} \ {socket}
  /\ UNCHANGED <<fixRunning, fixState, connecting, stopping, link, readers, attempts, fixOut, fixOrders>>

\* The read loop ends, and what it had not read is lost; the writer stays as it
\* is.  While the session runs it connects again, unless the attempts are used
\* up.
LoopLost ==
  /\ readers' = readers - 1
  /\ fixState' = IF fixRunning /\ attempts < MaxAttempts THEN "CONNECTING"
                 ELSE IF fixRunning THEN "DISCONNECTED" ELSE fixState
  /\ connecting' = (connecting \/ (fixRunning /\ attempts < MaxAttempts))
  /\ replies' = <<>>
  /\ UNCHANGED <<fixRunning, stopping, socket, link, attempts>>

\* The connection ends, a message cannot be decoded, a callback raises, or the
\* session no longer runs.
ReadLoopEnds ==
  /\ readers > 0 /\ LoopLost
  /\ UNCHANGED <<fixOut, acks, sending, waiting, ordered, raised, heard, answered>>

\* Heartbeats of the heartbeat loop and of loops that earlier connections left
\* behind, cancels, replaces, mass cancels and market data requests: all are a
\* message on the wire, and none looks at the answer.
SendOthers(n) ==
  /\ Usable /\ seqOut + n <= MaxOut + 1
  /\ Sent(n, HeardOn)
  /\ UNCHANGED <<fixLink, fixOrders>>

-----------------------------------------------------------------------------
\* new_order up to the wait for the socket.  Every order has an id of its own.
NewOrder(c) ==
  /\ c \notin ordered
  /\ acks' = acks \cup {[order |-> c, done |-> FALSE]}
  /\ ordered' = ordered \cup {c}
  /\ \/ /\ Usable /\ seqOut <= MaxOut
        /\ sending' = sending \cup {c}
        /\ heard' = IF socket = "open" THEN heard \cup {c} ELSE heard
        /\ Sent(1, HeardOn) /\ UNCHANGED raised
     \/ /\ ~Usable   \* _send raises before the try block that cleans up
        /\ raised' = raised \cup {c}
        /\ UNCHANGED <<sending, heard, fixOut>>
  /\ UNCHANGED <<fixLink, waiting, replies, answered>>

\* The drain is over; or it raises or is cancelled, before the try block too:
\* the order may be out, and nobody will wait for its report.
Drained(c, ok) ==
  /\ c \in sending
  /\ sending' = sending \ {c}
  /\ waiting' = IF ok THEN waiting \cup {c} ELSE waiting
  /\ raised' = IF ok THEN raised ELSE raised \cup {c}
  /\ UNCHANGED <<fixLink, fixOut, acks, ordered, heard, replies, answered>>

\* The venue reports on an order.
VenueReports(c) ==
  /\ socket = "open" /\ Len(replies) < MaxReplies /\ c \in heard
  /\ replies' = Append(replies, c)
  /\ UNCHANGED <<fixLink, fixOut, acks, sending, waiting, ordered, raised, heard, answered>>

\* _dispatch of an EXECUTION_REPORT; the callback may raise and end the read
\* loop, and so does a report that finds the future done.
ReceiveReport ==
  /\ readers > 0 /\ replies # <<>>
  /\ LET c == Head(replies) IN
       /\ acks' = {IF a.order = c THEN [order |-> c, done |-> TRUE] ELSE a : a \in acks}
       /\ \/ replies' = Tail(replies) /\ [order |-> c, done |-> TRUE] \notin acks /\ UNCHANGED fixLink
          \/ LoopLost
  /\ UNCHANGED <<fixOut, sending, waiting, ordered, raised, heard, answered>>

\* Mutant: the entry is removed only when a report came.
ForgottenAnswered(c) == IF [order |-> c, done |-> TRUE] \in acks
                        THEN {a \in acks : a.order # c} ELSE acks

\* finally: self._pending_acks.pop.
Forgotten(c) == {a \in acks : a.order # c}

\* The caller wakes up with the report, five seconds are over, or it is
\* cancelled.
NewOrderReturns(c) ==
  /\ c \in waiting
  /\ answered' = IF [order |-> c, done |-> TRUE] \in acks THEN answered \cup {c} ELSE answered
  /\ acks' = Forgotten(c)
  /\ waiting' = waiting \ {c}
  /\ UNCHANGED <<fixLink, fixOut, sending, ordered, raised, heard, replies>>

\* The end of stop: tasks are cancelled, a retry that is under way is not, and
\* the writer is closed, which may raise before the state is set.
Closed ==
  /\ readers' = 0 /\ socket' = "closed"
  /\ fixState' \in {"DISCONNECTED", fixState}
  /\ UNCHANGED <<connecting, link, attempts, fixOut, fixOrders>>

\* stop: an active session sends its LOGOUT first, which raises without a writer.
StopFix ==
  /\ fixRunning /\ fixRunning' = FALSE
  /\ \/ fixState # "ACTIVE" /\ Closed /\ UNCHANGED stopping
     \/ /\ fixState = "ACTIVE" /\ fixState' = "LOGOUT_PENDING"
        /\ IF Usable THEN seqOut <= MaxOut /\ Sent(1, HeardOn) ELSE UNCHANGED fixOut
        /\ stopping' = Usable
        /\ UNCHANGED <<connecting, socket, link, readers, attempts, fixOrders>>

\* The drain of the LOGOUT is over, or it raises and nothing more is done.
StopGoesOn ==
  /\ stopping /\ stopping' = FALSE
  /\ \/ Closed
     \/ UNCHANGED <<fixState, connecting, socket, link, readers, attempts, fixOut, fixOrders>>
  /\ UNCHANGED fixRunning

FixNext ==
  \/ StartFix \/ StopFix \/ StopGoesOn
  \/ ConnectFails \/ ConnectSucceeds \/ LogonFails \/ VenueGoes \/ ReadLoopEnds
  \/ ReceiveLogon \/ ReceiveLogout \/ ReceiveReport
  \/ \E n \in 1 .. 2 : SendOthers(n)
  \/ \E c \in Callers : \/ NewOrder(c) \/ VenueReports(c) \/ NewOrderReturns(c)
                        \/ \E ok \in BOOLEAN : Drained(c, ok)

FixSpec == FixInit /\ [][FixNext]_fixVars

-----------------------------------------------------------------------------
(* Properties. *)

\* Whatever reconnects, stops and concurrent senders do, each number is taken
\* once and none is left out, and on every connection the venue hears a run of
\* them without a gap; between two connections it may miss those that went to a
\* writer nobody heard.  That a LOGON which asks for a reset should have number 1
\* is not said: after a reconnect it has not.
NumbersAreConsecutive ==
  /\ \A i \in 1 .. Len(wire) : wire[i].no = i
  /\ \A i, j, k \in 1 .. Len(wire) :
       i < j /\ j < k /\ wire[i].on = wire[k].on /\ wire[i].on # 0 => wire[j].on = wire[i].on

\* The table of pending reports holds the orders whose caller sends or waits,
\* and those whose send raised, and no other: a late report for an order that
\* timed out reaches nobody.  An entry whose send raised stays for good, also
\* where the order went out.
PendingIsAwaited ==
  /\ {a.order : a \in acks} = sending \cup waiting \cup raised
  /\ Cardinality(acks) = Cardinality(sending) + Cardinality(waiting) + Cardinality(raised)

\* Sequence numbers and the table of pending reports survive reconnects,
\* timeouts and concurrent senders.
FixIsSound == NumbersAreConsecutive /\ PendingIsAwaited

=============================================================================
