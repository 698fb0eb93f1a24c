--------------------------- MODULE TickWarehouse ----------------------------
(***************************************************************************)
(* The tick files of one symbol and one day (infrastructure/               *)
(* tick_warehouse.py) and the ClickHouse copy of them                      *)
(* (infrastructure/clickhouse_store.py).  A tick is its number, which      *)
(* stands for its prices, its time, and whether it has a volume; a record  *)
(* holds the time since the tick before in whole milliseconds.  Bytes in   *)
(* the write buffer, and bar lines in the buffer of the file object, are   *)
(* lost in a crash; the day may be opened again and its files are then     *)
(* appended to.  Bars are of one interval.                                 *)
(***************************************************************************)
EXTENDS Integers, Sequences, SequencesExt

CONSTANTS
  WriteBuffer,  \* records buffered before they are written
  Interval,     \* length of a bar
  Ms,           \* units of time that make a millisecond
  MaxTicks,     \* bound: ticks written
  MaxTime,      \* bound: the clock, which stops with the last tick
  MaxOpens      \* bound: openings of the warehouse

ASSUME WarehouseAssumption ==
  /\ {WriteBuffer, Interval, Ms} \subseteq Nat \ {0}
  /\ {MaxTicks, MaxTime, MaxOpens} \subseteq Nat

VARIABLES
  time,       \* the clock
  ticks,      \* ticks written so far
  opens,      \* openings so far
  isOpen,
  writer,     \* [on, last]: the symbol has a writer, and the time before
  header,     \* milliseconds in the header of the tick file, -1 while there is none
  start,      \* history: the time the header was made at, before it was rounded
  records,    \* records on disk
  buffered,   \* records in the write buffer
  running,    \* the bar being built, or NoBar
  bars,       \* bar lines on disk
  barLines,   \* bar lines in the buffer of the file object
  manifest,   \* tick_count of the manifest, -1 while there is none
  written,    \* history: the ticks written, less those lost in a crash
  traded,     \* history: how many ticks with a volume were written
  crashed,    \* history: there was a crash
  clean,      \* history: the last opening ended with close, and none since
  connected,  \* ClickHouse answered at the start
  batch,      \* rows gathered for ClickHouse
  inserting,  \* flushes under way, each the rows it took
  rows        \* history: rows ClickHouse got

fileVars == <<ticks, opens, isOpen, writer, header, start, records, buffered, running, bars, barLines,
              manifest, written, traded, crashed, clean>>
copyVars == <<connected, batch, inserting, rows>>
warehouseVars == <<time, fileVars, copyVars>>

NoBar == [start |-> -1, volume |-> 0]
NoWriter == [on |-> FALSE, last |-> -1]

WarehouseInit ==
  /\ time = 0 /\ opens = 0 /\ isOpen = FALSE
  /\ writer = NoWriter /\ header = -1 /\ start = 0 /\ records = <<>> /\ buffered = <<>>
  /\ running = NoBar /\ bars = <<>> /\ barLines = <<>> /\ manifest = -1
  /\ ticks = 0 /\ written = <<>> /\ traded = 0 /\ crashed = FALSE /\ clean = FALSE
  /\ connected = FALSE /\ batch = <<>> /\ inserting = {} /\ rows = <<>>

TimePasses ==
  /\ ticks < MaxTicks /\ time < MaxTime /\ time' = time + 1
  /\ UNCHANGED <<fileVars, copyVars>>

OpenWarehouse ==
  /\ ~isOpen /\ opens < MaxOpens
  /\ isOpen' = TRUE /\ opens' = opens + 1 /\ clean' = FALSE
  /\ connected' \in BOOLEAN
  /\ UNCHANGED <<time, ticks, writer, header, start, records, buffered, running, bars, barLines, manifest,
                 written, traded, crashed, batch, inserting, rows>>

\* round(): the nearest millisecond; between two of them the floats decide.
Nearest(units) ==
  {ms \in 0 .. units : 2 * (Ms * ms - units) <= Ms /\ 2 * (units - Ms * ms) <= Ms}

\* _encode_tick: the time since the last tick, whose own time is not rounded; a
\* time before it counts as no time.
Deltas(ts, last) == Nearest(IF ts > last THEN ts - last ELSE 0)

BarOf(ts) == ts - (ts % Interval)

\* Mutant: the tick that opens a bar is not counted in it.
BarAfterLate(bar, ts, volume) ==
  IF bar = NoBar THEN [start |-> BarOf(ts), volume |-> volume]
  ELSE IF BarOf(ts) > bar.start THEN [start |-> BarOf(ts), volume |-> 0]
  ELSE [bar EXCEPT !.volume = @ + volume]

\* OHLCVAggregator.update: a tick of an earlier bar counts in the running one.
\* The volume of a bar is in ticks that have one.
BarAfter(bar, ts, volume) ==
  IF bar = NoBar \/ BarOf(ts) > bar.start THEN [start |-> BarOf(ts), volume |-> volume]
  ELSE [bar EXCEPT !.volume = @ + volume]

Completed(bar, ts) == IF bar # NoBar /\ BarOf(ts) > bar.start THEN <<bar>> ELSE <<>>

\* _ensure_writer: the header is the time of the first write, rounded; the time
\* before the first record is not, in a second opening too.
LastTime == IF writer.on THEN writer.last ELSE time

\* Mutant: every record is timed from the header.
LastAfterKept(ts) == LastTime

LastAfter(ts) == ts

\* write of both classes: the tick of time ts goes to the file, and to the
\* batch when ClickHouse was there at the start.
Write(ts, volume) ==
  /\ isOpen /\ ticks < MaxTicks
  /\ ticks' = ticks + 1
  /\ IF header = -1 THEN header' \in Nearest(time) /\ start' = time ELSE UNCHANGED <<header, start>>
  /\ writer' = [on |-> TRUE, last |-> LastAfter(ts)]
  /\ running' = BarAfter(running, ts, volume)
  /\ barLines' = barLines \o Completed(running, ts)
  /\ \E delta \in Deltas(ts, LastTime) :
       LET full == Append(buffered, [id |-> ticks', delta |-> delta]) IN
         IF Len(full) >= WriteBuffer
         THEN records' = records \o full /\ buffered' = <<>>
         ELSE buffered' = full /\ UNCHANGED records
  /\ written' = Append(written, [id |-> ticks', ts |-> ts])
  /\ traded' = traded + volume
  /\ batch' = IF connected THEN Append(batch, ticks') ELSE batch
  /\ UNCHANGED <<time, opens, isOpen, bars, manifest, crashed, clean, connected, inserting, rows>>

\* _flush_loop, every second.
FlushLoop ==
  /\ isOpen /\ buffered # <<>>
  /\ records' = records \o buffered /\ buffered' = <<>>
  /\ UNCHANGED <<time, ticks, opens, isOpen, writer, header, start, running, bars, barLines, manifest,
                 written, traded, crashed, clean, copyVars>>

\* flush: the bar lines reach the disk as well.
Flush ==
  /\ isOpen /\ writer.on /\ barLines # <<>>
  /\ records' = records \o buffered /\ buffered' = <<>>
  /\ bars' = bars \o barLines /\ barLines' = <<>>
  /\ UNCHANGED <<time, ticks, opens, isOpen, writer, header, start, running, manifest,
                 written, traded, crashed, clean, copyVars>>

\* Mutant: the manifest is written before the buffer.
CountedAtCloseEarly(stored) == Len(records)

\* _write_manifest counts the records of the closed file.
CountedAtClose(stored) == Len(stored)

\* OHLCVAggregator.flush: a bar without a volume gets no line.
LastBar == IF running.volume > 0 THEN <<running>> ELSE <<>>

\* close of both classes: what is left of the batch is taken for a last
\* insert, the running bar is completed, and the manifest is written.
CloseWarehouse ==
  /\ isOpen /\ isOpen' = FALSE
  /\ records' = records \o buffered /\ buffered' = <<>>
  /\ bars' = bars \o barLines \o LastBar
  /\ running' = NoBar /\ barLines' = <<>> /\ writer' = NoWriter
  /\ manifest' = CountedAtClose(records \o buffered) /\ clean' = TRUE
  /\ inserting' = IF batch = <<>> THEN inserting ELSE inserting \cup {batch}
  /\ batch' = <<>>
  /\ UNCHANGED <<time, ticks, opens, header, start, written, traded, crashed, connected, rows>>

\* A header nothing was flushed after is lost; of the bar lines some may have
\* reached the disk.
CrashWarehouse(kept) ==
  /\ isOpen /\ isOpen' = FALSE
  /\ written' = SubSeq(written, 1, Len(written) - Len(buffered)) /\ buffered' = <<>>
  /\ header' = IF records = <<>> THEN -1 ELSE header
  /\ bars' = bars \o SubSeq(barLines, 1, kept)
  /\ running' = NoBar /\ barLines' = <<>> /\ writer' = NoWriter
  /\ crashed' = TRUE /\ clean' = FALSE
  /\ batch' = <<>> /\ inserting' = {}
  /\ UNCHANGED <<time, ticks, opens, start, records, traded, manifest, connected, rows>>

\* Mutant: rows leave the batch when the insert is done.
BatchAfterTakeKept == batch

\* _flush_to_clickhouse copies the batch and clears it before it waits.
BatchAfterTake == <<>>

\* A flush starts, from the loop or because the batch was full.
TakeBatch ==
  /\ isOpen /\ batch # <<>>
  /\ inserting' = inserting \cup {batch}
  /\ batch' = BatchAfterTake
  /\ UNCHANGED <<time, fileVars, connected, rows>>

\* insert_batch ends; an error, or the closed client, loses the rows.
InsertDone(taken, ok) ==
  /\ taken \in inserting
  /\ inserting' = inserting \ {taken}
  /\ rows' = IF ok THEN rows \o taken ELSE rows
  /\ UNCHANGED <<time, fileVars, connected, batch>>

\* The ticks that come: now, or one unit late with a volume.
WarehouseNext ==
  \/ TimePasses \/ OpenWarehouse \/ FlushLoop \/ Flush \/ CloseWarehouse \/ TakeBatch
  \/ \E volume \in {0, 1} : Write(time, volume)
  \/ Write(time - 1, 1)
  \/ \E kept \in 0 .. Len(barLines) : CrashWarehouse(kept)
  \/ \E taken \in inserting, ok \in BOOLEAN : InsertDone(taken, ok)

WarehouseSpec == WarehouseInit /\ [][WarehouseNext]_warehouseVars

-----------------------------------------------------------------------------
(* Properties. *)

\* read: the time of a record is the time before it and its delta, from the
\* header on, in milliseconds.
ReadTime(i) ==
  LET prevTs[k \in 0 .. Len(records)] ==
        IF k = 0 THEN header ELSE prevTs[k - 1] + records[k].delta
  IN  prevTs[i]

\* Every tick that no crash took is read back, in the order written.  Its time
\* is not exact, for the rounded deltas add up: while one writer made the file,
\* the i-th time is at most half a millisecond early for the header and for each
\* delta, and, when the ticks came in order, no more than that late.
TicksReadBack ==
  /\ [i \in DOMAIN (records \o buffered) |-> (records \o buffered)[i].id]
       = [i \in DOMAIN written |-> written[i].id]
  /\ opens <= 1 =>
       /\ \A i \in DOMAIN records : 2 * (written[i].ts - Ms * ReadTime(i)) <= (i + 1) * Ms
       /\ (\A i, j \in DOMAIN records : i <= j => start <= written[i].ts /\ written[i].ts <= written[j].ts)
            => \A i \in DOMAIN records : 2 * (Ms * ReadTime(i) - written[i].ts) <= (i + 1) * Ms

\* After a close the manifest counts the ticks that are read back.
ManifestIsExact == clean => manifest = Len(records) /\ buffered = <<>>

\* Without a crash every tick with a volume counts in exactly one bar, late ticks
\* and those of a bar that close completes too.
BarsCountEveryTrade ==
  ~crashed =>
    running.volume + FoldSeq(LAMBDA b, sum : b.volume + sum, 0, bars \o barLines) = traded

\* Flushes overlap with writes, with one another and with close: no row
\* reaches ClickHouse twice.
RowsOnce ==
  /\ \A i, j \in DOMAIN rows : rows[i] = rows[j] => i = j
  /\ \A b \in inserting : \A i \in DOMAIN b, j \in DOMAIN rows : b[i] # rows[j]

\* Across flushes, closes, crashes and reopenings the files, the bars, the
\* manifest and the ClickHouse copy agree with the ticks written.
WarehouseIsSound == TicksReadBack /\ ManifestIsExact /\ BarsCountEveryTrade /\ RowsOnce

=============================================================================
