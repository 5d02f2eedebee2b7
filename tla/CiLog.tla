-------------------------------- MODULE CiLog --------------------------------
(***************************************************************************)
(* The log of one CI run: the observer that numbers and appends the        *)
(* engine's lines (ci/runtime/observer.rs), the append-only file with its   *)
(* sparse index (ci/store.rs), the paged read of the runtime's logs request *)
(* (ci/runtime.rs) and the two loops of `bosn ci logs` that follow it.      *)
(*                                                                          *)
(* A record is its number, whether the reader's job and step filter selects *)
(* it, and its size; its text is left out.  A file offset is the number of  *)
(* records before it.                                                       *)
(***************************************************************************)
EXTENDS Integers, Sequences, FiniteSets, SequencesExt, FiniteSetsExt

CONSTANTS LogReaders,   \* the invocations of `bosn ci logs`
          MaxRecords,   \* bound: lines the run's engine emits
          MaxLost,      \* bound: appends that fail (the disk is full)
          LogLimit,     \* records of one page (limit)
          LogBytes,     \* size of one page (max_bytes)
          Stride        \* INDEX_STRIDE

LogBounds == /\ MaxRecords \in Nat /\ MaxLost \in Nat
                    /\ LogLimit \in Nat \ {0} /\ LogBytes \in Nat \ {0}
                    /\ Stride \in Nat \ {0}

VARIABLES seqno,        \* RunObserver::seq
          logfile,      \* the records of log.jsonl, in file order
          logindex,     \* RunSlot::index: pairs <<seq, offset>>
          visible,      \* RunRecord::log_records
          logdone,      \* the run's state is Done
          lostlines,    \* LogWriter::lost
          pager         \* the loops of the readers

clVars == <<seqno, logfile, logindex, visible, logdone, lostlines, pager>>

LogRecords == [seq : 1 .. MaxRecords, mine : BOOLEAN, size : 1 .. LogBytes + 1]

LogInit == /\ seqno = 0
           /\ logfile = <<>>
           /\ logindex = {}
           /\ visible = 0
           /\ logdone = FALSE
           /\ lostlines = 0
           /\ pager \in [LogReaders -> [follow : BOOLEAN, since : {0}, got : {<<>>},
                                        state : {"reading"}]]

-----------------------------------------------------------------------------
(* The observer. *)

\* A variant of Indexed that enters the position after the record.
IndexedAfter(rec) ==
  IF rec.seq % Stride = 1 % Stride THEN logindex \cup {<<rec.seq, Len(logfile) + 1>>}
                                   ELSE logindex

\* The sparse index gains the record's offset, for one record in a stride.
Indexed(rec) ==
  IF rec.seq % Stride = 1 % Stride THEN logindex \cup {<<rec.seq, Len(logfile)>>}
                                   ELSE logindex

\* A line or a note takes the next number and is appended.
AppendRecord(mine, size) ==
  /\ ~logdone /\ seqno < MaxRecords
  /\ LET rec == [seq |-> seqno + 1, mine |-> mine, size |-> size]
     IN  /\ logfile' = Append(logfile, rec)
         /\ logindex' = Indexed(rec)
  /\ seqno' = seqno + 1
  /\ UNCHANGED <<visible, logdone, lostlines, pager>>

\* The append fails: the number is spent and the record is missing.
LoseRecord ==
  /\ ~logdone /\ seqno < MaxRecords /\ lostlines < MaxLost
  /\ seqno' = seqno + 1
  /\ lostlines' = lostlines + 1
  /\ UNCHANGED <<logfile, logindex, visible, logdone, pager>>

\* publish: flush the file, then show its records to readers.
PublishLog ==
  /\ ~logdone /\ visible # seqno
  /\ visible' = seqno
  /\ UNCHANGED <<seqno, logfile, logindex, logdone, lostlines, pager>>

\* The run's last publish and its end become visible in one update.
LogEnds ==
  /\ ~logdone
  /\ visible' = seqno
  /\ logdone' = TRUE
  /\ UNCHANGED <<seqno, logfile, logindex, lostlines, pager>>

-----------------------------------------------------------------------------
(* One page. *)

\* The offset to scan from: the last index entry at or before the cursor.
ScanFrom(since) ==
  LET at == {e \in logindex : e[1] <= since + 1}
  IN  IF at = {} THEN 0
      ELSE (CHOOSE e \in at : \A f \in at : f[1] <= e[1])[2]

\* The scanned records the page considers: after the cursor, up to visible.
Scanned(since) ==
  SelectSeq(SubSeq(logfile, ScanFrom(since) + 1, Len(logfile)),
            LAMBDA r : since < r.seq /\ r.seq <= visible)

\* Whether a record that the filter selects still fits the page so far.
Fits(page, rec) ==
  Len(page.recs) < LogLimit /\ page.bytes + rec.size <= LogBytes

\* One turn of read_log's loop: a record too large for an empty page is cut
\* down and ends the page, one too large for the rest of it only ends it.
TakeRecord(page, rec) ==
  IF page.full THEN page
  ELSE IF ~rec.mine THEN [page EXCEPT !.next = rec.seq]
  ELSE IF Fits(page, rec)
       THEN [page EXCEPT !.recs = Append(@, rec.seq), !.bytes = @ + rec.size,
                         !.next = rec.seq]
  ELSE IF page.recs # <<>> THEN [page EXCEPT !.full = TRUE]
  ELSE [page EXCEPT !.full = TRUE, !.recs = <<rec.seq>>, !.next = rec.seq]

ReadLog(since) ==
  FoldLeft(TakeRecord, [recs |-> <<>>, bytes |-> 0, next |-> since, full |-> FALSE],
           Scanned(since))

\* LogsReply::more.
More(page) == page.full \/ page.next < visible

\* A page is read and printed; the loop ends, goes on at once, or sleeps.
FetchPage(r) ==
  /\ pager[r].state = "reading"
  /\ \E page \in {ReadLog(pager[r].since)} :
       pager' = [pager EXCEPT
         ![r].got   = @ \o page.recs,
         ![r].since = page.next,
         ![r].state = IF More(page) THEN "reading"
                      ELSE IF pager[r].follow /\ ~logdone THEN "sleeping"
                      ELSE "ended"]
  /\ UNCHANGED <<seqno, logfile, logindex, visible, logdone, lostlines>>

\* The poll interval passes.
PollAgain(r) ==
  /\ pager[r].state = "sleeping"
  /\ pager' = [pager EXCEPT ![r].state = "reading"]
  /\ UNCHANGED <<seqno, logfile, logindex, visible, logdone, lostlines>>

LogTail(rs) == \E r \in rs : FetchPage(r) \/ PollAgain(r)

LogNext == \/ \E mine \in BOOLEAN, size \in 1 .. LogBytes + 1 : AppendRecord(mine, size)
           \/ LoseRecord \/ PublishLog \/ LogEnds
           \/ LogTail(LogReaders)

LogSpec == /\ LogInit /\ [][LogNext]_clVars
           /\ WF_clVars(LogEnds)
           /\ WF_clVars(LogTail(LogReaders))

-----------------------------------------------------------------------------
(* Properties. *)

LogTypeOK ==
  /\ seqno \in 0 .. MaxRecords /\ visible \in 0 .. seqno /\ lostlines \in 0 .. MaxLost
  /\ logfile \in Seq(LogRecords)
  /\ logdone \in BOOLEAN
  /\ logindex \subseteq (1 .. MaxRecords) \X (0 .. MaxRecords)

\* The numbers of the selected records that are in the file up to n.
Readable(n) ==
  LET mine == SelectSeq(logfile, LAMBDA r : r.mine /\ r.seq <= n)
  IN  [i \in 1 .. Len(mine) |-> mine[i].seq]

\* What a reader has printed is exactly the readable records up to its cursor,
\* each once and in order, whatever pages the caps and the index cut: "Cursor
\* for the next call: the last seq scanned (matching or not)" skips and
\* repeats nothing, and a record larger than a page is still delivered.
PagesAreExact == \A r \in LogReaders : pager[r].got = Readable(pager[r].since)

\* A reader that has ended has printed everything that was visible, and all of
\* a finished run's log when it followed.
EndedSawAll ==
  \A r \in LogReaders : pager[r].state = "ended" /\ pager[r].follow
                        => logdone /\ pager[r].got = Readable(seqno)

CiLogSafe == LogTypeOK /\ PagesAreExact /\ EndedSawAll

\* What holds again and again: `bosn ci logs` ends once the run is over,
\* provided no append was lost.
LogsSettled ==
  logdone /\ lostlines = 0 => \A r \in LogReaders : pager[r].state = "ended"
=============================================================================
