------------------------------- MODULE RunLog -------------------------------
(***************************************************************************)
(* The durable output of one job (raw_run_log.rs) and its readers over     *)
(* HTTP (run_http.rs, run_sse.rs): the job's forwarder appends each chunk  *)
(* to its channel's byte file and then a line to the index, and clients    *)
(* page through or follow the index while it grows.  Writes may fail half  *)
(* way, the daemon may die between any two of them, and clients lose their *)
(* connection and resume at the last sequence they saw.                    *)
(***************************************************************************)
EXTENDS Integers, Sequences, SequencesExt

CONSTANTS
  Clients,       \* readers of the run
  MaxChunks,     \* bound: chunks the task writes
  PageLimit,     \* chunks per page (256 in the code)
  MaxFaults      \* bound: failed writes, deaths of the daemon, lost connections

RunLogAssumption == MaxChunks \in Nat /\ PageLimit \in Nat \ {0} /\ MaxFaults \in Nat

Channels == {"stdout", "stderr"}
Both == "stdout,stderr"
GapRetries == 4

VARIABLES
  produced,   \* the channel of each chunk the host read, in order
  bytes,      \* [Channels -> the chunks in that file, by their place in produced]
  index,      \* the complete lines of index.jsonl
  torn,       \* the line without a newline: "none", "part" or, after another, "spoiled"
  endFile,    \* end.json: [seq, state], seq 0 when there is none
  run,        \* the directory: "none", "files" or "listed"
  job,        \* the daemon's RawRunLog and the append under way
  readers,    \* [Clients -> a connection]
  faults

logVars == <<produced, bytes, index, torn, endFile, run, job, readers, faults>>

NoEnd == [seq |-> 0, state |-> "running"]
NewJob == [at |-> "idle", next |-> 1, len |-> [c \in Channels |-> 0], channel |-> "stdout", failed |-> FALSE]
NewReader == [at |-> "away", kind |-> "sse", streams |-> Both, from |-> 0, cursor |-> 0, place |-> 0,
              pending |-> <<>>, page |-> <<>>, retries |-> 0, got |-> <<>>, last |-> "none"]

RunLogInit ==
  /\ produced = <<>> /\ bytes = [c \in Channels |-> <<>>] /\ index = <<>> /\ torn = "none"
  /\ endFile = NoEnd /\ run = "none" /\ faults = 0
  /\ job = [NewJob EXCEPT !.at = "create"]
  /\ readers = [c \in Clients |-> NewReader]

-----------------------------------------------------------------------------
(* The writer: one forwarder per job, behind the sink's mutex.             *)

Writer(j) == job' = j /\ UNCHANGED <<readers, faults>>

CreateRun ==
  /\ job.at = "create" /\ run = "none"
  /\ run' = "files"
  /\ Writer(job)
  /\ UNCHANGED <<produced, bytes, index, torn, endFile>>

WriteMetadata ==
  /\ job.at = "create" /\ run = "files"
  /\ run' = "listed"
  /\ Writer([job EXCEPT !.at = "open"])
  /\ UNCHANGED <<produced, bytes, index, torn, endFile>>

\* The host reads a chunk from one of the task's pipes.
TaskWrites(c) ==
  /\ job.at = "open" /\ ~job.failed /\ Len(produced) < MaxChunks
  /\ produced' = Append(produced, c)
  /\ Writer([job EXCEPT !.at = "data", !.channel = c])
  /\ UNCHANGED <<bytes, index, torn, endFile, run>>

\* The bytes first, so that no index line names bytes that are not there.
AppendData ==
  /\ job.at = "data"
  /\ bytes' = [bytes EXCEPT ![job.channel] = Append(@, Len(produced))]
  /\ Writer([job EXCEPT !.at = "line"])
  /\ UNCHANGED <<produced, index, torn, endFile, run>>

AppendLine ==
  /\ job.at = "line"
  /\ torn' = IF torn = "none" THEN "part" ELSE "spoiled"
  /\ Writer([job EXCEPT !.at = "newline"])
  /\ UNCHANGED <<produced, bytes, index, endFile, run>>

ChunkIndex == [seq |-> job.next, stream |-> job.channel, offset |-> job.len[job.channel],
               whole |-> torn = "part"]

AppendNewline ==
  /\ job.at = "newline"
  /\ torn' = "none"
  /\ index' = Append(index, ChunkIndex)
  /\ Writer([job EXCEPT !.at = "open", !.next = @ + 1, !.len[job.channel] = @ + 1])
  /\ UNCHANGED <<produced, bytes, endFile, run>>

\* A failed append ends the forwarder: what is half written stays so.
AppendFails ==
  /\ job.at \in {"data", "line", "newline"} /\ faults < MaxFaults
  /\ faults' = faults + 1
  /\ job' = [job EXCEPT !.at = "open", !.failed = TRUE]
  /\ UNCHANGED <<produced, bytes, index, torn, endFile, run, readers>>

\* end.json replaces whole; a failure to write it is only logged.
FinishRun(state) ==
  /\ job.at = "open" /\ (job.failed => state # "success")
  /\ endFile' = [seq |-> job.next, state |-> state]
  /\ Writer([job EXCEPT !.at = "finished"])
  /\ UNCHANGED <<produced, bytes, index, torn, run>>

FinishFails ==
  /\ job.at = "open" /\ faults < MaxFaults
  /\ faults' = faults + 1
  /\ job' = [job EXCEPT !.at = "finished"]
  /\ UNCHANGED <<produced, bytes, index, torn, endFile, run, readers>>

-----------------------------------------------------------------------------
(* Death and restart.                                                      *)

DaemonDies ==
  /\ job.at # "dead" /\ faults < MaxFaults
  /\ faults' = faults + 1
  /\ job' = [NewJob EXCEPT !.at = "dead"]
  /\ readers' = [c \in Clients |-> [readers[c] EXCEPT !.at = "away", !.pending = <<>>, !.page = <<>>]]
  /\ UNCHANGED <<produced, bytes, index, torn, endFile, run>>

\* A directory with its run.json; the others are passed over.
Listed == run = "listed"

\* The last complete line's; a line that is not whole would end the start here.
LastSeq == Len(index)

\* Before the listener starts: every listed run without an end was cut short.
MarkInterrupted ==
  /\ job.at = "dead"
  /\ endFile' = IF Listed /\ endFile.seq = 0
                THEN [seq |-> LastSeq + 1, state |-> "interrupted"] ELSE endFile
  /\ Writer([job EXCEPT !.at = "finished"])
  /\ UNCHANGED <<produced, bytes, index, torn, run>>

-----------------------------------------------------------------------------
(* Readers.                                                                *)

Reader(c, r) ==
  /\ readers' = [readers EXCEPT ![c] = r]
  /\ UNCHANGED <<produced, bytes, index, torn, endFile, run, job, faults>>

\* A request resumes at the greater of from_seq and Last-Event-ID.  A page
\* always scans the index from its start.
Connect(c, kind, streams) ==
  /\ readers[c].at = "away" /\ readers[c].last # "end" /\ Listed /\ job.at # "dead"
  /\ readers[c].cursor = 0 \/ (readers[c].kind = kind /\ readers[c].streams = streams)
  /\ kind = "bytes" => streams # Both
  /\ Reader(c, [readers[c] EXCEPT !.at = IF kind = "bytes" THEN "bytes" ELSE "index", !.kind = kind, !.streams = streams, !.place = 0, !.retries = 0])

Least(a, b) == IF a < b THEN a ELSE b

\* read_since_indexed: whole lines after the place, chunks after the cursor.
ReadPage(r) ==
  LET new == SelectSeq(SubSeq(index, r.place + 1, Len(index)), LAMBDA e : e.seq > r.cursor)
  IN  SubSeq(new, 1, Least(Len(new), PageLimit))

\* The bytes a line names.
Chunk(e) == bytes[e.stream][e.offset + 1]

ReadIndex(c) ==
  /\ readers[c].at = "index"
  /\ \E page \in {ReadPage(readers[c])} :
       Reader(c, [readers[c] EXCEPT !.at = "end", !.page = page,
                    !.place = IF Len(page) = 0 THEN Len(index) ELSE Last(page).seq])

Selected(r, e) == r.streams = Both \/ r.streams = e.stream

Received(r, page) ==
  LET chosen == SelectSeq(page, LAMBDA e : Selected(r, e))
  IN  r.got \o [i \in 1..Len(chosen) |-> [seq |-> chosen[i].seq, chunk |-> Chunk(chosen[i])]]

\* A page request answers with what it read and the cursor for the next.
AnswerPage(c) ==
  LET r == readers[c] IN
  /\ r.at = "end" /\ r.kind = "page"
  /\ Reader(c, [r EXCEPT !.at = "away", !.got = Received(r, r.page), !.page = <<>>,
                  !.cursor = IF r.page = <<>> THEN @ ELSE Last(r.page).seq])

\* A range of one channel's file: up to the size it had when it was opened.
RawPage(c) ==
  LET r == readers[c] IN
  /\ r.at = "bytes" /\ r.cursor < Len(bytes[r.streams])
  /\ \E page \in {SubSeq(bytes[r.streams], r.cursor + 1, Least(r.cursor + PageLimit, Len(bytes[r.streams])))} :
       Reader(c, [r EXCEPT !.at = "away", !.got = @ \o page, !.cursor = @ + Len(page)])

RawPageEmpty(c) ==
  /\ readers[c].at = "bytes" /\ readers[c].cursor = Len(bytes[readers[c].streams])
  /\ Reader(c, [readers[c] EXCEPT !.at = "away"])

\* The end is read after the index, in the same turn.
TailReads(c) ==
  LET r == readers[c] IN
  /\ r.at = "end" /\ r.kind = "sse" /\ r.page # <<>>
  /\ Reader(c, [r EXCEPT !.at = "send", !.pending = r.page, !.page = <<>>, !.retries = 0])

TailSends(c) ==
  LET r == readers[c] IN
  /\ r.at = "send"
  /\ IF r.pending = <<>>
     THEN Reader(c, [r EXCEPT !.at = "index"])
     ELSE Reader(c, [r EXCEPT !.got = Received(r, <<Head(r.pending)>>),
                              !.pending = Tail(@), !.cursor = Head(r.pending).seq])

\* The end comes right after the cursor, or the index is read again.
TailEnds(c) ==
  LET r == readers[c] IN
  /\ r.at = "end" /\ r.kind = "sse" /\ r.page = <<>>
  /\ \/ endFile.seq = 0 /\ Reader(c, [r EXCEPT !.at = "index"])
     \/ endFile.seq \in 1..r.cursor /\ Reader(c, [r EXCEPT !.at = "away", !.last = "closed"])
     \/ endFile.seq = r.cursor + 1 /\ Reader(c, [r EXCEPT !.at = "away", !.last = "end"])
     \/ endFile.seq > r.cursor + 1 /\ r.retries + 1 < GapRetries
        /\ Reader(c, [r EXCEPT !.at = "index", !.retries = @ + 1])
     \/ endFile.seq > r.cursor + 1 /\ r.retries + 1 >= GapRetries
        /\ Reader(c, [r EXCEPT !.at = "away", !.last = "gap"])

\* A client goes, or its stream reaches its hour.
Disconnect(c) ==
  /\ readers[c].at # "away" /\ faults < MaxFaults
  /\ faults' = faults + 1
  /\ readers' = [readers EXCEPT ![c] = [@ EXCEPT !.at = "away", !.pending = <<>>, !.page = <<>>]]
  /\ UNCHANGED <<produced, bytes, index, torn, endFile, run, job>>

-----------------------------------------------------------------------------
WriterStep ==
  \/ CreateRun \/ WriteMetadata \/ (\E c \in Channels : TaskWrites(c))
  \/ AppendData \/ AppendLine \/ AppendNewline
  \/ (\E s \in {"success", "failure", "cancelled"} : FinishRun(s)) \/ MarkInterrupted

ReaderStep(c) == ReadIndex(c) \/ RawPage(c) \/ RawPageEmpty(c) \/ AnswerPage(c) \/ TailReads(c) \/ TailSends(c) \/ TailEnds(c)

Connects(c) == \E kind \in {"sse", "page", "bytes"}, s \in Channels \cup {Both} : Connect(c, kind, s)

RunLogNext ==
  \/ WriterStep \/ AppendFails \/ FinishFails \/ DaemonDies
  \/ \E c \in Clients : ReaderStep(c) \/ Connects(c) \/ Disconnect(c)

RunLogFair ==
  /\ WF_logVars(WriterStep)
  /\ \A c \in Clients : WF_logVars(ReaderStep(c))

RunLogSpec == RunLogInit /\ [][RunLogNext]_logVars /\ RunLogFair

-----------------------------------------------------------------------------
(* Properties.                                                             *)

\* Whatever the interruptions, a client holds every chunk of its channels up
\* to its cursor, once, in the order the host read them, and with the bytes
\* the task wrote (append's order, read_since_indexed, Last-Event-ID).
ReplayIsExact ==
  \A c \in Clients :
    readers[c].got =
      IF readers[c].kind = "bytes" THEN SubSeq(bytes[readers[c].streams], 1, readers[c].cursor)
      ELSE SelectSeq([n \in 1..readers[c].cursor |-> [seq |-> n, chunk |-> n]],
                     LAMBDA e : Selected(readers[c], [stream |-> produced[e.seq]]))

\* The terminal event of a stream comes after every committed chunk, and
\* never while the index can still grow (run_sse.rs, write_end_at_seq).
EndIsLast ==
  \A c \in Clients : readers[c].last = "end" => readers[c].cursor = Len(index) /\ job.at \in {"finished", "dead"}

\* No stream ends on a gap or is closed without its terminal event.
NoStreamGap == \A c \in Clients : readers[c].last \notin {"gap", "closed"}

\* A restarted daemon can read every index it finds: only the last line may
\* be cut, so marking a run interrupted never fails (last_seq).
IndexIsReadable == \A i \in 1..Len(index) : index[i].whole /\ index[i].seq = i

RunLogSafe == ReplayIsExact /\ EndIsLast /\ NoStreamGap /\ IndexIsReadable

\* What holds again and again: a client that stays connected to a run whose
\* end is recorded gets it and leaves.
StreamsSettled ==
  \A c \in Clients : readers[c].kind = "sse" /\ endFile.seq # 0 => readers[c].at = "away"
=============================================================================
