------------------------------ MODULE OutputText ------------------------------
(***************************************************************************)
(* What a task's output goes through before anyone reads it: the streaming   *)
(* mask over the values of its secrets (secrets.rs), the splitting of a CI    *)
(* run's output into bounded lines (ci/engine/lines.rs), and the secret files *)
(* themselves.  The three do not meet in the code at this level, so a         *)
(* behaviour exercises one of them, its subject.                              *)
(*                                                                           *)
(* A text is a sequence of symbols; Mask and NewLine are symbols of their     *)
(* own.  Chunks arrive cut anywhere: that is the whole difficulty.            *)
(***************************************************************************)
EXTENDS Integers, Sequences, SequencesExt

CONSTANTS Letters,        \* the symbols texts are made of
          SecretValues,   \* the values masked: a sequence, in the order given
          MaxText,        \* bound: symbols in both streams together
          MaxChunk,       \* bound: symbols in one chunk
          MaxLine,        \* MAX_LINE
          SecretWriters,  \* processes that set the secret, by pid
          NoSecret

TextAssumption ==
  /\ MaxText \in Nat /\ MaxChunk \in Nat \ {0} /\ MaxLine \in Nat \ {0}
  /\ \A i \in 1..Len(SecretValues) : SecretValues[i] \in Seq(Letters)

VARIABLES subject,   \* what this behaviour exercises
          given,     \* the symbols each stream was given so far
          held,      \* SecretMasker::pending, or LineBuffer::pending under stdout
          shown,     \* what was emitted of each stream
          over,      \* streams that are finished
          skipping,  \* LineBuffer::discarding
          secretFile, setting   \* the secret on disk, and the writes under way

textVars == <<subject, given, held, shown, over, skipping, secretFile, setting>>

Streams == {"stdout", "stderr"}
Mask == "***"
NewLine == "\n"

\* new: empty values are dropped, longer ones come first.
Ordered ==
  LET words == SelectSeq(SecretValues, LAMBDA v : v # <<>>)
  IN  SortSeq(words, LAMBDA v, u : Len(v) > Len(u))

TextInit ==
  /\ subject \in {"mask", "lines", "file"}
  /\ given = [s \in Streams |-> <<>>] /\ held = [s \in Streams |-> <<>>]
  /\ shown = [s \in Streams |-> <<>>] /\ over = {}
  /\ skipping = FALSE
  /\ secretFile = NoSecret
  /\ setting = [w \in SecretWriters |-> "no"]

Chunks(symbols) == UNION {[1..n -> symbols] : n \in 1..MaxChunk}
RoomFor(chunk) == Len(given["stdout"]) + Len(given["stderr"]) + Len(chunk) <= MaxText
From(text, i) == SubSeq(text, i, Len(text))

-----------------------------------------------------------------------------
(* SecretMasker. *)

\* The first secret, longest first, that the text starts with; 0 if none.
StartsWithSecret(text) ==
  LET hits == {i \in 1..Len(Ordered) : IsPrefix(Ordered[i], text)}
  IN  IF hits = {} THEN 0 ELSE CHOOSE i \in hits : \A j \in hits : i <= j

\* A variant of MayBecomeSecret that holds back nothing.
HoldNothing(text) == FALSE

\* The text is a proper prefix of some secret.
MayBecomeSecret(text) ==
  \E i \in 1..Len(Ordered) : Len(text) < Len(Ordered[i]) /\ IsPrefix(text, Ordered[i])

\* scan: what can be emitted of the text, and what must wait for more.
RECURSIVE Scan(_, _)
Scan(text, atEnd) ==
  IF text = <<>> THEN [out |-> <<>>, rest |-> <<>>]
  ELSE LET hit == StartsWithSecret(text)
       IN  IF hit # 0
           THEN LET more == Scan(From(text, Len(Ordered[hit]) + 1), atEnd)
                IN  [more EXCEPT !.out = <<Mask>> \o @]
           ELSE IF ~atEnd /\ MayBecomeSecret(text) THEN [out |-> <<>>, rest |-> text]
           ELSE LET more == Scan(Tail(text), atEnd)
                IN  [more EXCEPT !.out = <<Head(text)>> \o @]

\* push, one chunk of one stream.
MaskPush(s, chunk) ==
  /\ subject = "mask" /\ s \notin over /\ RoomFor(chunk)
  /\ \E scan \in {Scan(held[s] \o chunk, FALSE)} :
       /\ shown' = [shown EXCEPT ![s] = @ \o scan.out]
       /\ held' = [held EXCEPT ![s] = scan.rest]
  /\ given' = [given EXCEPT ![s] = @ \o chunk]
  /\ UNCHANGED <<subject, over, skipping, secretFile, setting>>

\* finish flushes what a stream still holds.
MaskFinish(s) ==
  /\ subject = "mask" /\ s \notin over
  /\ shown' = [shown EXCEPT ![s] = @ \o Scan(held[s], TRUE).out]
  /\ held' = [held EXCEPT ![s] = <<>>]
  /\ over' = over \cup {s}
  /\ UNCHANGED <<subject, given, skipping, secretFile, setting>>

\* mask_text, the reference: the same values over the complete text.
MaskText(text) == Scan(text, TRUE).out

-----------------------------------------------------------------------------
(* LineBuffer: the lines come out in shown, each a line and whether it is cut. *)

LineEnd(text) ==
  LET ends == {i \in 1..Len(text) : text[i] = NewLine}
  IN  IF ends = {} THEN 0 ELSE CHOOSE i \in ends : \A j \in ends : i <= j

WholeLine(text) == [text |-> text, cut |-> FALSE]

\* A line that outgrows MAX_LINE before its end is cut, and the rest of it dropped.
CutLine(text) ==
  [lines |-> <<[text |-> SubSeq(text, 1, MaxLine), cut |-> TRUE]>>, rest |-> <<>>, skip |-> TRUE]

\* drain_lines: the complete lines, then the cut of an over-long unfinished one.
RECURSIVE DrainLines(_, _)
DrainLines(text, skip) ==
  LET end == LineEnd(text)
  IN  IF end # 0
      THEN LET more == DrainLines(From(text, end + 1), FALSE)
           IN  IF skip THEN more
               ELSE [more EXCEPT !.lines = <<WholeLine(SubSeq(text, 1, end - 1))>> \o @]
      ELSE IF skip THEN [lines |-> <<>>, rest |-> <<>>, skip |-> TRUE]
      ELSE IF Len(text) > MaxLine THEN CutLine(text)
      ELSE [lines |-> <<>>, rest |-> text, skip |-> FALSE]

LinePush(chunk) ==
  /\ subject = "lines" /\ "stdout" \notin over /\ RoomFor(chunk)
  /\ \E drained \in {DrainLines(held["stdout"] \o chunk, skipping)} :
       /\ shown' = [shown EXCEPT !["stdout"] = @ \o drained.lines]
       /\ held' = [held EXCEPT !["stdout"] = drained.rest]
       /\ skipping' = drained.skip
  /\ given' = [given EXCEPT !["stdout"] = @ \o chunk]
  /\ UNCHANGED <<subject, over, secretFile, setting>>

\* finish: an unfinished last line counts, unless it is the rest of a cut one.
LineFinish ==
  /\ subject = "lines" /\ "stdout" \notin over
  /\ shown' = IF ~skipping /\ held["stdout"] # <<>>
              THEN [shown EXCEPT !["stdout"] = Append(@, WholeLine(held["stdout"]))] ELSE shown
  /\ held' = [held EXCEPT !["stdout"] = <<>>]
  /\ over' = over \cup {"stdout"}
  /\ UNCHANGED <<subject, given, skipping, secretFile, setting>>

\* The reference: the lines of the text given.
RECURSIVE LinesOf(_)
LinesOf(text) ==
  LET end == LineEnd(text)
  IN  IF end # 0 THEN <<SubSeq(text, 1, end - 1)>> \o LinesOf(From(text, end + 1))
      ELSE IF text = <<>> THEN <<>> ELSE <<text>>

-----------------------------------------------------------------------------
(* The secret file. A writer w writes the value w; "torn" stands for a file *)
(* whose value is not all there.                                             *)

\* write_secret: an own staging file replaces what a dead writer left, ...
StageSecret(w) ==
  /\ subject = "file" /\ setting[w] = "no"
  /\ setting' = [setting EXCEPT ![w] = "staged"]
  /\ UNCHANGED <<subject, given, held, shown, over, skipping, secretFile>>

\* ... it is filled and synced ...
FillSecret(w) ==
  /\ setting[w] = "staged"
  /\ setting' = [setting EXCEPT ![w] = "filled"]
  /\ UNCHANGED <<subject, given, held, shown, over, skipping, secretFile>>

\* ... and renamed over the secret.
PlaceSecret(w) ==
  /\ setting[w] = "filled"
  /\ secretFile' = w
  /\ setting' = [setting EXCEPT ![w] = "done"]
  /\ UNCHANGED <<subject, given, held, shown, over, skipping>>

\* A write fails, and takes its staging file away, or its process dies.
SettingFails(w) ==
  /\ setting[w] \in {"staged", "filled"}
  /\ setting' = [setting EXCEPT ![w] = "no"]
  /\ UNCHANGED <<subject, given, held, shown, over, skipping, secretFile>>

RemoveSecret ==
  /\ subject = "file" /\ secretFile # NoSecret
  /\ secretFile' = NoSecret
  /\ UNCHANGED <<subject, given, held, shown, over, skipping, setting>>

\* read_secret: the value, once it passes validate_value.
ReadSecret == secretFile

-----------------------------------------------------------------------------
TextNext ==
  \/ \E s \in Streams, chunk \in Chunks(Letters) : MaskPush(s, chunk)
  \/ \E s \in Streams : MaskFinish(s)
  \/ \E chunk \in Chunks(Letters \cup {NewLine}) : LinePush(chunk)
  \/ LineFinish
  \/ \E w \in SecretWriters : StageSecret(w) \/ FillSecret(w) \/ PlaceSecret(w) \/ SettingFails(w)
  \/ RemoveSecret

TextSpec == TextInit /\ [][TextNext]_textVars

-----------------------------------------------------------------------------
TextTypeOK ==
  /\ subject \in {"mask", "lines", "file"} /\ over \subseteq Streams /\ skipping \in BOOLEAN
  /\ setting \in [SecretWriters -> {"no", "staged", "filled", "done"}]

\* However a stream is cut into chunks, and whatever the other stream does, what
\* was emitted and what is held is the masked text: nothing is joined across
\* streams, nothing is lost, and no value gets out because a chunk ended in it.
MaskIgnoresChunks ==
  subject = "mask" =>
    \A s \in Streams : shown[s] \o MaskText(held[s]) = MaskText(given[s])

\* No emitted text holds a secret's value.
NoValueShown ==
  subject = "mask" =>
    \A s \in Streams, i \in 1..Len(Ordered), k \in 1..MaxText :
      ~IsPrefix(Ordered[i], From(shown[s], k))

\* However the output is cut into chunks, the n-th line out is the n-th line in,
\* whole, or cut to MAX_LINE when it is longer: the rest of a cut line is never
\* taken for a line of its own.
LinesStayLines ==
  (subject = "lines" /\ "stdout" \in over) =>
    LET in == LinesOf(given["stdout"])
        out == shown["stdout"]
    IN  /\ Len(out) = Len(in)
        /\ \A n \in 1..Len(in) :
             IF out[n].cut
             THEN Len(in[n]) > MaxLine /\ out[n].text = SubSeq(in[n], 1, MaxLine)
             ELSE out[n].text = in[n]

\* Whoever writes, fails or dies, a reader finds a whole value or none.
SecretReadWhole == ReadSecret \in {NoSecret} \cup {w \in SecretWriters : setting[w] = "done"}

\* The safety of the output path.
OutputTextSafe ==
  TextTypeOK /\ MaskIgnoresChunks /\ NoValueShown /\ LinesStayLines /\ SecretReadWhole
=============================================================================
