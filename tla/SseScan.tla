------------------------------ MODULE SseScan ------------------------------
(***************************************************************************)
(* The scanner that recovers token usage from a streamed response while    *)
(* its chunks pass through.  Chunk boundaries are the network's choice; a  *)
(* chunk is fed as a whole and scanned line by line.                       *)
(*                                                                         *)
(* Abstractions: the field name data: with its optional space is the two   *)
(* bytes of Field, so that a boundary can still fall inside it; what JSON  *)
(* a payload holds is PayloadKind, with the usage the endpoint's extractor *)
(* finds in it, for which any byte sequence may stand.  A byte that is not *)
(* UTF-8 is x; as text it becomes the replacement character, of three      *)
(* bytes.  (A truncated character of two or three bytes becomes one such   *)
(* character as well, which grows less.)                                   *)
(***************************************************************************)
EXTENDS Integers, Sequences, FiniteSets, FiniteSetsExt, SequencesExt

CONSTANTS
    Streams,        \* response bodies
    MaxEventBytes   \* MAX_EVENT_BYTES

ASSUME CapNat == MaxEventBytes \in Nat
ASSUME StreamsOfBytes == Streams \subseteq Seq({"d", ":", "a", "b", "x", "lf", "cr"})

VARIABLES
    stream,    \* the body
    fed,       \* how many of its bytes have arrived
    rest,      \* what feed() has not yet scanned of the current chunk
    scanner,   \* SseUsageScanner
    finished   \* finish() was called

scanVars == <<stream, fed, rest, scanner, finished>>

Field == <<"d", ":">>

\* flush_event's reading of a payload: a sentinel, JSON with usage, JSON without,
\* or no JSON.
PayloadKind(p) ==
    CASE p = <<"a">> -> "usage_a" [] p = <<"b">> -> "usage_b"
      [] p = <<"d">> -> "json"    [] p = <<"d", ":">> -> "done"
      [] OTHER -> "unparsable"
HasUsage(p) == PayloadKind(p) \in {"usage_a", "usage_b"}

NoOutcome == [usage |-> "none", json |-> 0, unparsable |-> 0, truncated |-> FALSE]
Fresh == [line |-> <<>>, pending |-> <<>>, bytes |-> 0, afterCr |-> FALSE,
          outcome |-> NoOutcome]

ScanInit == /\ stream \in Streams /\ fed = 0 /\ rest = <<>>
            /\ scanner = Fresh /\ finished = FALSE

-----------------------------------------------------------------------------
(* The scanner's own functions, on a scanner s. *)

\* Later usage supersedes earlier; an event without usage erases none.
FlushEvent(s) ==
    LET kind == PayloadKind(s.pending)
        out  == s.outcome
    IN [s EXCEPT !.pending = <<>>,
          !.outcome = IF s.pending = <<>> \/ kind = "done" THEN out
                      ELSE IF kind = "unparsable" THEN [out EXCEPT !.unparsable = @ + 1]
                      ELSE [out EXCEPT !.json = @ + 1,
                                       !.usage = IF HasUsage(s.pending) THEN kind ELSE @]]

\* String::from_utf8_lossy, by characters.
Lossy(data) == [i \in DOMAIN data |-> IF data[i] = "x" THEN "fffd" ELSE data[i]]

\* The bytes a text takes.
Size(text) == Len(text) + 2 * Cardinality({i \in DOMAIN text : text[i] = "fffd"})

DataOf(line) == Lossy(SubSeq(line, Len(Field) + 1, Len(line)))

AbsorbLine(s, line) ==
    IF line = <<>> THEN [FlushEvent(s) EXCEPT !.bytes = 0]
    ELSE IF IsPrefix(Field, line)
    THEN [s EXCEPT !.pending = IF @ = <<>> THEN DataOf(line)
                               ELSE @ \o <<"nl">> \o DataOf(line)]
    ELSE s

Truncate(s) == [Fresh EXCEPT !.outcome = [s.outcome EXCEPT !.usage = "none", !.truncated = TRUE]]

Exceeds(s, n) == s.bytes + n > MaxEventBytes

\* reserve(n), and what follows when the bytes are accepted.
Reserve(s, n) == [s EXCEPT !.bytes = @ + n]

-----------------------------------------------------------------------------
(* feed(): one chunk, one iteration of its loop per step. *)

Terminators == {"lf", "cr"}

\* Mutant: a CR at the end of a chunk is forgotten.
FeedForgetsCr(n) ==
    /\ ~finished /\ rest = <<>> /\ fed + n <= Len(stream)
    /\ fed' = fed + n
    /\ rest' = IF scanner.outcome.truncated THEN <<>> ELSE SubSeq(stream, fed + 1, fed + n)
    /\ scanner' = [scanner EXCEPT !.afterCr = FALSE]
    /\ UNCHANGED <<stream, finished>>

Feed(n) ==
    /\ ~finished /\ rest = <<>> /\ fed + n <= Len(stream)
    /\ fed' = fed + n
    /\ rest' = IF scanner.outcome.truncated THEN <<>> ELSE SubSeq(stream, fed + 1, fed + n)
    /\ UNCHANGED <<stream, scanner, finished>>

\* The LF of a CRLF is skipped, also at the head of a chunk.
AfterCr ==
    /\ rest # <<>> /\ scanner.afterCr
    /\ scanner' = [scanner EXCEPT !.afterCr = FALSE]
    /\ rest' = IF Head(rest) = "lf" THEN Tail(rest) ELSE rest
    /\ UNCHANGED <<stream, fed, finished>>

Scanning == rest # <<>> /\ ~scanner.afterCr
Breaks == {i \in DOMAIN rest : rest[i] \in Terminators}

\* Mutant: the tail is held before it is paid for.
HoldTailUnpaid ==
    /\ Scanning /\ Breaks = {}
    /\ scanner' = [scanner EXCEPT !.line = @ \o rest]
    /\ rest' = <<>>
    /\ UNCHANGED <<stream, fed, finished>>

\* No terminator: the rest of the chunk is the start of a line.
HoldTail ==
    /\ Scanning /\ Breaks = {}
    /\ scanner' = IF Exceeds(scanner, Len(rest)) THEN Truncate(scanner)
                  ELSE [Reserve(scanner, Len(rest)) EXCEPT !.line = @ \o rest]
    /\ rest' = <<>>
    /\ UNCHANGED <<stream, fed, finished>>

TakeLine ==
    LET idx == Min(Breaks)
        line == scanner.line \o SubSeq(rest, 1, idx - 1)
        paid == [Reserve(scanner, idx) EXCEPT !.line = <<>>, !.afterCr = rest[idx] = "cr"]
    IN /\ Scanning /\ Breaks # {}
       /\ IF Exceeds(scanner, idx)
          THEN scanner' = Truncate(scanner) /\ rest' = <<>>
          ELSE scanner' = AbsorbLine(paid, line) /\ rest' = SubSeq(rest, idx + 1, Len(rest))
       /\ UNCHANGED <<stream, fed, finished>>

\* The body ends, or the client left: an open line and an open event still count.
Finish ==
    LET last == IF scanner.line = <<>> THEN scanner
                ELSE AbsorbLine([scanner EXCEPT !.line = <<>>], scanner.line)
        seen == IF scanner.outcome.truncated THEN scanner ELSE FlushEvent(last)
    IN /\ ~finished /\ rest = <<>> /\ finished' = TRUE
       /\ scanner' = [Fresh EXCEPT !.outcome = seen.outcome]
       /\ UNCHANGED <<stream, fed, rest>>

ScanNext == \/ \E n \in 1..Len(stream) : Feed(n)
            \/ AfterCr \/ HoldTail \/ TakeLine \/ Finish

ScanSpec == ScanInit /\ [][ScanNext]_scanVars

-----------------------------------------------------------------------------
(* The reference: what the first n bytes of a body say, read as a whole. *)

\* The LF of a CRLF ends no line and costs nothing.
Skipped(s, i) == i > 1 /\ s[i] = "lf" /\ s[i - 1] = "cr"
LineEnds(s) == {i \in DOMAIN s : s[i] \in Terminators /\ ~Skipped(s, i)}

\* The line up to position i.
LineAt(s, i) ==
    SubSeq(s, Max({0} \cup {j \in DOMAIN s : j < i /\ s[j] \in Terminators}) + 1, i - 1)

\* Events end at blank lines, and where the body does.
BlankLines(s) == {i \in LineEnds(s) : LineAt(s, i) = <<>>}
Previous(s, e) == Max({0} \cup {i \in BlankLines(s) : i < e})
SizeUpTo(s, e, n) == Cardinality({i \in 1..n : Previous(s, e) < i /\ i <= e /\ ~Skipped(s, i)})

\* The data of the lines of an event, one after the other.
Joined(p, line) ==
    IF ~IsPrefix(Field, line) THEN p
    ELSE IF p = <<>> THEN DataOf(line) ELSE p \o <<"nl">> \o DataOf(line)

DataUpTo(s, start, k) ==
    LET upto[i \in 0..k] == IF i <= start THEN <<>>
                           ELSE IF i \in LineEnds(s) THEN Joined(upto[i - 1], LineAt(s, i))
                           ELSE upto[i - 1]
    IN upto[k]

PayloadOf(s, e) == Joined(DataUpTo(s, Previous(s, e), e - 1), LineAt(s, e))

Reading(s, n) ==
    LET ends == {e \in BlankLines(s) : e <= n} \cup {n + 1}
        over == {e \in ends : SizeUpTo(s, e, n) > MaxEventBytes}
        kept == {e \in ends : \A o \in over : e < o}
        with(kinds) == {e \in kept : /\ PayloadOf(s, e) # <<>>
                                     /\ PayloadKind(PayloadOf(s, e)) \in kinds}
        counted == with({"usage_a", "usage_b"})
    IN [usage      |-> IF over # {} \/ counted = {} THEN "none"
                       ELSE PayloadKind(PayloadOf(s, Max(counted))),
        json       |-> Cardinality(with({"usage_a", "usage_b", "json"})),
        unparsable |-> Cardinality(with({"unparsable"})),
        truncated  |-> over # {}]

\* However the body is cut into chunks, and wherever it ends, the outcome is the
\* one its bytes have read as a whole (feed, finish).
ChunkingIrrelevant ==
    finished => scanner.outcome = Reading(stream, fed)

\* What is held of an unfinished event, whatever the upstream sends, is never more
\* than its bytes up to the cap come to as text; a byte of the open line counts as
\* the three it may become.  The cap is on what is received, so what is held stays
\* within three times of it, not within it (reserve before every buffer, absorb_line).
BufferBounded ==
    3 * Len(scanner.line) + Size(scanner.pending) <= 3 * MaxEventBytes
=============================================================================
