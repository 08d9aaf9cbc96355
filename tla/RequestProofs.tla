--------------------------- MODULE RequestProofs ---------------------------
(***************************************************************************)
(* What a request meets on its way, and what the dashboard later shows of  *)
(* it: the scanner of a streamed response, the live configuration, the     *)
(* keys and the walk through the list of requests.  They share no          *)
(* variable; each has an invariant of its own, proved for every stream and *)
(* every way of cutting it, every file an operator may save, every query,  *)
(* and any number of keys, consumers, processes, records and concurrent    *)
(* mutations.                                                              *)
(***************************************************************************)
EXTENDS SseScan, RequestList, LiveConfig, ApiKeys, SetFacts, SequenceTheorems

-----------------------------------------------------------------------------
(* SseScan: every byte of the open line and every character of the pending text *)
(* has been paid for out of the cap, by a byte received.                        *)

Bytes == {"d", ":", "a", "b", "x", "lf", "cr"}
Text == Bytes \cup {"nl", "fffd"}

OutcomeType == [usage : {"none", "usage_a", "usage_b"}, json : Nat, unparsable : Nat,
                truncated : BOOLEAN]
ScannerType == [line : Seq(Bytes), pending : Seq(Text), bytes : Nat,
                afterCr : BOOLEAN, outcome : OutcomeType]

ScanShapes ==
    /\ stream \in Seq(Bytes) /\ rest \in Seq(Bytes) /\ fed \in Nat
    /\ scanner \in ScannerType

Paid ==
    /\ Len(scanner.line) + Len(scanner.pending) <= scanner.bytes
    /\ scanner.bytes <= MaxEventBytes

ScanInv == ScanShapes /\ Paid

\* A part of a sequence.
LEMMA Slice ==
    ASSUME NEW S, NEW s \in Seq(S), NEW m \in 1..(Len(s) + 1), NEW n \in (m - 1)..Len(s)
    PROVE  SubSeq(s, m, n) \in Seq(S) /\ Len(SubSeq(s, m, n)) = n - m + 1
<1>1. Len(s) \in Nat /\ m \in Int /\ n \in Int /\ \A i \in m..n : s[i] \in S
  OBVIOUS
<1> DEFINE t == SubSeq(s, m, n)
<1>2. t \in Seq(S) /\ Len(t) = IF m <= n THEN n - m + 1 ELSE 0
  BY <1>1, SubSeqProperties
<1> HIDE DEF t
<1>3. Len(t) = n - m + 1
  <2>1. CASE m <= n
    BY <1>1, <1>2, <2>1
  <2>2. CASE ~(m <= n)
    <3>1. n - m + 1 = 0
      BY <1>1, <2>2
    <3> QED
      BY <1>2, <2>2, <3>1
  <2> QED
    BY <2>1, <2>2
<1> QED
  BY <1>2, <1>3 DEF t

LEMMA FreshFacts ==
    /\ Fresh \in ScannerType /\ Fresh.line = <<>> /\ Fresh.pending = <<>> /\ Fresh.bytes = 0
    /\ Fresh.outcome = NoOutcome
<1>1. <<>> \in Seq(Bytes) /\ <<>> \in Seq(Text)
  OBVIOUS
<1> QED
  BY <1>1 DEF Fresh, NoOutcome, ScannerType, OutcomeType

LEMMA CountedOutcome ==
    ASSUME NEW o \in OutcomeType, NEW j \in Nat, NEW k \in {"none", "usage_a", "usage_b"}
    PROVE  [o EXCEPT !.json = j, !.usage = k] \in OutcomeType
BY DEF OutcomeType

LEMMA FlushRecord ==
    ASSUME NEW s \in ScannerType, NEW o \in OutcomeType
    PROVE  LET r == [s EXCEPT !.pending = <<>>, !.outcome = o]
           IN r \in ScannerType /\ r.line = s.line /\ r.pending = <<>> /\ r.bytes = s.bytes
<1>1. <<>> \in Seq(Text)
  OBVIOUS
<1> QED
  BY <1>1 DEF ScannerType

\* An event that ends is no longer held.
LEMMA FlushFacts ==
    ASSUME NEW s \in ScannerType
    PROVE  /\ FlushEvent(s) \in ScannerType /\ FlushEvent(s).line = s.line
           /\ FlushEvent(s).pending = <<>> /\ FlushEvent(s).bytes = s.bytes
<1> DEFINE kind == PayloadKind(s.pending)
           out == s.outcome
           next == IF s.pending = <<>> \/ kind = "done" THEN out
                   ELSE IF kind = "unparsable" THEN [out EXCEPT !.unparsable = @ + 1]
                   ELSE [out EXCEPT !.json = @ + 1,
                                    !.usage = IF HasUsage(s.pending) THEN kind ELSE @]
<1>1. out \in OutcomeType
  BY DEF ScannerType
<1>2. HasUsage(s.pending) => kind \in {"usage_a", "usage_b"}
  BY DEF HasUsage
<1> HIDE DEF kind, out
<1>3. next \in OutcomeType
  <2>1. [out EXCEPT !.unparsable = @ + 1] \in OutcomeType
    BY <1>1 DEF OutcomeType
  <2>2. ASSUME NEW k \in {"none", "usage_a", "usage_b"}
        PROVE  [out EXCEPT !.json = @ + 1, !.usage = k] \in OutcomeType
    <3>1. out.json + 1 \in Nat
      BY <1>1 DEF OutcomeType
    <3>2. [out EXCEPT !.json = out.json + 1, !.usage = k] \in OutcomeType
      BY <1>1, <3>1, CountedOutcome
    <3> QED
      BY <3>2
  <2>3. (IF HasUsage(s.pending) THEN kind ELSE out.usage) \in {"none", "usage_a", "usage_b"}
    BY <1>1, <1>2 DEF OutcomeType
  <2>4. [out EXCEPT !.json = @ + 1, !.usage = IF HasUsage(s.pending) THEN kind ELSE @]
          \in OutcomeType
    BY <2>2, <2>3
  <2> QED
    BY <1>1, <2>1, <2>4
<1>4. FlushEvent(s) = [s EXCEPT !.pending = <<>>, !.outcome = next]
  BY DEF FlushEvent, kind, out
<1> HIDE DEF next
<1> QED
  BY <1>3, <1>4, FlushRecord

\* A byte becomes one character.
LEMMA LossyFacts ==
    ASSUME NEW raw \in Seq(Bytes)
    PROVE  Lossy(raw) \in Seq(Text) /\ Len(Lossy(raw)) = Len(raw)
<1>1. DOMAIN raw = 1..Len(raw) /\ Len(raw) \in Nat /\ \A i \in 1..Len(raw) : raw[i] \in Bytes
  BY ElementOfSeq, LenProperties
<1>2. Lossy(raw) = [i \in 1..Len(raw) |-> IF raw[i] = "x" THEN "fffd" ELSE raw[i]]
  BY <1>1 DEF Lossy
<1>3. \A i \in 1..Len(raw) : (IF raw[i] = "x" THEN "fffd" ELSE raw[i]) \in Text
  BY <1>1 DEF Text
<1> QED
  BY <1>1, <1>2, <1>3

\* A character takes at most three bytes.
LEMMA SizeBound ==
    ASSUME NEW text \in Seq(Text)
    PROVE  Size(text) <= 3 * Len(text) /\ Size(text) \in Nat
<1> DEFINE odd == {i \in DOMAIN text : text[i] = "fffd"}
<1>1. DOMAIN text = 1..Len(text) /\ Len(text) \in Nat
  BY LenProperties
<1>2. IsFiniteSet(1..Len(text)) /\ Cardinality(1..Len(text)) = Len(text)
  BY <1>1, FS_Interval
<1>3. odd \subseteq 1..Len(text)
  BY <1>1
<1>4. IsFiniteSet(odd) /\ Cardinality(odd) \in Nat /\ Cardinality(odd) <= Len(text)
  BY <1>2, <1>3, FS_Subset, FS_CardinalityType
<1>5. Size(text) = Len(text) + 2 * Cardinality(odd)
  BY DEF Size
<1> HIDE DEF odd
<1> QED
  BY <1>1, <1>4, <1>5

\* Absorbing a line holds no more than was held, and the line.
LEMMA AbsorbFacts ==
    ASSUME NEW s \in ScannerType, NEW line \in Seq(Bytes), s.line = <<>>,
           Len(s.pending) + Len(line) <= s.bytes
    PROVE  /\ AbsorbLine(s, line) \in ScannerType /\ AbsorbLine(s, line).line = <<>>
           /\ Len(AbsorbLine(s, line).pending) <= AbsorbLine(s, line).bytes
           /\ AbsorbLine(s, line).bytes <= s.bytes
<1>1. s.pending \in Seq(Text) /\ s.bytes \in Nat
  BY DEF ScannerType
<1>2. CASE line = <<>>
  <2>1. AbsorbLine(s, line) = [FlushEvent(s) EXCEPT !.bytes = 0]
    BY <1>2 DEF AbsorbLine
  <2>2. /\ AbsorbLine(s, line) \in ScannerType /\ AbsorbLine(s, line).line = <<>>
        /\ AbsorbLine(s, line).pending = <<>> /\ AbsorbLine(s, line).bytes = 0
    BY <2>1, FlushFacts DEF ScannerType
  <2> QED
    BY <1>1, <2>2
<1>3. CASE line # <<>> /\ ~IsPrefix(Field, line)
  <2>1. AbsorbLine(s, line) = s
    BY <1>3 DEF AbsorbLine
  <2> QED
    BY <1>1, <2>1
<1>4. CASE line # <<>> /\ IsPrefix(Field, line)
  <2> DEFINE data == DataOf(line)
             held == IF s.pending = <<>> THEN data ELSE s.pending \o <<"nl">> \o data
  <2>1. Len(Field) = 2 /\ Len(line) >= 2
    <3>1. Len(Field) = 2 /\ Len(Field) <= Len(line)
      BY <1>4 DEF IsPrefix, Field
    <3> QED
      BY <3>1
  <2>2. data \in Seq(Text) /\ Len(data) = Len(line) - 2
    <3> DEFINE raw == SubSeq(line, 3, Len(line))
    <3>1. Len(line) \in Nat /\ 3 \in 1..(Len(line) + 1) /\ Len(line) \in (3 - 1)..Len(line)
      BY <2>1
    <3>2. data = Lossy(raw)
      BY <2>1 DEF DataOf
    <3>3. raw \in Seq(Bytes) /\ Len(raw) = Len(line) - 3 + 1
      BY <3>1, Slice
    <3> HIDE DEF data, raw
    <3>4. Lossy(raw) \in Seq(Text) /\ Len(Lossy(raw)) = Len(raw)
      BY <3>3, LossyFacts
    <3> QED
      BY <3>1, <3>2, <3>3, <3>4
  <2>3. AbsorbLine(s, line) = [s EXCEPT !.pending = held]
    BY <1>4 DEF AbsorbLine
  <2> HIDE DEF data
  <2>4. data \in Seq(Text) /\ <<"nl">> \in Seq(Text)
        /\ Len(<<"nl">>) = 1
    BY <2>2 DEF Text
  <2>5. held \in Seq(Text) /\ Len(held) <= Len(s.pending) + Len(line)
    <3>1. CASE s.pending = <<>>
      BY <1>1, <2>1, <2>2, <2>4, <3>1
    <3>2. CASE s.pending # <<>>
      <4>1. /\ s.pending \o <<"nl">> \in Seq(Text)
            /\ Len(s.pending \o <<"nl">>) = Len(s.pending) + 1
        BY <1>1, <2>4, ConcatProperties
      <4>2. /\ s.pending \o <<"nl">> \o data \in Seq(Text)
            /\ Len(s.pending \o <<"nl">> \o data) = Len(s.pending \o <<"nl">>) + Len(data)
        BY <2>4, <4>1, ConcatProperties
      <4>3. Len(s.pending) \in Nat /\ Len(line) \in Nat
        BY <1>1
      <4> QED
        BY <2>1, <2>2, <3>2, <4>1, <4>2, <4>3
    <3> QED
      BY <3>1, <3>2
  <2> HIDE DEF held
  <2>6. /\ AbsorbLine(s, line) \in ScannerType /\ AbsorbLine(s, line).line = <<>>
        /\ AbsorbLine(s, line).pending = held /\ AbsorbLine(s, line).bytes = s.bytes
    BY <2>3, <2>5 DEF ScannerType
  <2> QED
    BY <1>1, <2>5, <2>6
<1> QED
  BY <1>2, <1>3, <1>4

\* Truncating drops all that is held.
LEMMA TruncateFacts ==
    ASSUME NEW s \in ScannerType
    PROVE  /\ Truncate(s) \in ScannerType /\ Truncate(s).line = <<>>
           /\ Truncate(s).pending = <<>> /\ Truncate(s).bytes = 0
<1> DEFINE o == [s.outcome EXCEPT !.usage = "none", !.truncated = TRUE]
<1>1. s.outcome \in OutcomeType
  BY DEF ScannerType
<1>2. o \in OutcomeType
  BY <1>1 DEF OutcomeType
<1>3. Truncate(s) = [Fresh EXCEPT !.outcome = o]
  BY DEF Truncate
<1> HIDE DEF o
<1> QED
  BY <1>2, <1>3, FreshFacts DEF ScannerType

\* The scanner that has finished, or was cut off, holds nothing.
LEMMA NothingHeld ==
    ASSUME ScanShapes', scanner'.line = <<>>, scanner'.pending = <<>>, scanner'.bytes = 0
    PROVE  ScanInv'
<1>1. Len(<<>>) = 0
  OBVIOUS
<1> QED
  BY <1>1, CapNat DEF ScanInv, Paid

LEMMA ScanInitHolds == ScanInit => ScanInv
<1> SUFFICES ASSUME ScanInit PROVE ScanInv
  OBVIOUS
<1>1. stream \in Seq(Bytes) /\ <<>> \in Seq(Bytes)
  BY StreamsOfBytes DEF ScanInit, Bytes
<1>2. ScanShapes
  BY <1>1, FreshFacts DEF ScanInit, ScanShapes
<1>3. Len(<<>>) = 0
  OBVIOUS
<1>4. Paid
  BY <1>3, FreshFacts, CapNat DEF ScanInit, Paid
<1> QED
  BY <1>2, <1>4 DEF ScanInv

LEMMA FeedKeeps ==
    ASSUME ScanInv, NEW n \in 1..Len(stream), Feed(n) PROVE ScanInv'
<1>1. /\ fed' = fed + n /\ fed + n <= Len(stream) /\ UNCHANGED <<stream, scanner>>
      /\ rest' = IF scanner.outcome.truncated THEN <<>> ELSE SubSeq(stream, fed + 1, fed + n)
  BY DEF Feed
<1>2. stream \in Seq(Bytes) /\ fed \in Nat /\ Len(stream) \in Nat
  BY DEF ScanInv, ScanShapes
<1>3. fed + 1 \in 1..(Len(stream) + 1) /\ fed + n \in (fed + 1 - 1)..Len(stream)
  BY <1>1, <1>2
<1>4. SubSeq(stream, fed + 1, fed + n) \in Seq(Bytes)
  BY <1>2, <1>3, Slice
<1>5. rest' \in Seq(Bytes)
  <2>1. <<>> \in Seq(Bytes)
    OBVIOUS
  <2> QED
    BY <1>1, <1>4, <2>1
<1>6. fed' \in Nat
  BY <1>1, <1>2
<1> QED
  BY <1>1, <1>5, <1>6 DEF ScanInv, ScanShapes, Paid

LEMMA AfterCrKeeps ==
    ASSUME ScanInv, AfterCr PROVE ScanInv'
<1>1. /\ rest # <<>> /\ scanner' = [scanner EXCEPT !.afterCr = FALSE]
      /\ rest' = IF Head(rest) = "lf" THEN Tail(rest) ELSE rest
      /\ UNCHANGED <<stream, fed>>
  BY DEF AfterCr
<1>2. rest \in Seq(Bytes) /\ scanner \in ScannerType
  BY DEF ScanInv, ScanShapes
<1>3. rest' \in Seq(Bytes)
  BY <1>1, <1>2, HeadTailProperties
<1>4. /\ scanner' \in ScannerType /\ scanner'.line = scanner.line
      /\ scanner'.pending = scanner.pending /\ scanner'.bytes = scanner.bytes
  BY <1>1, <1>2 DEF ScannerType
<1> QED
  BY <1>1, <1>3, <1>4 DEF ScanInv, ScanShapes, Paid

\* What paying for n bytes, and holding them, makes of the scanner.
LEMMA HeldRecord ==
    ASSUME NEW s \in ScannerType, NEW n \in Nat, NEW l \in Seq(Bytes)
    PROVE  LET r == [Reserve(s, n) EXCEPT !.line = l]
           IN /\ r \in ScannerType /\ r.line = l /\ r.pending = s.pending
              /\ r.bytes = s.bytes + n
              /\ Reserve(s, n).line = s.line
<1>1. s.bytes + n \in Nat
  BY DEF ScannerType
<1>2. /\ Reserve(s, n) \in ScannerType /\ Reserve(s, n).pending = s.pending
      /\ Reserve(s, n).bytes = s.bytes + n /\ Reserve(s, n).line = s.line
  BY <1>1 DEF Reserve, ScannerType
<1> QED
  BY <1>2 DEF ScannerType

LEMMA HoldTailKeeps ==
    ASSUME ScanInv, HoldTail PROVE ScanInv'
<1>1. /\ scanner' = IF Exceeds(scanner, Len(rest)) THEN Truncate(scanner)
                    ELSE [Reserve(scanner, Len(rest)) EXCEPT !.line = @ \o rest]
      /\ rest' = <<>> /\ UNCHANGED <<stream, fed>>
  BY DEF HoldTail
<1>2. /\ rest \in Seq(Bytes) /\ scanner \in ScannerType /\ <<>> \in Seq(Bytes)
      /\ Len(rest) \in Nat /\ scanner.line \in Seq(Bytes) /\ scanner.bytes \in Nat
      /\ scanner.pending \in Seq(Text)
  BY DEF ScanInv, ScanShapes, ScannerType
<1>3. CASE Exceeds(scanner, Len(rest))
  <2>1. scanner' = Truncate(scanner)
    BY <1>1, <1>3
  <2>2. ScanShapes'
    BY <1>1, <1>2, <2>1, TruncateFacts DEF ScanInv, ScanShapes
  <2> QED
    BY <1>2, <2>1, <2>2, TruncateFacts, NothingHeld
<1>4. CASE ~Exceeds(scanner, Len(rest))
  <2> DEFINE l == scanner.line \o rest
  <2>1. l \in Seq(Bytes) /\ Len(l) = Len(scanner.line) + Len(rest)
    BY <1>2, ConcatProperties
  <2> DEFINE R == Reserve(scanner, Len(rest))
  <2>2. R.line = scanner.line
    BY <1>2, HeldRecord
  <2>3. scanner' = [Reserve(scanner, Len(rest)) EXCEPT !.line = l]
    <3>1. scanner' = [R EXCEPT !.line = R.line \o rest]
      BY <1>1, <1>4
    <3> HIDE DEF R
    <3>2. R.line \o rest = l
      BY <2>2
    <3> QED
      BY <3>1, <3>2 DEF R
  <2> HIDE DEF l
  <2>4. /\ scanner' \in ScannerType /\ scanner'.line = l
        /\ scanner'.pending = scanner.pending /\ scanner'.bytes = scanner.bytes + Len(rest)
    BY <1>2, <2>1, <2>3, HeldRecord
  <2>5. scanner.bytes + Len(rest) <= MaxEventBytes
    BY <1>2, <1>4, CapNat DEF Exceeds
  <2>6. Len(scanner.line) \in Nat /\ Len(scanner.pending) \in Nat /\ Len(rest) \in Nat
        /\ scanner.bytes \in Nat
    BY <1>2, LenProperties
  <2>7. Len(l) + Len(scanner.pending) <= scanner.bytes + Len(rest)
    <3>1. Len(scanner.line) + Len(scanner.pending) <= scanner.bytes
      BY DEF ScanInv, Paid
    <3>2. Len(l) = Len(scanner.line) + Len(rest)
      BY <2>1
    <3>3. \A a, b, x, n \in Nat : a + b <= x => (a + n) + b <= x + n
      OBVIOUS
    <3> QED
      BY <2>6, <3>1, <3>2, <3>3, Zenon
  <2>8. Paid'
    BY <2>4, <2>5, <2>7 DEF Paid
  <2> QED
    BY <1>1, <1>2, <2>4, <2>8 DEF ScanInv, ScanShapes
<1> QED
  BY <1>3, <1>4

\* A line that was paid for, and the scanner that is to absorb it.
LEMMA PaidRecord ==
    ASSUME NEW s \in ScannerType, NEW n \in Nat, NEW b \in BOOLEAN
    PROVE  LET r == [Reserve(s, n) EXCEPT !.line = <<>>, !.afterCr = b]
           IN /\ r \in ScannerType /\ r.line = <<>> /\ r.pending = s.pending
              /\ r.bytes = s.bytes + n
<1>1. s.bytes + n \in Nat /\ <<>> \in Seq(Bytes)
  BY DEF ScannerType
<1>2. /\ Reserve(s, n) \in ScannerType /\ Reserve(s, n).pending = s.pending
      /\ Reserve(s, n).bytes = s.bytes + n
  BY <1>1 DEF Reserve, ScannerType
<1> QED
  BY <1>1, <1>2 DEF ScannerType

LEMMA TakeLineKeeps ==
    ASSUME ScanInv, TakeLine PROVE ScanInv'
<1> DEFINE idx == Min(Breaks)
           head == SubSeq(rest, 1, idx - 1)
           line == scanner.line \o head
           paid == [Reserve(scanner, idx) EXCEPT !.line = <<>>, !.afterCr = rest[idx] = "cr"]
           left == SubSeq(rest, idx + 1, Len(rest))
<1>1. /\ Breaks # {} /\ UNCHANGED <<stream, fed>>
      /\ IF Exceeds(scanner, idx) THEN scanner' = Truncate(scanner) /\ rest' = <<>>
         ELSE scanner' = AbsorbLine(paid, line) /\ rest' = left
  BY DEF TakeLine
<1>2. /\ rest \in Seq(Bytes) /\ scanner \in ScannerType /\ <<>> \in Seq(Bytes)
      /\ scanner.line \in Seq(Bytes) /\ scanner.bytes \in Nat
      /\ scanner.pending \in Seq(Text)
  BY DEF ScanInv, ScanShapes, ScannerType
<1>3. Len(rest) \in Nat /\ Len(scanner.line) \in Nat /\ Len(scanner.pending) \in Nat
  BY <1>2, LenProperties
<1>4. Breaks \subseteq 1..Len(rest)
  BY <1>2 DEF Breaks
<1>5. idx \in 1..Len(rest)
  <2>1. Breaks \subseteq Nat
    BY <1>4
  <2> QED
    BY <1>1, <1>4, <2>1, MinOfNaturals
<1> HIDE DEF idx
<1>6. head \in Seq(Bytes) /\ Len(head) = idx - 1
  <2>1. 1 \in 1..(Len(rest) + 1) /\ idx - 1 \in (1 - 1)..Len(rest)
    BY <1>3, <1>5
  <2>2. head \in Seq(Bytes) /\ Len(head) = idx - 1 - 1 + 1
    BY <1>2, <2>1, Slice
  <2> HIDE DEF head
  <2> QED
    BY <1>5, <2>2
<1>7. left \in Seq(Bytes)
  <2>1. idx + 1 \in 1..(Len(rest) + 1) /\ Len(rest) \in (idx + 1 - 1)..Len(rest)
    BY <1>3, <1>5
  <2> QED
    BY <1>2, <2>1, Slice
<1> HIDE DEF head, left
<1>8. line \in Seq(Bytes) /\ Len(line) = Len(scanner.line) + Len(head)
  BY <1>2, <1>6, ConcatProperties
<1> HIDE DEF line
<1>9. CASE Exceeds(scanner, idx)
  <2>1. scanner' = Truncate(scanner) /\ rest' = <<>>
    BY <1>1, <1>9
  <2>2. ScanShapes'
    BY <1>1, <1>2, <2>1, TruncateFacts DEF ScanInv, ScanShapes
  <2> QED
    BY <1>2, <2>1, <2>2, TruncateFacts, NothingHeld
<1>10. CASE ~Exceeds(scanner, idx)
  <2>1. scanner' = AbsorbLine(paid, line) /\ rest' = left
    BY <1>1, <1>10
  <2>2. idx \in Nat /\ (rest[idx] = "cr") \in BOOLEAN
    BY <1>5
  <2>3. /\ paid \in ScannerType /\ paid.line = <<>> /\ paid.pending = scanner.pending
        /\ paid.bytes = scanner.bytes + idx
    BY <1>2, <2>2, PaidRecord
  <2> HIDE DEF paid
  <2>4. Len(paid.pending) + Len(line) <= paid.bytes
    <3>1. Len(scanner.line) + Len(scanner.pending) <= scanner.bytes
      BY DEF ScanInv, Paid
    <3>2. \A x, y, b, i \in Nat : x + y <= b => y + (x + (i - 1)) <= b + i
      OBVIOUS
    <3> QED
      BY <1>2, <1>3, <1>6, <1>8, <2>2, <2>3, <3>1, <3>2, Zenon
  <2>5. scanner.bytes + idx <= MaxEventBytes
    BY <1>2, <1>10, <2>2, CapNat DEF Exceeds
  <2>6. /\ scanner' \in ScannerType /\ scanner'.line = <<>>
        /\ Len(scanner'.pending) <= scanner'.bytes /\ scanner'.bytes <= paid.bytes
    BY <1>8, <2>1, <2>3, <2>4, AbsorbFacts
  <2>7. /\ scanner'.bytes \in Nat /\ scanner'.pending \in Seq(Text)
        /\ paid.bytes \in Nat
    BY <2>3, <2>6 DEF ScannerType
  <2>8. scanner'.bytes <= MaxEventBytes
    BY <2>3, <2>5, <2>6, <2>7, CapNat
  <2>9. Len(scanner'.line) + Len(scanner'.pending) <= scanner'.bytes
    <3>1. Len(scanner'.line) = 0 /\ Len(scanner'.pending) \in Nat
      BY <2>6, <2>7, LenProperties
    <3> QED
      BY <2>6, <2>7, <3>1
  <2> QED
    BY <1>1, <1>7, <2>1, <2>6, <2>8, <2>9 DEF ScanInv, ScanShapes, Paid
<1> QED
  BY <1>9, <1>10

LEMMA FinishKeeps ==
    ASSUME ScanInv, Finish PROVE ScanInv'
<1> DEFINE closed == [scanner EXCEPT !.line = <<>>]
           last == IF scanner.line = <<>> THEN scanner ELSE AbsorbLine(closed, scanner.line)
           seen == IF scanner.outcome.truncated THEN scanner ELSE FlushEvent(last)
<1>1. scanner' = [Fresh EXCEPT !.outcome = seen.outcome] /\ UNCHANGED <<stream, fed, rest>>
  BY DEF Finish
<1>2. /\ scanner \in ScannerType /\ scanner.line \in Seq(Bytes)
      /\ scanner.pending \in Seq(Text) /\ scanner.bytes \in Nat
      /\ <<>> \in Seq(Bytes)
  BY DEF ScanInv, ScanShapes, ScannerType
<1>3. /\ closed \in ScannerType /\ closed.line = <<>> /\ closed.pending = scanner.pending
      /\ closed.bytes = scanner.bytes
  BY <1>2 DEF ScannerType
<1> HIDE DEF closed
<1>4. Len(closed.pending) + Len(scanner.line) <= closed.bytes
  <2>1. Len(scanner.line) \in Nat /\ Len(scanner.pending) \in Nat
    BY <1>2, LenProperties
  <2>2. Len(scanner.line) + Len(scanner.pending) <= scanner.bytes
    BY DEF ScanInv, Paid
  <2>3. \A x, y, b \in Nat : x + y <= b => y + x <= b
    OBVIOUS
  <2> QED
    BY <1>2, <1>3, <2>1, <2>2, <2>3, Zenon
<1>5. AbsorbLine(closed, scanner.line) \in ScannerType
  BY <1>2, <1>3, <1>4, AbsorbFacts
<1>6. last \in ScannerType
  BY <1>2, <1>5
<1> HIDE DEF last
<1>7. seen \in ScannerType
  BY <1>2, <1>6, FlushFacts
<1> HIDE DEF seen
<1>8. /\ scanner' \in ScannerType /\ scanner'.line = <<>> /\ scanner'.pending = <<>>
      /\ scanner'.bytes = 0
  BY <1>1, <1>7, FreshFacts DEF ScannerType
<1>9. ScanShapes'
  BY <1>1, <1>8 DEF ScanInv, ScanShapes
<1> QED
  BY <1>8, <1>9, NothingHeld

\* The scanner never holds more of an event than MAX_EVENT_BYTES received bytes come
\* to as text, three times as much, for every body, every way of cutting it into
\* chunks and every cap (SseUsageScanner::reserve).
THEOREM ScannerBounded == ScanSpec => []BufferBounded
<1>1. ScanInv /\ [ScanNext]_scanVars => ScanInv'
  <2> SUFFICES ASSUME ScanInv, [ScanNext]_scanVars PROVE ScanInv'
    OBVIOUS
  <2>1. CASE UNCHANGED scanVars
    BY <2>1 DEF ScanInv, ScanShapes, Paid, scanVars
  <2> QED
    BY <2>1, FeedKeeps, AfterCrKeeps, HoldTailKeeps, TakeLineKeeps, FinishKeeps DEF ScanNext
<1>2. ScanInv => BufferBounded
  <2> SUFFICES ASSUME ScanInv PROVE BufferBounded
    OBVIOUS
  <2>1. scanner.line \in Seq(Bytes) /\ scanner.pending \in Seq(Text)
        /\ scanner.bytes \in Nat
    BY DEF ScanInv, ScanShapes, ScannerType
  <2>2. Len(scanner.line) \in Nat /\ Len(scanner.pending) \in Nat
    BY <2>1, LenProperties
  <2>3. Len(scanner.line) + Len(scanner.pending) <= scanner.bytes
        /\ scanner.bytes <= MaxEventBytes
    BY DEF ScanInv, Paid
  <2>4. Size(scanner.pending) \in Nat /\ Size(scanner.pending) <= 3 * Len(scanner.pending)
    BY <2>1, SizeBound
  <2>5. \A x, y, z, b, c \in Nat :
           x + y <= b /\ b <= c /\ z <= 3 * y => 3 * x + z <= 3 * c
    OBVIOUS
  <2> QED
    BY <2>1, <2>2, <2>3, <2>4, <2>5, CapNat, Zenon DEF BufferBounded
<1> QED
  BY <1>1, <1>2, ScanInitHolds, PTL DEF ScanSpec

-----------------------------------------------------------------------------
(* SseScan: the scanner knows, of the bytes it has scanned, what a reader of    *)
(* the whole knows.  First the reader: its lines, events, sizes and payloads    *)
(* when the body is longer by some bytes.                                       *)

LEMMA MaxUnique ==
    ASSUME NEW S, S \subseteq Int, NEW b \in S, \A x \in S : x <= b
    PROVE  Max(S) = b
<1>1. Max(S) \in S /\ \A x \in S : Max(S) >= x
  BY MaxOfBounded
<1>2. Max(S) \in Int /\ b \in Int /\ Max(S) >= b /\ Max(S) <= b
  BY <1>1
<1> QED
  BY <1>2

\* No line ends between two positions.
Plain(s, m, n) == \A j \in (m + 1)..n : s[j] \notin Terminators

\* Where the line of a position starts: after b.
OpensAfter(s, b, i) == b \in 0..(i - 1) /\ (b = 0 \/ s[b] \in Terminators) /\ Plain(s, b, i - 1)

LEMMA LineAtIs ==
    ASSUME NEW s \in Seq(Bytes), NEW i \in 1..(Len(s) + 1), NEW b, OpensAfter(s, b, i)
    PROVE  LineAt(s, i) = SubSeq(s, b + 1, i - 1)
<1> DEFINE B == {0} \cup {j \in DOMAIN s : j < i /\ s[j] \in Terminators}
<1>1. Len(s) \in Nat /\ DOMAIN s = 1..Len(s) /\ b \in 0..(i - 1)
  BY DEF OpensAfter
<1>2. b \in B
  BY <1>1 DEF OpensAfter
<1>3. B \subseteq Int
  BY <1>1
<1>4. ASSUME NEW x \in B PROVE x <= b
  <2>1. CASE x = 0
    BY <1>1, <2>1
  <2>2. CASE x # 0
    <3>1. x \in 1..Len(s) /\ x < i /\ s[x] \in Terminators
      BY <1>1, <2>2
    <3>2. ~(x \in (b + 1)..(i - 1))
      BY <3>1 DEF OpensAfter, Plain
    <3> QED
      BY <1>1, <3>1, <3>2
  <2> QED
    BY <2>1, <2>2
<1>5. Max(B) = b
  <2> HIDE DEF B
  <2> QED
    BY <1>2, <1>3, <1>4, MaxUnique
<1> QED
  BY <1>5 DEF LineAt

LEMMA LineAtOpens ==
    ASSUME NEW s \in Seq(Bytes), NEW i \in 1..(Len(s) + 1)
    PROVE  \E b : OpensAfter(s, b, i)
<1> DEFINE B == {0} \cup {j \in DOMAIN s : j < i /\ s[j] \in Terminators}
<1>1. Len(s) \in Nat /\ DOMAIN s = 1..Len(s)
  OBVIOUS
<1>2. B \subseteq Int /\ B # {} /\ i \in Int /\ \A x \in B : x <= i
  BY <1>1
<1>3. Max(B) \in B /\ \A x \in B : Max(B) >= x
  <2> HIDE DEF B
  <2> QED
    BY <1>2, MaxOfBounded
<1>4. PICK b : b = Max(B)
  OBVIOUS
<1>5. b \in B /\ \A x \in B : b >= x
  BY <1>3, <1>4
<1>6. b \in 0..(i - 1) /\ (b = 0 \/ s[b] \in Terminators)
  BY <1>1, <1>5
<1>7. ASSUME NEW j \in (b + 1)..(i - 1), s[j] \in Terminators PROVE FALSE
  <2>1. j \in 1..Len(s) /\ j < i /\ j > b
    BY <1>1, <1>6
  <2>2. j \in B
    BY <1>1, <1>7, <2>1
  <2> QED
    BY <1>5, <1>6, <2>1, <2>2
<1> QED
  BY <1>6, <1>7 DEF OpensAfter, Plain

LEMMA SliceAt ==
    ASSUME NEW s \in Seq(Bytes), NEW b \in 0..Len(s), NEW n \in b..Len(s)
    PROVE  /\ SubSeq(s, b + 1, n) \in Seq(Bytes) /\ Len(SubSeq(s, b + 1, n)) = n - b
           /\ \A j \in 1..(n - b) : SubSeq(s, b + 1, n)[j] = s[b + j]
<1>1. Len(s) \in Nat /\ b \in Nat /\ n \in Nat
  OBVIOUS
<1> QED
  BY <1>1

LEMMA SliceJoin ==
    ASSUME NEW s \in Seq(Bytes), NEW b \in 0..Len(s), NEW n \in b..Len(s), NEW m \in n..Len(s)
    PROVE  SubSeq(s, b + 1, m) = SubSeq(s, b + 1, n) \o SubSeq(s, n + 1, m)
<1>1. Len(s) \in Nat /\ b \in Nat /\ n \in Nat /\ m \in Nat
      /\ b <= n /\ n <= m /\ m <= Len(s) /\ n \in 0..Len(s) /\ m \in b..Len(s)
  OBVIOUS
<1> DEFINE u == SubSeq(s, b + 1, n)
           v == SubSeq(s, n + 1, m)
           w == SubSeq(s, b + 1, m)
<1>2. /\ u \in Seq(Bytes) /\ Len(u) = n - b /\ \A j \in 1..(n - b) : u[j] = s[b + j]
  BY SliceAt
<1>3. /\ v \in Seq(Bytes) /\ Len(v) = m - n /\ \A j \in 1..(m - n) : v[j] = s[n + j]
  BY <1>1, SliceAt
<1>4. /\ w \in Seq(Bytes) /\ Len(w) = m - b /\ \A j \in 1..(m - b) : w[j] = s[b + j]
  BY <1>1, SliceAt
<1> HIDE DEF u, v, w
<1>5. /\ u \o v \in Seq(Bytes) /\ Len(u \o v) = m - b
      /\ \A j \in 1..(m - b) : (u \o v)[j] = IF j <= n - b THEN u[j] ELSE v[j - (n - b)]
  <2>1. /\ u \o v \in Seq(Bytes) /\ Len(u \o v) = Len(u) + Len(v)
        /\ \A j \in 1..(Len(u) + Len(v)) :
              (u \o v)[j] = IF j <= Len(u) THEN u[j] ELSE v[j - Len(u)]
    BY <1>2, <1>3, ConcatProperties
  <2>2. Len(u) + Len(v) = m - b
    BY <1>1, <1>2, <1>3
  <2>3. Len(u) = n - b
    BY <1>2
  <2> QED
    BY <2>1, <2>2, <2>3
<1>6. \A j \in 1..(m - b) : (u \o v)[j] = w[j]
  <2> SUFFICES ASSUME NEW j \in 1..(m - b) PROVE (u \o v)[j] = w[j]
    OBVIOUS
  <2>1. CASE j <= n - b
    BY <1>1, <1>2, <1>4, <1>5, <2>1
  <2>2. CASE ~(j <= n - b)
    <3>1. j - (n - b) \in 1..(m - n) /\ n + (j - (n - b)) = b + j
      BY <1>1, <2>2
    <3> QED
      BY <1>3, <1>4, <1>5, <2>2, <3>1
  <2> QED
    BY <2>1, <2>2
<1> QED
  BY <1>4, <1>5, <1>6, SeqEqual DEF u, v, w

\* Bytes that end no line make the open line longer.
LEMMA LineGrows ==
    ASSUME NEW s \in Seq(Bytes), NEW n \in 0..Len(s), NEW m \in n..Len(s), Plain(s, n, m)
    PROVE  LineAt(s, m + 1) = LineAt(s, n + 1) \o SubSeq(s, n + 1, m)
<1>1. Len(s) \in Nat /\ n + 1 \in 1..(Len(s) + 1) /\ m + 1 \in 1..(Len(s) + 1)
      /\ n \in Nat /\ m \in Nat /\ n + 1 - 1 = n /\ m + 1 - 1 = m
  OBVIOUS
<1>2. PICK b : OpensAfter(s, b, n + 1)
  BY <1>1, LineAtOpens
<1>3. b \in 0..n /\ Plain(s, b, n)
  BY <1>1, <1>2 DEF OpensAfter
<1>4. OpensAfter(s, b, m + 1)
  <2>1. \A j \in (b + 1)..m : j \in (b + 1)..n \/ j \in (n + 1)..m
    BY <1>1, <1>3
  <2>2. Plain(s, b, m)
    BY <1>3, <2>1 DEF Plain
  <2> QED
    BY <1>1, <1>2, <1>3, <2>2 DEF OpensAfter
<1>5. LineAt(s, n + 1) = SubSeq(s, b + 1, n) /\ LineAt(s, m + 1) = SubSeq(s, b + 1, m)
  BY <1>1, <1>2, <1>4, LineAtIs
<1>6. b \in 0..Len(s) /\ n \in b..Len(s)
  BY <1>1, <1>3
<1> QED
  BY <1>5, <1>6, SliceJoin

\* After a terminator the line is empty.
LEMMA LineEmpty ==
    ASSUME NEW s \in Seq(Bytes), NEW n \in 0..Len(s), n = 0 \/ s[n] \in Terminators
    PROVE  LineAt(s, n + 1) = <<>>
<1>1. Len(s) \in Nat /\ n + 1 \in 1..(Len(s) + 1) /\ n \in Nat /\ n + 1 - 1 = n
  OBVIOUS
<1>2. OpensAfter(s, n, n + 1)
  BY <1>1 DEF OpensAfter, Plain
<1>3. LineAt(s, n + 1) = SubSeq(s, n + 1, n)
  BY <1>1, <1>2, LineAtIs
<1> QED
  BY <1>1, <1>3

-----------------------------------------------------------------------------
(* Events. *)

LEMMA LineEndFacts ==
    ASSUME NEW s \in Seq(Bytes)
    PROVE  /\ Len(s) \in Nat /\ DOMAIN s = 1..Len(s)
           /\ LineEnds(s) \subseteq 1..Len(s) /\ BlankLines(s) \subseteq LineEnds(s)
           /\ BlankLines(s) \subseteq 1..Len(s) /\ BlankLines(s) \subseteq Nat
<1>1. Len(s) \in Nat /\ DOMAIN s = 1..Len(s)
  OBVIOUS
<1> QED
  BY <1>1 DEF LineEnds, BlankLines

LEMMA PreviousIs ==
    ASSUME NEW s \in Seq(Bytes), NEW e \in Nat, NEW b \in {0} \cup BlankLines(s), b < e,
           \A i \in BlankLines(s) : i < e => i <= b
    PROVE  Previous(s, e) = b
<1> DEFINE B == {0} \cup {i \in BlankLines(s) : i < e}
<1>1. B \subseteq Int /\ b \in B
  BY LineEndFacts
<1>2. b \in Nat
  BY LineEndFacts
<1>3. \A x \in B : x <= b
  BY <1>2
<1> HIDE DEF B
<1>4. Max(B) = b
  BY <1>1, <1>3, MaxUnique
<1> QED
  BY <1>4 DEF Previous, B

LEMMA PreviousFacts ==
    ASSUME NEW s \in Seq(Bytes), NEW e \in Nat, e > 0
    PROVE  /\ Previous(s, e) \in {0} \cup BlankLines(s) /\ Previous(s, e) \in Nat
           /\ Previous(s, e) < e
           /\ \A i \in BlankLines(s) : i < e => i <= Previous(s, e)
<1> DEFINE B == {0} \cup {i \in BlankLines(s) : i < e}
<1>1. B \subseteq Int /\ B # {} /\ e \in Int /\ \A x \in B : x <= e
  BY LineEndFacts
<1>2. Max(B) \in B /\ \A x \in B : Max(B) >= x
  <2> HIDE DEF B
  <2> QED
    BY <1>1, MaxOfBounded
<1>3. Previous(s, e) = Max(B)
  BY DEF Previous
<1>4. PICK b : b = Max(B)
  OBVIOUS
<1>5. b \in {0} \cup BlankLines(s) /\ b \in Nat /\ b < e
  BY <1>2, <1>4, LineEndFacts
<1>6. \A i \in BlankLines(s) : i < e => i <= b
  <2> SUFFICES ASSUME NEW i \in BlankLines(s), i < e PROVE i <= b
    OBVIOUS
  <2>1. i \in B /\ i \in Nat
    BY LineEndFacts
  <2> QED
    BY <1>2, <1>4, <1>5, <2>1
<1> QED
  BY <1>3, <1>4, <1>5, <1>6

\* Where no event ends, the event goes on.
LEMMA PreviousSame ==
    ASSUME NEW s \in Seq(Bytes), NEW e \in Nat, e > 0, NEW f \in Nat, e <= f,
           \A i \in BlankLines(s) : ~(e <= i /\ i < f)
    PROVE  Previous(s, f) = Previous(s, e)
<1>1. PICK b : b = Previous(s, e)
  OBVIOUS
<1>2. /\ b \in {0} \cup BlankLines(s) /\ b \in Nat /\ b < e
      /\ \A i \in BlankLines(s) : i < e => i <= b
  BY <1>1, PreviousFacts
<1>3. \A i \in BlankLines(s) : i < f => i <= b
  BY <1>2, LineEndFacts
<1>4. b < f
  BY <1>2
<1> QED
  BY <1>1, <1>2, <1>3, <1>4, PreviousIs

\* The bytes of an event after b that are paid for.
Cost(s, b, n) == Cardinality({i \in 1..n : b < i /\ ~Skipped(s, i)})

LEMMA CostFacts ==
    ASSUME NEW s, NEW b \in Nat, NEW n \in Nat
    PROVE  /\ IsFiniteSet({i \in 1..n : b < i /\ ~Skipped(s, i)}) /\ Cost(s, b, n) \in Nat
           /\ n <= b => Cost(s, b, n) = 0
<1> DEFINE K == {i \in 1..n : b < i /\ ~Skipped(s, i)}
<1>1. IsFiniteSet(1..n) /\ K \subseteq 1..n
  BY FS_Interval
<1>2. IsFiniteSet(K) /\ Cardinality(K) \in Nat
  BY <1>1, FS_Subset, FS_CardinalityType
<1>3. ASSUME n <= b PROVE Cardinality(K) = 0
  <2>1. K = {}
    BY <1>3
  <2> QED
    BY <2>1, FS_EmptySet
<1> QED
  BY <1>2, <1>3 DEF Cost

LEMMA CostMonotone ==
    ASSUME NEW s, NEW b \in Nat, NEW n \in Nat, NEW m \in Nat, n <= m
    PROVE  Cost(s, b, n) <= Cost(s, b, m)
<1> DEFINE K == {i \in 1..n : b < i /\ ~Skipped(s, i)}
           L == {i \in 1..m : b < i /\ ~Skipped(s, i)}
<1>1. K \subseteq L
  OBVIOUS
<1>2. IsFiniteSet(L)
  BY CostFacts
<1>3. Cardinality(K) <= Cardinality(L)
  BY <1>1, <1>2, FS_Subset
<1> QED
  BY <1>3 DEF Cost

\* Every byte that is not skipped costs one.
LEMMA CostGrows ==
    ASSUME NEW s, NEW b \in Nat, NEW n \in Nat, b <= n, NEW m \in Nat, n <= m,
           \A i \in (n + 1)..m : ~Skipped(s, i)
    PROVE  Cost(s, b, m) = Cost(s, b, n) + (m - n)
<1> DEFINE K == {i \in 1..n : b < i /\ ~Skipped(s, i)}
           L == {i \in 1..m : b < i /\ ~Skipped(s, i)}
           D == (n + 1)..m
<1>1. L = K \cup D
  <2>1. ASSUME NEW i \in L PROVE i \in K \cup D
    OBVIOUS
  <2>2. ASSUME NEW i \in K PROVE i \in L
    OBVIOUS
  <2>3. ASSUME NEW i \in D PROVE i \in L
    OBVIOUS
  <2> QED
    BY <2>1, <2>2, <2>3
<1>2. K \cap D = {}
  OBVIOUS
<1>3. IsFiniteSet(K) /\ Cardinality(K) \in Nat
  BY CostFacts DEF Cost
<1>4. IsFiniteSet(D) /\ Cardinality(D) = m - n
  <2>1. /\ IsFiniteSet(D)
        /\ Cardinality(D) = IF n + 1 > m THEN 0 ELSE m - (n + 1) + 1
    BY FS_Interval
  <2>2. (IF n + 1 > m THEN 0 ELSE m - (n + 1) + 1) = m - n
    OBVIOUS
  <2> QED
    BY <2>1, <2>2
<1> HIDE DEF K, D, L
<1>5. Cardinality(K \cup D) = Cardinality(K) + Cardinality(D) - Cardinality(K \cap D)
  BY <1>3, <1>4, FS_Union
<1>6. Cardinality(K \cap D) = 0
  BY <1>2, FS_EmptySet
<1>7. Cardinality(L) = Cardinality(K) + (m - n)
  BY <1>1, <1>3, <1>4, <1>5, <1>6
<1> QED
  BY <1>7 DEF Cost, K, L

LEMMA CostSkipped ==
    ASSUME NEW s, NEW b \in Nat, NEW n \in Nat, Skipped(s, n + 1)
    PROVE  Cost(s, b, n + 1) = Cost(s, b, n)
<1>1. {i \in 1..(n + 1) : b < i /\ ~Skipped(s, i)} = {i \in 1..n : b < i /\ ~Skipped(s, i)}
  <2>1. ASSUME NEW i \in 1..(n + 1), ~Skipped(s, i) PROVE i \in 1..n
    <3>1. i # n + 1
      BY <2>1
    <3> QED
      BY <3>1
  <2>2. \A i \in 1..n : i \in 1..(n + 1)
    OBVIOUS
  <2> QED
    BY <2>1, <2>2
<1> QED
  BY <1>1 DEF Cost

LEMMA SizeIsCost ==
    ASSUME NEW s \in Seq(Bytes), NEW n \in Nat
    PROVE  /\ SizeUpTo(s, n + 1, n) = Cost(s, Previous(s, n + 1), n)
           /\ \A e \in 1..n : SizeUpTo(s, e, n) = Cost(s, Previous(s, e), e)
<1>1. {i \in 1..n : Previous(s, n + 1) < i /\ i <= n + 1 /\ ~Skipped(s, i)}
        = {i \in 1..n : Previous(s, n + 1) < i /\ ~Skipped(s, i)}
  OBVIOUS
<1>2. ASSUME NEW e \in 1..n
      PROVE  {i \in 1..n : Previous(s, e) < i /\ i <= e /\ ~Skipped(s, i)}
               = {i \in 1..e : Previous(s, e) < i /\ ~Skipped(s, i)}
  OBVIOUS
<1> QED
  BY <1>1, <1>2 DEF SizeUpTo, Cost

-----------------------------------------------------------------------------
(* The data of an event.  DataUpTo is a recursive function; that there is one,  *)
(* and what its values are, again rests on least counterexamples.               *)

\* The value at i, given a function with the values before it.
Absorbs(g, s, b, i) ==
    IF i <= b THEN <<>>
    ELSE IF i \in LineEnds(s) THEN Joined(g[i - 1], LineAt(s, i)) ELSE g[i - 1]

Joins(g, s, b, k) == g = [i \in 0..k |-> Absorbs(g, s, b, i)]

LEMMA AbsorbsSame ==
    ASSUME NEW g, NEW h, NEW s, NEW b \in Nat, NEW i \in Nat, i >= 1 => g[i - 1] = h[i - 1]
    PROVE  Absorbs(g, s, b, i) = Absorbs(h, s, b, i)
<1>1. CASE i <= b
  BY <1>1 DEF Absorbs
<1>2. CASE ~(i <= b)
  <2>1. g[i - 1] = h[i - 1]
    BY <1>2
  <2> QED
    BY <1>2, <2>1 DEF Absorbs
<1> QED
  BY <1>1, <1>2

LEMMA JoinsExist ==
    ASSUME NEW s, NEW b \in Nat, NEW k \in Nat
    PROVE  \E g : Joins(g, s, b, k)
<1> DEFINE T == {n \in Nat : ~\E g : Joins(g, s, b, n)}
<1>1. SUFFICES ASSUME T # {} PROVE FALSE
  OBVIOUS
<1>2. PICK n \in T : \A m \in T : n <= m
  BY <1>1, LeastNatural
<1>3. n \in Nat /\ ~\E g : Joins(g, s, b, n)
  BY <1>2
<1>4. n # 0
  <2>1. SUFFICES ASSUME n = 0 PROVE FALSE
    OBVIOUS
  <2> DEFINE g == [i \in 0..0 |-> <<>>]
  <2>2. \A i \in 0..0 : i <= b /\ Absorbs(g, s, b, i) = <<>>
    BY DEF Absorbs
  <2>3. Joins(g, s, b, 0)
    BY <2>2 DEF Joins
  <2> QED
    BY <1>3, <2>1, <2>3
<1>5. n - 1 \in Nat /\ n - 1 \notin T
  BY <1>2, <1>3, <1>4
<1>6. PICK h : Joins(h, s, b, n - 1)
  BY <1>5
<1> DEFINE v == Absorbs(h, s, b, n)
<1> HIDE DEF v
<1> DEFINE g == [i \in 0..n |-> IF i < n THEN h[i] ELSE v]
<1>7. \A i \in 0..(n - 1) : h[i] = Absorbs(h, s, b, i)
  BY <1>6 DEF Joins
<1>8. \A i \in 0..n : g[i] = Absorbs(g, s, b, i)
  <2> SUFFICES ASSUME NEW i \in 0..n PROVE g[i] = Absorbs(g, s, b, i)
    OBVIOUS
  <2>1. i \in Nat /\ (i >= 1 => g[i - 1] = h[i - 1])
    BY <1>3
  <2> HIDE DEF g
  <2>2. Absorbs(g, s, b, i) = Absorbs(h, s, b, i)
    BY <2>1, AbsorbsSame
  <2>3. CASE i < n
    <3>1. g[i] = h[i] /\ i \in 0..(n - 1)
      BY <1>3, <2>3 DEF g
    <3> QED
      BY <1>7, <2>2, <3>1
  <2>4. CASE ~(i < n)
    <3>1. i = n /\ g[i] = v
      BY <1>3, <2>4 DEF g
    <3> QED
      BY <2>2, <3>1 DEF v
  <2> QED
    BY <2>3, <2>4
<1>9. Joins(g, s, b, n)
  <2>1. g = [i \in 0..n |-> g[i]]
    OBVIOUS
  <2> HIDE DEF g
  <2> QED
    BY <1>8, <2>1 DEF Joins
<1> QED
  BY <1>3, <1>9

LEMMA JoinsAgree ==
    ASSUME NEW s, NEW b \in Nat, NEW k \in Nat, NEW m \in Nat, NEW g, NEW h,
           Joins(g, s, b, k), Joins(h, s, b, m), k <= m
    PROVE  \A i \in 0..k : g[i] = h[i]
<1> DEFINE T == {i \in 0..k : g[i] # h[i]}
<1>1. SUFFICES ASSUME T # {} PROVE FALSE
  OBVIOUS
<1>2. T \subseteq Nat
  OBVIOUS
<1>3. PICK i \in T : \A j \in T : i <= j
  BY <1>1, <1>2, LeastNatural
<1>4. i \in 0..k /\ i \in 0..m /\ i \in Nat /\ g[i] # h[i]
  BY <1>3
<1>5. i >= 1 => g[i - 1] = h[i - 1]
  <2> SUFFICES ASSUME i >= 1, g[i - 1] # h[i - 1] PROVE FALSE
    OBVIOUS
  <2>1. i - 1 \in T
    BY <1>4
  <2> QED
    BY <1>3, <1>4, <2>1
<1>6. g[i] = Absorbs(g, s, b, i) /\ h[i] = Absorbs(h, s, b, i)
  BY <1>4 DEF Joins
<1>7. Absorbs(g, s, b, i) = Absorbs(h, s, b, i)
  BY <1>4, <1>5, AbsorbsSame
<1> QED
  BY <1>4, <1>6, <1>7

LEMMA DataIs ==
    ASSUME NEW s, NEW b \in Nat, NEW k \in Nat
    PROVE  \E g : Joins(g, s, b, k) /\ DataUpTo(s, b, k) = g[k]
<1>1. \E g : Joins(g, s, b, k)
  BY JoinsExist
<1> DEFINE G == CHOOSE g : Joins(g, s, b, k)
<1>2. Joins(G, s, b, k)
  BY <1>1
<1>3. DataUpTo(s, b, k) = G[k]
  BY DEF DataUpTo, Joins, Absorbs
<1> QED
  BY <1>2, <1>3

\* Nothing before the event began; then line by line.
LEMMA DataStarts ==
    ASSUME NEW s, NEW b \in Nat, NEW k \in Nat, k <= b
    PROVE  DataUpTo(s, b, k) = <<>>
<1>1. PICK g : Joins(g, s, b, k) /\ DataUpTo(s, b, k) = g[k]
  BY DataIs
<1>2. g[k] = Absorbs(g, s, b, k)
  BY <1>1 DEF Joins
<1> QED
  BY <1>1, <1>2 DEF Absorbs

LEMMA DataStep ==
    ASSUME NEW s, NEW b \in Nat, NEW k \in Nat, b <= k
    PROVE  DataUpTo(s, b, k + 1) =
               IF k + 1 \in LineEnds(s) THEN Joined(DataUpTo(s, b, k), LineAt(s, k + 1))
               ELSE DataUpTo(s, b, k)
<1>1. PICK g : Joins(g, s, b, k) /\ DataUpTo(s, b, k) = g[k]
  BY DataIs
<1>2. k + 1 \in Nat /\ k <= k + 1 /\ k + 1 - 1 = k /\ ~(k + 1 <= b) /\ k \in 0..k
      /\ k + 1 \in 0..(k + 1)
  OBVIOUS
<1>3. PICK h : Joins(h, s, b, k + 1) /\ DataUpTo(s, b, k + 1) = h[k + 1]
  BY <1>2, DataIs
<1>4. g[k] = h[k]
  BY <1>1, <1>2, <1>3, JoinsAgree
<1>5. h[k + 1] = Absorbs(h, s, b, k + 1)
  BY <1>2, <1>3 DEF Joins
<1> QED
  BY <1>1, <1>2, <1>3, <1>4, <1>5 DEF Absorbs

\* Where no line ends nothing is added.
LEMMA DataStill ==
    ASSUME NEW s, NEW b \in Nat, NEW n \in Nat, b <= n, NEW m \in Nat, n <= m,
           \A i \in (n + 1)..m : i \notin LineEnds(s)
    PROVE  DataUpTo(s, b, m) = DataUpTo(s, b, n)
<1> DEFINE T == {i \in n..m : DataUpTo(s, b, i) # DataUpTo(s, b, n)}
<1>1. SUFFICES ASSUME T # {} PROVE FALSE
  <2>1. m \in n..m
    OBVIOUS
  <2> QED
    BY <2>1
<1>2. T \subseteq Nat
  OBVIOUS
<1>3. PICK i \in T : \A j \in T : i <= j
  BY <1>1, <1>2, LeastNatural
<1>4. i \in n..m /\ i \in Nat /\ DataUpTo(s, b, i) # DataUpTo(s, b, n)
  BY <1>3
<1>5. i # n
  BY <1>4
<1>6. PICK k \in Nat : k = i - 1
  BY <1>4, <1>5
<1>7. k \in n..m /\ b <= k /\ k + 1 = i /\ i \in (n + 1)..m
  BY <1>4, <1>5, <1>6
<1>8. DataUpTo(s, b, k) = DataUpTo(s, b, n)
  <2>1. k \notin T
    BY <1>3, <1>4, <1>6
  <2> QED
    BY <1>7, <2>1
<1>9. DataUpTo(s, b, k + 1) = DataUpTo(s, b, k)
  BY <1>7, DataStep
<1> QED
  BY <1>4, <1>7, <1>8, <1>9

-----------------------------------------------------------------------------
(* What a set of events says, and one more. *)

UsageKinds == {"usage_a", "usage_b"}
JsonKinds == {"usage_a", "usage_b", "json"}

\* Those of the events in E whose payload is of one of the kinds.
Said(s, E, kinds) ==
    {e \in E : PayloadOf(s, e) # <<>> /\ PayloadKind(PayloadOf(s, e)) \in kinds}

LastUsage(s, U) == IF U = {} THEN "none" ELSE PayloadKind(PayloadOf(s, Max(U)))

Tally(s, E) ==
    [usage |-> LastUsage(s, Said(s, E, UsageKinds)), json |-> Cardinality(Said(s, E, JsonKinds)),
     unparsable |-> Cardinality(Said(s, E, {"unparsable"})), truncated |-> FALSE]

\* FlushEvent's reckoning.
Reckoned(o, p) ==
    IF p = <<>> \/ PayloadKind(p) = "done" THEN o
    ELSE IF PayloadKind(p) = "unparsable" THEN [o EXCEPT !.unparsable = @ + 1]
    ELSE [o EXCEPT !.json = @ + 1, !.usage = IF HasUsage(p) THEN PayloadKind(p) ELSE @]

LEMMA KindFacts ==
    ASSUME NEW p
    PROVE  PayloadKind(p) \in {"usage_a", "usage_b", "json", "done", "unparsable"}
BY DEF PayloadKind

LEMMA SaidFacts ==
    ASSUME NEW s, NEW E, IsFiniteSet(E), NEW kinds
    PROVE  /\ Said(s, E, kinds) \subseteq E /\ IsFiniteSet(Said(s, E, kinds))
           /\ Cardinality(Said(s, E, kinds)) \in Nat
<1>1. Said(s, E, kinds) \subseteq E
  BY DEF Said
<1> QED
  BY <1>1, FS_Subset, FS_CardinalityType

LEMMA SaidMore ==
    ASSUME NEW s, NEW E, NEW k, NEW kinds,
           PayloadOf(s, k) # <<>>, PayloadKind(PayloadOf(s, k)) \in kinds
    PROVE  Said(s, E \cup {k}, kinds) = Said(s, E, kinds) \cup {k}
BY DEF Said

LEMMA SaidOneMore ==
    ASSUME NEW s, NEW E, IsFiniteSet(E), NEW k, k \notin E, NEW kinds, NEW more,
           more = Said(s, E, kinds) \cup {k}
    PROVE  Cardinality(more) = Cardinality(Said(s, E, kinds)) + 1
<1>1. k \notin Said(s, E, kinds) /\ IsFiniteSet(Said(s, E, kinds))
  BY SaidFacts
<1> QED
  BY <1>1, FS_AddElement

LEMMA SaidSame ==
    ASSUME NEW s, NEW E, NEW k, NEW kinds,
           ~(PayloadOf(s, k) # <<>> /\ PayloadKind(PayloadOf(s, k)) \in kinds)
    PROVE  Said(s, E \cup {k}, kinds) = Said(s, E, kinds)
BY DEF Said

LEMMA TallyEmpty ==
    ASSUME NEW s PROVE Tally(s, {}) = NoOutcome
<1>1. \A kinds : Said(s, {}, kinds) = {}
  BY DEF Said
<1> QED
  BY <1>1, FS_EmptySet DEF Tally, LastUsage, NoOutcome

\* One event after all the others.
LEMMA TallyAdd ==
    ASSUME NEW s, NEW E, IsFiniteSet(E), E \subseteq Nat, NEW k \in Nat, \A e \in E : e < k
    PROVE  Tally(s, E \cup {k}) = Reckoned(Tally(s, E), PayloadOf(s, k))
<1> DEFINE p == PayloadOf(s, k)
           kind == PayloadKind(p)
           U == Said(s, E, UsageKinds)
           J == Said(s, E, JsonKinds)
           N == Said(s, E, {"unparsable"})
<1>0. k \notin E
  OBVIOUS
<1>1. kind \in {"usage_a", "usage_b", "json", "done", "unparsable"}
  BY KindFacts
<1>2. CASE p = <<>> \/ kind = "done"
  <2>1. /\ Said(s, E \cup {k}, UsageKinds) = U /\ Said(s, E \cup {k}, JsonKinds) = J
        /\ Said(s, E \cup {k}, {"unparsable"}) = N
    <3>1. /\ ~(p # <<>> /\ kind \in UsageKinds) /\ ~(p # <<>> /\ kind \in JsonKinds)
          /\ ~(p # <<>> /\ kind \in {"unparsable"})
      BY <1>2 DEF UsageKinds, JsonKinds
    <3> QED
      BY <3>1, SaidSame
  <2>2. Tally(s, E \cup {k}) = Tally(s, E)
    BY <2>1 DEF Tally
  <2> QED
    BY <1>2, <2>2 DEF Reckoned
<1>3. CASE p # <<>> /\ kind = "unparsable"
  <2>1. /\ Said(s, E \cup {k}, UsageKinds) = U /\ Said(s, E \cup {k}, JsonKinds) = J
    <3>1. ~(p # <<>> /\ kind \in UsageKinds) /\ ~(p # <<>> /\ kind \in JsonKinds)
      BY <1>3 DEF UsageKinds, JsonKinds
    <3> QED
      BY <3>1, SaidSame
  <2>2. Cardinality(Said(s, E \cup {k}, {"unparsable"})) = Cardinality(N) + 1
    <3>1. p # <<>> /\ kind \in {"unparsable"}
      BY <1>3
    <3>2. Said(s, E \cup {k}, {"unparsable"}) = Said(s, E, {"unparsable"}) \cup {k}
      BY <3>1, SaidMore
    <3> QED
      BY <1>0, <3>2, SaidOneMore
  <2>3. Reckoned(Tally(s, E), p) = [Tally(s, E) EXCEPT !.unparsable = @ + 1]
    BY <1>3 DEF Reckoned
  <2> QED
    BY <2>1, <2>2, <2>3 DEF Tally
<1>4. CASE p # <<>> /\ kind = "json"
  <2>1. /\ Said(s, E \cup {k}, UsageKinds) = U /\ Said(s, E \cup {k}, {"unparsable"}) = N
    <3>1. ~(p # <<>> /\ kind \in UsageKinds) /\ ~(p # <<>> /\ kind \in {"unparsable"})
      BY <1>4 DEF UsageKinds
    <3> QED
      BY <3>1, SaidSame
  <2>2. Cardinality(Said(s, E \cup {k}, JsonKinds)) = Cardinality(J) + 1
    <3>1. p # <<>> /\ kind \in JsonKinds
      BY <1>4 DEF JsonKinds
    <3>2. Said(s, E \cup {k}, JsonKinds) = Said(s, E, JsonKinds) \cup {k}
      BY <3>1, SaidMore
    <3> QED
      BY <1>0, <3>2, SaidOneMore
  <2>3. Reckoned(Tally(s, E), p) = [Tally(s, E) EXCEPT !.json = @ + 1, !.usage = @]
    BY <1>4 DEF Reckoned, HasUsage
  <2> QED
    BY <2>1, <2>2, <2>3 DEF Tally
<1>5. CASE p # <<>> /\ kind \in UsageKinds
  <2>1. Said(s, E \cup {k}, {"unparsable"}) = N
    <3>1. ~(p # <<>> /\ kind \in {"unparsable"})
      BY <1>5 DEF UsageKinds
    <3> QED
      BY <3>1, SaidSame
  <2>2. Cardinality(Said(s, E \cup {k}, JsonKinds)) = Cardinality(J) + 1
    <3>1. p # <<>> /\ kind \in JsonKinds
      BY <1>5 DEF JsonKinds, UsageKinds
    <3>2. Said(s, E \cup {k}, JsonKinds) = Said(s, E, JsonKinds) \cup {k}
      BY <3>1, SaidMore
    <3> QED
      BY <1>0, <3>2, SaidOneMore
  <2>3. Said(s, E \cup {k}, UsageKinds) = U \cup {k}
    BY <1>5, SaidMore
  <2>4. Max(U \cup {k}) = k
    <3>1. U \subseteq E
      BY SaidFacts
    <3> HIDE DEF U
    <3>2. U \cup {k} \subseteq Int /\ \A x \in U \cup {k} : x <= k
      BY <3>1
    <3> QED
      BY <3>2, MaxUnique
  <2>5. LastUsage(s, U \cup {k}) = kind
    BY <2>4 DEF LastUsage
  <2>6. Reckoned(Tally(s, E), p) = [Tally(s, E) EXCEPT !.json = @ + 1, !.usage = kind]
    BY <1>5 DEF Reckoned, HasUsage, UsageKinds
  <2> HIDE DEF kind
  <2> QED
    BY <2>1, <2>2, <2>3, <2>5, <2>6 DEF Tally
<1> QED
  BY <1>1, <1>2, <1>3, <1>4, <1>5 DEF UsageKinds

-----------------------------------------------------------------------------
(* The reference over the events that have ended up to b. *)

ClosedBy(s, b) == {e \in BlankLines(s) : e <= b}
Fits(s, b) == \A e \in ClosedBy(s, b) : Cost(s, Previous(s, e), e) <= MaxEventBytes
Cut(o) == [o EXCEPT !.usage = "none", !.truncated = TRUE]

LEMMA ClosedFacts ==
    ASSUME NEW s \in Seq(Bytes), NEW b
    PROVE  ClosedBy(s, b) \subseteq Nat /\ IsFiniteSet(ClosedBy(s, b))
<1>1. ClosedBy(s, b) \subseteq 1..Len(s) /\ Len(s) \in Nat
  BY LineEndFacts DEF ClosedBy
<1>2. IsFiniteSet(1..Len(s))
  BY <1>1, FS_Interval
<1> QED
  BY <1>1, <1>2, FS_Subset

LEMMA CutRecord ==
    ASSUME NEW u, NEW j, NEW n, NEW x
    PROVE  Cut([usage |-> u, json |-> j, unparsable |-> n, truncated |-> x])
             = [usage |-> "none", json |-> j, unparsable |-> n, truncated |-> TRUE]
<1>0. PICK z, y : z = "none" /\ y = TRUE
  OBVIOUS
<1>1. PICK o : o = [usage |-> u, json |-> j, unparsable |-> n, truncated |-> x]
  OBVIOUS
<1>2. PICK q : q = [o EXCEPT !.usage = z, !.truncated = y]
  OBVIOUS
<1>3. PICK r : r = [usage |-> z, json |-> j, unparsable |-> n, truncated |-> y]
  OBVIOUS
<1>4. DOMAIN q = DOMAIN r /\ DOMAIN q = {"usage", "json", "unparsable", "truncated"}
  BY <1>1, <1>2, <1>3
<1>5. ASSUME NEW f \in DOMAIN q PROVE q[f] = r[f]
  <2>1. q.usage = r.usage
    BY <1>1, <1>2, <1>3
  <2>2. q.json = r.json
    BY <1>1, <1>2, <1>3
  <2>3. q.unparsable = r.unparsable
    BY <1>1, <1>2, <1>3
  <2>4. q.truncated = r.truncated
    BY <1>1, <1>2, <1>3
  <2> QED
    BY <1>4, <2>1, <2>2, <2>3, <2>4
<1>6. q = [f \in DOMAIN q |-> q[f]] /\ r = [f \in DOMAIN r |-> r[f]]
  BY <1>1, <1>2, <1>3
<1>7. q = r
  BY <1>4, <1>5, <1>6
<1>8. q = Cut(o)
  BY <1>0, <1>2, Zenon DEF Cut
<1> QED
  BY <1>0, <1>1, <1>3, <1>7, <1>8, Zenon

\* A body whose events all fit.
LEMMA FullReading ==
    ASSUME NEW s \in Seq(Bytes), NEW n \in 0..Len(s), NEW b, b = Previous(s, n + 1),
           Fits(s, b), Cost(s, b, n) <= MaxEventBytes
    PROVE  Reading(s, n) = Tally(s, ClosedBy(s, b) \cup {n + 1})
<1> DEFINE ends == {e \in BlankLines(s) : e <= n} \cup {n + 1}
           over == {e \in ends : SizeUpTo(s, e, n) > MaxEventBytes}
           kept == {e \in ends : \A o \in over : e < o}
<1>1. Len(s) \in Nat /\ n \in Nat /\ n + 1 \in Nat /\ n + 1 > 0
  OBVIOUS
<1>2. /\ b \in {0} \cup BlankLines(s) /\ b \in Nat /\ b < n + 1
      /\ \A i \in BlankLines(s) : i < n + 1 => i <= b
  BY <1>1, PreviousFacts
<1>3. BlankLines(s) \subseteq Nat /\ BlankLines(s) \subseteq 1..Len(s)
  BY LineEndFacts
<1>4. {e \in BlankLines(s) : e <= n} = ClosedBy(s, b)
  <2>1. ASSUME NEW e \in BlankLines(s) PROVE e <= n <=> e <= b
    <3>1. e \in Nat
      BY <1>3
    <3> QED
      BY <1>1, <1>2, <3>1
  <2> QED
    BY <2>1 DEF ClosedBy
<1>5. over = {}
  <2> SUFFICES ASSUME NEW e \in over PROVE FALSE
    OBVIOUS
  <2>0. e \in ends /\ SizeUpTo(s, e, n) > MaxEventBytes
    OBVIOUS
  <2>1. CASE e = n + 1
    <3>1. SizeUpTo(s, e, n) = Cost(s, b, n)
      BY <1>1, <2>1, SizeIsCost
    <3>2. Cost(s, b, n) \in Nat
      BY <1>1, <1>2, CostFacts
    <3> QED
      BY <2>0, <3>1, <3>2, CapNat
  <2>2. CASE e \in ClosedBy(s, b)
    <3>1. e \in BlankLines(s) /\ e \in 1..n /\ e \in Nat /\ e > 0
      BY <1>1, <1>2, <1>3, <2>2 DEF ClosedBy
    <3>2. SizeUpTo(s, e, n) = Cost(s, Previous(s, e), e)
      BY <1>1, <3>1, SizeIsCost
    <3>3. Previous(s, e) \in Nat
      BY <3>1, PreviousFacts
    <3>4. Cost(s, Previous(s, e), e) \in Nat
      BY <3>1, <3>3, CostFacts
    <3>5. Cost(s, Previous(s, e), e) <= MaxEventBytes
      BY <2>2 DEF Fits
    <3> QED
      BY <2>0, <3>2, <3>4, <3>5, CapNat
  <2> QED
    BY <1>4, <2>0, <2>1, <2>2
<1>6. kept = ClosedBy(s, b) \cup {n + 1}
  <2>1. kept = ends
    <3> HIDE DEF over
    <3> QED
      BY <1>5
  <2> QED
    BY <1>4, <2>1
<1> HIDE DEF ends
<1> QED
  BY <1>5, <1>6 DEF Reading, Tally, Said, LastUsage, UsageKinds, JsonKinds, ends

\* A body with an event that does not fit: what was said before it counts, and no usage.
LEMMA CutReading ==
    ASSUME NEW s \in Seq(Bytes), NEW m \in 0..Len(s), NEW k \in 0..m,
           NEW b \in {0} \cup BlankLines(s), b <= k,
           \A i \in BlankLines(s) : ~(b < i /\ i < k),
           Fits(s, b), Cost(s, b, k) > MaxEventBytes
    PROVE  Reading(s, m) = Cut(Tally(s, ClosedBy(s, b)))
<1> DEFINE ends == {e \in BlankLines(s) : e <= m} \cup {m + 1}
           over == {e \in ends : SizeUpTo(s, e, m) > MaxEventBytes}
           kept == {e \in ends : \A o \in over : e < o}
<1>1. Len(s) \in Nat /\ m \in Nat /\ k \in Nat /\ m + 1 \in Nat /\ k <= m
  OBVIOUS
<1>2. BlankLines(s) \subseteq Nat /\ BlankLines(s) \subseteq 1..Len(s) /\ b \in Nat
  BY LineEndFacts
<1>3. ends \subseteq Nat /\ m + 1 \in ends /\ \A e \in ends : e <= m + 1
  BY <1>1, <1>2
<1>4. ASSUME NEW e \in over PROVE e > b
  <2> SUFFICES ASSUME ~(e > b) PROVE FALSE
    OBVIOUS
  <2>1. e \in BlankLines(s) /\ e <= b /\ e \in 1..m /\ e \in Nat /\ e > 0
    BY <1>1, <1>2, <1>3
  <2>2. SizeUpTo(s, e, m) = Cost(s, Previous(s, e), e)
    BY <1>1, <2>1, SizeIsCost
  <2>3. Previous(s, e) \in Nat
    BY <2>1, PreviousFacts
  <2>4. Cost(s, Previous(s, e), e) \in Nat
    BY <2>1, <2>3, CostFacts
  <2>5. Cost(s, Previous(s, e), e) <= MaxEventBytes
    BY <2>1 DEF Fits, ClosedBy
  <2>6. SizeUpTo(s, e, m) > MaxEventBytes
    OBVIOUS
  <2> QED
    BY <2>2, <2>4, <2>5, <2>6, CapNat
<1>5. PICK o \in ends : o > b /\ \A e \in ends : e > b => o <= e
  <2> DEFINE T == {e \in ends : e > b}
  <2>1. T \subseteq Nat /\ T # {}
    BY <1>1, <1>2, <1>3
  <2>2. PICK x \in T : \A y \in T : x <= y
    <3> HIDE DEF T
    <3> QED
      BY <2>1, LeastNatural
  <2> QED
    BY <2>2
<1>6. o \in Nat /\ o > 0
  BY <1>2, <1>3, <1>5
<1>7. Previous(s, o) = b
  <2>1. ASSUME NEW i \in BlankLines(s), i < o PROVE i <= b
    <3>1. i \in Nat /\ i <= m
      BY <1>1, <1>2, <1>3, <1>6, <2>1
    <3>2. i \in ends
      BY <3>1
    <3> QED
      BY <1>2, <1>5, <1>6, <2>1, <3>1, <3>2
  <2> QED
    BY <1>5, <1>6, <2>1, PreviousIs
<1>8. SizeUpTo(s, o, m) > MaxEventBytes
  <2>0. Cost(s, b, k) \in Nat
    BY <1>1, <1>2, CostFacts
  <2>1. CASE o = m + 1
    <3>1. SizeUpTo(s, o, m) = Cost(s, b, m)
      BY <1>1, <1>7, <2>1, SizeIsCost
    <3>2. Cost(s, b, k) <= Cost(s, b, m) /\ Cost(s, b, m) \in Nat
      BY <1>1, <1>2, CostFacts, CostMonotone
    <3> QED
      BY <2>0, <3>1, <3>2, CapNat
  <2>2. CASE o # m + 1
    <3>1. o \in BlankLines(s) /\ o \in 1..m
      BY <1>1, <1>5, <1>6, <2>2
    <3>2. SizeUpTo(s, o, m) = Cost(s, b, o)
      BY <1>1, <1>7, <3>1, SizeIsCost
    <3>3. k <= o
      BY <1>1, <1>5, <1>6, <3>1
    <3>4. Cost(s, b, k) <= Cost(s, b, o) /\ Cost(s, b, o) \in Nat
      BY <1>1, <1>2, <1>6, <3>3, CostFacts, CostMonotone
    <3> QED
      BY <2>0, <3>2, <3>4, CapNat
  <2> QED
    BY <2>1, <2>2
<1>9. o \in over
  BY <1>5, <1>8
<1>10. kept = ClosedBy(s, b)
  <2>1. ASSUME NEW e \in kept PROVE e \in ClosedBy(s, b)
    <3>1. e \in ends /\ e < o /\ e \in Nat
      BY <1>3, <1>9
    <3>2. ~(e > b)
      BY <1>5, <1>6, <3>1
    <3>3. e # m + 1
      BY <1>1, <1>2, <3>2
    <3> QED
      BY <1>2, <3>1, <3>2, <3>3 DEF ClosedBy
  <2>2. ASSUME NEW e \in ClosedBy(s, b) PROVE e \in kept
    <3>1. e \in BlankLines(s) /\ e <= b /\ e \in Nat
      BY <1>2 DEF ClosedBy
    <3>2. e \in ends
      BY <1>1, <1>2, <3>1
    <3>3. \A x \in over : x \in Nat /\ e < x
      BY <1>2, <1>3, <1>4, <3>1
    <3> QED
      BY <3>2, <3>3
  <2> QED
    BY <2>1, <2>2
<1>11. over # {}
  BY <1>9
<1> DEFINE J == Cardinality(Said(s, ClosedBy(s, b), JsonKinds))
           N == Cardinality(Said(s, ClosedBy(s, b), {"unparsable"}))
<1>12. Reading(s, m) = [usage |-> "none", json |-> J, unparsable |-> N, truncated |-> TRUE]
  BY <1>10, <1>11 DEF Reading, Said, JsonKinds
<1> DEFINE u == LastUsage(s, Said(s, ClosedBy(s, b), UsageKinds))
<1>13. Tally(s, ClosedBy(s, b)) = [usage |-> u, json |-> J, unparsable |-> N, truncated |-> FALSE]
  BY DEF Tally
<1> HIDE DEF J, N, u
<1>14. Cut([usage |-> u, json |-> J, unparsable |-> N, truncated |-> FALSE])
         = [usage |-> "none", json |-> J, unparsable |-> N, truncated |-> TRUE]
  BY CutRecord
<1> QED
  BY <1>12, <1>13, <1>14, Zenon

-----------------------------------------------------------------------------
(* Where the scanner stands after n bytes, and after it was cut off. *)

ScanAt(s, n, sc) ==
    LET b == Previous(s, n + 1)
    IN /\ sc.line = LineAt(s, n + 1) /\ sc.pending = DataUpTo(s, b, n)
       /\ sc.bytes = Cost(s, b, n) /\ sc.outcome = Tally(s, ClosedBy(s, b)) /\ Fits(s, b)

CutAt(s, m, o) ==
    \E b \in {0} \cup BlankLines(s), k \in 0..m :
        /\ b <= k /\ \A i \in BlankLines(s) : ~(b < i /\ i < k)
        /\ Fits(s, b) /\ Cost(s, b, k) > MaxEventBytes
        /\ o = Cut(Tally(s, ClosedBy(s, b)))

LEMMA PlainFacts ==
    ASSUME NEW s \in Seq(Bytes), NEW n \in 0..Len(s), NEW m \in n..Len(s), Plain(s, n, m)
    PROVE  \A i \in (n + 1)..m : i \notin LineEnds(s) /\ i \notin BlankLines(s) /\ ~Skipped(s, i)
<1> SUFFICES ASSUME NEW i \in (n + 1)..m
             PROVE  i \notin LineEnds(s) /\ i \notin BlankLines(s) /\ ~Skipped(s, i)
  OBVIOUS
<1>1. s[i] \notin Terminators
  BY DEF Plain
<1>2. s[i] # "lf"
  BY <1>1 DEF Terminators
<1> QED
  BY <1>1, <1>2 DEF LineEnds, BlankLines, Skipped

\* The event that is open at n.
LEMMA OpenEvent ==
    ASSUME NEW s \in Seq(Bytes), NEW n \in 0..Len(s), NEW b, b = Previous(s, n + 1)
    PROVE  /\ b \in {0} \cup BlankLines(s) /\ b \in Nat /\ b <= n
           /\ \A i \in BlankLines(s) : i \in Nat /\ (i <= n => i <= b)
<1>1. Len(s) \in Nat /\ n \in Nat /\ n + 1 \in Nat /\ n + 1 > 0
  OBVIOUS
<1>2. /\ b \in {0} \cup BlankLines(s) /\ b \in Nat /\ b < n + 1
      /\ \A i \in BlankLines(s) : i < n + 1 => i <= b
  BY <1>1, PreviousFacts
<1>3. BlankLines(s) \subseteq Nat
  BY LineEndFacts
<1> QED
  BY <1>1, <1>2, <1>3

\* The LF of a CRLF changes nothing.
LEMMA AtSkip ==
    ASSUME NEW s \in Seq(Bytes), NEW n \in 1..Len(s), n + 1 <= Len(s),
           s[n] = "cr", s[n + 1] = "lf", NEW sc, ScanAt(s, n, sc)
    PROVE  ScanAt(s, n + 1, sc)
<1> DEFINE b == Previous(s, n + 1)
<1>1. /\ Len(s) \in Nat /\ n \in Nat /\ n \in 0..Len(s) /\ n + 1 \in 0..Len(s) /\ n + 1 \in Nat
      /\ n + 1 + 1 \in Nat /\ n + 1 > 0 /\ n + 1 <= n + 1 + 1 /\ n + 1 > 1 /\ n + 1 - 1 = n
  OBVIOUS
<1>2. Skipped(s, n + 1)
  BY <1>1 DEF Skipped
<1>3. n + 1 \notin LineEnds(s) /\ n + 1 \notin BlankLines(s)
  BY <1>2 DEF LineEnds, BlankLines
<1>4. b \in Nat /\ b <= n /\ \A i \in BlankLines(s) : i \in Nat
  BY <1>1, OpenEvent
<1>5. \A i \in BlankLines(s) : ~(n + 1 <= i /\ i < n + 1 + 1)
  BY <1>1, <1>3, <1>4
<1>6. Previous(s, n + 1 + 1) = b
  BY <1>1, <1>5, PreviousSame
<1> HIDE DEF b
<1>7. LineAt(s, n + 1 + 1) = LineAt(s, n + 1)
  <2>1. s[n] \in Terminators /\ s[n + 1] \in Terminators
    BY DEF Terminators
  <2>2. LineAt(s, n + 1) = <<>>
    BY <1>1, <2>1, LineEmpty
  <2>3. LineAt(s, n + 1 + 1) = <<>>
    BY <1>1, <2>1, LineEmpty
  <2> QED
    BY <2>2, <2>3
<1>8. DataUpTo(s, b, n + 1) = DataUpTo(s, b, n)
  BY <1>1, <1>3, <1>4, DataStep
<1>9. Cost(s, b, n + 1) = Cost(s, b, n)
  BY <1>1, <1>2, <1>4, CostSkipped
<1> QED
  BY <1>6, <1>7, <1>8, <1>9 DEF ScanAt, b

\* Bytes that end no line.
LEMMA AtHold ==
    ASSUME NEW s \in Seq(Bytes), NEW n \in 0..Len(s), NEW m \in n..Len(s), Plain(s, n, m),
           NEW sc, ScanAt(s, n, sc), NEW r, r.line = sc.line \o SubSeq(s, n + 1, m),
           r.pending = sc.pending, r.bytes = sc.bytes + (m - n), r.outcome = sc.outcome
    PROVE  ScanAt(s, m, r)
<1> DEFINE b == Previous(s, n + 1)
<1>1. /\ Len(s) \in Nat /\ n \in Nat /\ m \in Nat /\ n <= m /\ n + 1 \in Nat /\ m + 1 \in Nat
      /\ n + 1 > 0 /\ n + 1 <= m + 1
  OBVIOUS
<1>2. b \in Nat /\ b <= n /\ \A i \in BlankLines(s) : i \in Nat
  BY OpenEvent
<1>3. \A i \in (n + 1)..m : i \notin LineEnds(s) /\ i \notin BlankLines(s) /\ ~Skipped(s, i)
  BY PlainFacts
<1>4. \A i \in BlankLines(s) : ~(n + 1 <= i /\ i < m + 1)
  BY <1>1, <1>2, <1>3
<1>5. Previous(s, m + 1) = b
  BY <1>1, <1>4, PreviousSame
<1> HIDE DEF b
<1>6. LineAt(s, m + 1) = LineAt(s, n + 1) \o SubSeq(s, n + 1, m)
  BY LineGrows
<1>7. DataUpTo(s, b, m) = DataUpTo(s, b, n)
  BY <1>1, <1>2, <1>3, DataStill
<1>8. Cost(s, b, m) = Cost(s, b, n) + (m - n)
  BY <1>1, <1>2, <1>3, CostGrows
<1> QED
  BY <1>5, <1>6, <1>7, <1>8 DEF ScanAt, b

\* Bytes that do not fit.
LEMMA AtCut ==
    ASSUME NEW s \in Seq(Bytes), NEW n \in 0..Len(s), NEW k \in n..Len(s), NEW m \in k..Len(s),
           \A i \in (n + 1)..k : ~Skipped(s, i) /\ (i < k => i \notin BlankLines(s)),
           NEW sc, ScanAt(s, n, sc), sc.bytes + (k - n) > MaxEventBytes
    PROVE  CutAt(s, m, Cut(sc.outcome))
<1> DEFINE b == Previous(s, n + 1)
<1>1. /\ Len(s) \in Nat /\ n \in Nat /\ k \in Nat /\ m \in Nat /\ n <= k /\ k \in 0..m
  OBVIOUS
<1>2. /\ b \in {0} \cup BlankLines(s) /\ b \in Nat /\ b <= n
      /\ \A i \in BlankLines(s) : i \in Nat /\ (i <= n => i <= b)
  BY OpenEvent
<1>3. Cost(s, b, k) = Cost(s, b, n) + (k - n)
  <2> HIDE DEF b
  <2> QED
    BY <1>1, <1>2, CostGrows
<1>4. sc.bytes = Cost(s, b, n) /\ Fits(s, b) /\ sc.outcome = Tally(s, ClosedBy(s, b))
  BY DEF ScanAt
<1> HIDE DEF b
<1>5. b <= k
  BY <1>1, <1>2
<1>6. \A i \in BlankLines(s) : ~(b < i /\ i < k)
  <2> SUFFICES ASSUME NEW i \in BlankLines(s), b < i, i < k PROVE FALSE
    OBVIOUS
  <2>1. i \in Nat /\ ~(i <= n)
    BY <1>2
  <2>2. i \in (n + 1)..k
    BY <1>1, <2>1
  <2> QED
    BY <2>2
<1>7. Cost(s, b, k) > MaxEventBytes /\ Cut(sc.outcome) = Cut(Tally(s, ClosedBy(s, b)))
  BY <1>3, <1>4
<1> QED
  BY <1>1, <1>2, <1>4, <1>5, <1>6, <1>7 DEF CutAt

\* A line of no bytes adds nothing to an event.
LEMMA JoinedNothing ==
    ASSUME NEW p PROVE Joined(p, <<>>) = p
<1>1. Len(Field) = 2 /\ Len(<<>>) = 0
  BY DEF Field
<1>2. ~IsPrefix(Field, <<>>)
  BY <1>1 DEF IsPrefix
<1> QED
  BY <1>2 DEF Joined

\* The scanner stands at n, and the next line ends at k.
NextLine(s, n, k, sc) ==
    /\ s \in Seq(Bytes) /\ n \in 0..Len(s) /\ k \in (n + 1)..Len(s)
    /\ Plain(s, n, k - 1) /\ s[k] \in Terminators /\ ~Skipped(s, k) /\ ScanAt(s, n, sc)

\* What the line is, and where the event that started after b stands with it.
LineFound(s, n, k, sc, b) ==
    /\ LineAt(s, k) = sc.line \o SubSeq(s, n + 1, k - 1) /\ LineAt(s, k + 1) = <<>>
    /\ k \in LineEnds(s) /\ Previous(s, k) = b
    /\ DataUpTo(s, b, k - 1) = sc.pending
    /\ DataUpTo(s, b, k) = Joined(sc.pending, LineAt(s, k))
    /\ Cost(s, b, k) = sc.bytes + (k - n)

LEMMA AtLine ==
    ASSUME NEW s, NEW n, NEW k, NEW sc, NextLine(s, n, k, sc)
    PROVE  LineFound(s, n, k, sc, Previous(s, n + 1))
<1> SUFFICES ASSUME NEW b, b = Previous(s, n + 1) PROVE LineFound(s, n, k, sc, b)
  OBVIOUS
<1>0. /\ s \in Seq(Bytes) /\ n \in 0..Len(s) /\ k \in (n + 1)..Len(s)
      /\ Plain(s, n, k - 1) /\ s[k] \in Terminators /\ ~Skipped(s, k) /\ ScanAt(s, n, sc)
  BY DEF NextLine
<1>1. /\ Len(s) \in Nat /\ n \in Nat /\ k \in Nat /\ k - 1 \in Nat /\ k - 1 \in n..Len(s)
      /\ n + 1 \in Nat /\ n + 1 > 0 /\ n + 1 <= k /\ k - 1 + 1 = k /\ n <= k - 1 /\ n <= k
      /\ k \in 0..Len(s) /\ k \in 1..Len(s)
  BY <1>0
<1>2. b \in Nat /\ b <= n /\ \A i \in BlankLines(s) : i \in Nat
  BY <1>0, OpenEvent
<1>3. \A i \in (n + 1)..(k - 1) : i \notin LineEnds(s) /\ i \notin BlankLines(s) /\ ~Skipped(s, i)
  BY <1>0, <1>1, PlainFacts
<1>4. Previous(s, k) = b
  <2>1. \A i \in BlankLines(s) : ~(n + 1 <= i /\ i < k)
    BY <1>1, <1>2, <1>3
  <2> QED
    BY <1>0, <1>1, <2>1, PreviousSame
<1>5. LineAt(s, k) = sc.line \o SubSeq(s, n + 1, k - 1)
  <2>1. LineAt(s, k - 1 + 1) = LineAt(s, n + 1) \o SubSeq(s, n + 1, k - 1)
    BY <1>0, <1>1, LineGrows
  <2> QED
    BY <1>0, <1>1, <2>1 DEF ScanAt
<1>6. LineAt(s, k + 1) = <<>>
  BY <1>0, <1>1, LineEmpty
<1>7. k \in LineEnds(s)
  BY <1>0, <1>1 DEF LineEnds
<1>8. DataUpTo(s, b, k - 1) = sc.pending
  <2>1. DataUpTo(s, b, k - 1) = DataUpTo(s, b, n)
    BY <1>1, <1>2, <1>3, DataStill
  <2> QED
    BY <1>0, <2>1 DEF ScanAt
<1>9. DataUpTo(s, b, k) = Joined(sc.pending, LineAt(s, k))
  <2>1. b <= k - 1
    BY <1>1, <1>2
  <2>2. DataUpTo(s, b, k - 1 + 1) =
            IF k - 1 + 1 \in LineEnds(s) THEN Joined(DataUpTo(s, b, k - 1), LineAt(s, k - 1 + 1))
            ELSE DataUpTo(s, b, k - 1)
    BY <1>1, <1>2, <2>1, DataStep
  <2> QED
    BY <1>1, <1>7, <1>8, <2>2
<1>10. Cost(s, b, k) = sc.bytes + (k - n)
  <2>1. \A i \in (n + 1)..k : ~Skipped(s, i)
    <3> SUFFICES ASSUME NEW i \in (n + 1)..k PROVE ~Skipped(s, i)
      OBVIOUS
    <3>1. i = k \/ i \in (n + 1)..(k - 1)
      BY <1>1
    <3> QED
      BY <1>0, <1>3, <3>1
  <2>2. Cost(s, b, k) = Cost(s, b, n) + (k - n)
    <3>1. ASSUME NEW m \in Nat, n <= m, \A i \in (n + 1)..m : ~Skipped(s, i)
          PROVE  Cost(s, b, m) = Cost(s, b, n) + (m - n)
      <4>1. n \in Nat /\ b \in Nat /\ b <= n
        BY <1>1, <1>2
      <4> QED
        BY <3>1, <4>1, CostGrows
    <3> QED
      BY <1>1, <2>1, <3>1
  <2> QED
    BY <1>0, <2>2 DEF ScanAt
<1> QED
  BY <1>4, <1>5, <1>6, <1>7, <1>8, <1>9, <1>10 DEF LineFound

\* A line of an event that goes on.
LEMMA AtData ==
    ASSUME NEW s, NEW n, NEW k, NEW sc, NextLine(s, n, k, sc),
           NEW line, line = sc.line \o SubSeq(s, n + 1, k - 1), line # <<>>,
           NEW r, r.line = <<>>, r.pending = Joined(sc.pending, line),
           r.bytes = sc.bytes + (k - n), r.outcome = sc.outcome
    PROVE  ScanAt(s, k, r)
<1>0. /\ s \in Seq(Bytes) /\ n \in 0..Len(s) /\ k \in (n + 1)..Len(s) /\ ScanAt(s, n, sc)
  BY DEF NextLine
<1>1. PICK b : b = Previous(s, n + 1)
  OBVIOUS
<1>2. /\ LineAt(s, k) = line /\ LineAt(s, k + 1) = <<>> /\ Previous(s, k) = b
      /\ DataUpTo(s, b, k) = Joined(sc.pending, LineAt(s, k))
      /\ Cost(s, b, k) = sc.bytes + (k - n)
  <2>1. LineFound(s, n, k, sc, Previous(s, n + 1))
    BY AtLine
  <2>2. LineFound(s, n, k, sc, b)
    BY <1>1, <2>1
  <2> QED
    BY <2>2 DEF LineFound
<1>3. k \notin BlankLines(s) /\ \A i \in BlankLines(s) : i \in Nat
  BY <1>0, <1>2, LineEndFacts DEF BlankLines
<1>4. k \in Nat /\ k > 0 /\ k + 1 \in Nat /\ k <= k + 1
  BY <1>0
<1>5. \A i \in BlankLines(s) : ~(k <= i /\ i < k + 1)
  BY <1>3, <1>4
<1>6. Previous(s, k + 1) = b
  BY <1>0, <1>2, <1>4, <1>5, PreviousSame
<1>7. sc.outcome = Tally(s, ClosedBy(s, b)) /\ Fits(s, b)
  BY <1>0, <1>1 DEF ScanAt
<1> QED
  BY <1>2, <1>6, <1>7 DEF ScanAt

\* A blank line ends the event, which fits.
LEMMA AtBlank ==
    ASSUME NEW s, NEW n, NEW k, NEW sc, NextLine(s, n, k, sc),
           sc.line \o SubSeq(s, n + 1, k - 1) = <<>>, sc.bytes + (k - n) <= MaxEventBytes,
           NEW r, r.line = <<>>, r.pending = <<>>, r.bytes = 0,
           r.outcome = Reckoned(sc.outcome, sc.pending)
    PROVE  ScanAt(s, k, r)
<1>0. /\ s \in Seq(Bytes) /\ n \in 0..Len(s) /\ k \in (n + 1)..Len(s) /\ ScanAt(s, n, sc)
  BY DEF NextLine
<1>1. PICK b : b = Previous(s, n + 1)
  OBVIOUS
<1>2. /\ LineAt(s, k) = <<>> /\ LineAt(s, k + 1) = <<>> /\ Previous(s, k) = b
      /\ DataUpTo(s, b, k - 1) = sc.pending /\ k \in LineEnds(s)
      /\ Cost(s, b, k) = sc.bytes + (k - n)
  <2>1. LineFound(s, n, k, sc, Previous(s, n + 1))
    BY AtLine
  <2>2. LineFound(s, n, k, sc, b)
    BY <1>1, <2>1
  <2> QED
    BY <2>2 DEF LineFound
<1>3. k \in BlankLines(s)
  BY <1>2 DEF BlankLines
<1>4. /\ b \in Nat /\ b <= n
      /\ \A i \in BlankLines(s) : i \in Nat /\ (i <= n => i <= b)
  BY <1>0, <1>1, OpenEvent
<1>5. Len(s) \in Nat /\ n \in Nat /\ k \in Nat /\ k > 0 /\ k + 1 \in Nat /\ k < k + 1 /\ n < k
  BY <1>0
<1>6. \A i \in BlankLines(s) : i < k + 1 => i <= k
  BY <1>4, <1>5
<1>7. Previous(s, k + 1) = k
  BY <1>3, <1>5, <1>6, <1>0, PreviousIs
<1>8. \A i \in BlankLines(s) : i < k => i <= b
  BY <1>2, <1>5, <1>0, PreviousFacts
<1>9. ClosedBy(s, k) = ClosedBy(s, b) \cup {k}
  <2>1. ASSUME NEW e \in BlankLines(s) PROVE e <= k <=> (e <= b \/ e = k)
    BY <1>4, <1>5, <1>8
  <2> QED
    BY <1>3, <2>1 DEF ClosedBy
<1>10. PayloadOf(s, k) = sc.pending
  BY <1>2, JoinedNothing DEF PayloadOf
<1>11. sc.outcome = Tally(s, ClosedBy(s, b)) /\ Fits(s, b)
  BY <1>0, <1>1 DEF ScanAt
<1>12. r.outcome = Tally(s, ClosedBy(s, k))
  <2>1. ClosedBy(s, b) \subseteq Nat /\ IsFiniteSet(ClosedBy(s, b))
    BY <1>0, ClosedFacts
  <2>2. \A e \in ClosedBy(s, b) : e < k
    BY <1>4, <1>5 DEF ClosedBy
  <2>3. Tally(s, ClosedBy(s, b) \cup {k}) = Reckoned(Tally(s, ClosedBy(s, b)), PayloadOf(s, k))
    BY <1>5, <2>1, <2>2, TallyAdd
  <2> QED
    BY <1>9, <1>10, <1>11, <2>3
<1>13. Fits(s, k)
  BY <1>2, <1>9, <1>11 DEF Fits
<1>14. DataUpTo(s, k, k) = <<>> /\ Cost(s, k, k) = 0
  <2>1. k \in Nat /\ k <= k
    BY <1>5
  <2>2. DataUpTo(s, k, k) = <<>>
    BY <2>1, DataStarts
  <2>3. Cost(s, k, k) = 0
    BY <2>1, CostFacts
  <2> QED
    BY <2>2, <2>3
<1> QED
  BY <1>2, <1>7, <1>12, <1>13, <1>14 DEF ScanAt

\* The body ends here: an open line and an open event still count.
LEMMA AtEnd ==
    ASSUME NEW s \in Seq(Bytes), NEW n \in 0..Len(s), NEW sc, ScanAt(s, n, sc),
           sc.bytes <= MaxEventBytes
    PROVE  Reading(s, n) = Reckoned(sc.outcome, Joined(sc.pending, sc.line))
<1>1. PICK b : b = Previous(s, n + 1)
  OBVIOUS
<1>2. /\ sc.line = LineAt(s, n + 1) /\ sc.pending = DataUpTo(s, b, n)
      /\ sc.bytes = Cost(s, b, n) /\ sc.outcome = Tally(s, ClosedBy(s, b)) /\ Fits(s, b)
  BY <1>1 DEF ScanAt
<1>3. Len(s) \in Nat /\ n \in Nat /\ n + 1 \in Nat /\ n + 1 - 1 = n
  OBVIOUS
<1>4. b \in Nat /\ b <= n
  BY <1>1, OpenEvent
<1>5. Reading(s, n) = Tally(s, ClosedBy(s, b) \cup {n + 1})
  BY <1>1, <1>2, FullReading
<1>6. PayloadOf(s, n + 1) = Joined(sc.pending, sc.line)
  BY <1>1, <1>2, <1>3 DEF PayloadOf
<1>7. ClosedBy(s, b) \subseteq Nat /\ IsFiniteSet(ClosedBy(s, b))
  BY ClosedFacts
<1>8. \A e \in ClosedBy(s, b) : e < n + 1
  BY <1>3, <1>4, <1>7 DEF ClosedBy
<1>9. Tally(s, ClosedBy(s, b) \cup {n + 1})
        = Reckoned(Tally(s, ClosedBy(s, b)), PayloadOf(s, n + 1))
  BY <1>3, <1>7, <1>8, TallyAdd
<1> QED
  BY <1>2, <1>5, <1>6, <1>9

-----------------------------------------------------------------------------
(* What the scanner's functions make of it. *)

LEMMA FlushSays ==
    ASSUME NEW s \in ScannerType
    PROVE  /\ FlushEvent(s).outcome = Reckoned(s.outcome, s.pending)
           /\ FlushEvent(s).afterCr = s.afterCr
<1>1. PICK o : o = Reckoned(s.outcome, s.pending)
  OBVIOUS
<1>2. FlushEvent(s) = [s EXCEPT !.pending = <<>>, !.outcome = o]
  BY <1>1 DEF FlushEvent, Reckoned
<1>3. PICK r : r = [s EXCEPT !.pending = <<>>, !.outcome = o]
  OBVIOUS
<1>4. r.outcome = o /\ r.afterCr = s.afterCr
  BY <1>3 DEF ScannerType
<1> QED
  BY <1>1, <1>2, <1>3, <1>4

LEMMA AbsorbBlank ==
    ASSUME NEW s \in ScannerType, s.line = <<>>
    PROVE  LET r == AbsorbLine(s, <<>>)
           IN /\ r.line = <<>> /\ r.pending = <<>> /\ r.bytes = 0 /\ r.afterCr = s.afterCr
              /\ r.outcome = Reckoned(s.outcome, s.pending)
<1>1. PICK f : f = FlushEvent(s)
  OBVIOUS
<1>2. /\ f \in ScannerType /\ f.line = <<>> /\ f.pending = <<>> /\ f.afterCr = s.afterCr
      /\ f.outcome = Reckoned(s.outcome, s.pending)
  BY <1>1, FlushFacts, FlushSays
<1>3. PICK r : r = [f EXCEPT !.bytes = 0]
  OBVIOUS
<1>4. AbsorbLine(s, <<>>) = r
  BY <1>1, <1>3 DEF AbsorbLine
<1>5. /\ r.line = f.line /\ r.pending = f.pending /\ r.bytes = 0 /\ r.afterCr = f.afterCr
      /\ r.outcome = f.outcome
  BY <1>2, <1>3 DEF ScannerType
<1> QED
  BY <1>2, <1>4, <1>5

LEMMA AbsorbData ==
    ASSUME NEW s \in ScannerType, NEW line, line # <<>>
    PROVE  LET r == AbsorbLine(s, line)
           IN /\ r.line = s.line /\ r.pending = Joined(s.pending, line) /\ r.bytes = s.bytes
              /\ r.afterCr = s.afterCr /\ r.outcome = s.outcome
<1>1. CASE ~IsPrefix(Field, line)
  BY <1>1 DEF AbsorbLine, Joined
<1>2. CASE IsPrefix(Field, line)
  <2>1. PICK p : p = Joined(s.pending, line)
    OBVIOUS
  <2>2. PICK r : r = [s EXCEPT !.pending = p]
    OBVIOUS
  <2>3. AbsorbLine(s, line) = r
    BY <1>2, <2>1, <2>2 DEF AbsorbLine, Joined
  <2>4. /\ r.line = s.line /\ r.pending = p /\ r.bytes = s.bytes
        /\ r.afterCr = s.afterCr /\ r.outcome = s.outcome
    BY <2>2 DEF ScannerType
  <2> QED
    BY <2>1, <2>3, <2>4
<1> QED
  BY <1>1, <1>2

LEMMA TruncateSays ==
    ASSUME NEW s \in ScannerType
    PROVE  Truncate(s).outcome = Cut(s.outcome) /\ Truncate(s).outcome.truncated
<1>1. PICK o : o = Cut(s.outcome)
  OBVIOUS
<1>2. s.outcome \in OutcomeType
  BY DEF ScannerType
<1>3. o.truncated
  BY <1>1, <1>2 DEF Cut, OutcomeType
<1>4. PICK r : r = [Fresh EXCEPT !.outcome = o]
  OBVIOUS
<1>5. Truncate(s) = r
  BY <1>1, <1>4 DEF Truncate, Cut
<1>6. r.outcome = o
  BY <1>4, FreshFacts DEF ScannerType
<1> QED
  BY <1>1, <1>3, <1>5, <1>6

LEMMA ReserveSays ==
    ASSUME NEW s \in ScannerType, NEW n \in Nat
    PROVE  LET r == Reserve(s, n)
           IN r \in ScannerType /\ r.outcome = s.outcome /\ r.afterCr = s.afterCr
<1>1. s.bytes + n \in Nat
  BY DEF ScannerType
<1> QED
  BY <1>1 DEF Reserve, ScannerType

LEMMA HeldSays ==
    ASSUME NEW s \in ScannerType, NEW n \in Nat, NEW l
    PROVE  /\ [Reserve(s, n) EXCEPT !.line = l].outcome = s.outcome
           /\ [Reserve(s, n) EXCEPT !.line = l].afterCr = s.afterCr
<1>1. PICK r : r = Reserve(s, n)
  OBVIOUS
<1>2. r \in ScannerType /\ r.outcome = s.outcome /\ r.afterCr = s.afterCr
  BY <1>1, ReserveSays
<1>3. [r EXCEPT !.line = l].outcome = r.outcome /\ [r EXCEPT !.line = l].afterCr = r.afterCr
  BY <1>2 DEF ScannerType
<1> QED
  BY <1>1, <1>2, <1>3

LEMMA PaidSays ==
    ASSUME NEW s \in ScannerType, NEW n \in Nat, NEW b
    PROVE  LET r == [Reserve(s, n) EXCEPT !.line = <<>>, !.afterCr = b]
           IN r.outcome = s.outcome /\ r.afterCr = b
<1>1. PICK r : r = Reserve(s, n)
  OBVIOUS
<1>2. r \in ScannerType /\ r.outcome = s.outcome
  BY <1>1, ReserveSays
<1>3. PICK q : q = [r EXCEPT !.line = <<>>, !.afterCr = b]
  OBVIOUS
<1>4. q.outcome = r.outcome /\ q.afterCr = b
  BY <1>2, <1>3 DEF ScannerType
<1> QED
  BY <1>1, <1>2, <1>3, <1>4

-----------------------------------------------------------------------------
(* The scan as a whole: a scanner that was not cut off stands at some n, and what  *)
(* it has not scanned is the rest.                                                 *)

\* A CR was the last byte scanned exactly when the scanner remembers it, until the
\* byte after it is known to be no LF.
CrSeen(s, n, m, cr) ==
    /\ cr => n >= 1 /\ s[n] = "cr"
    /\ n >= 1 /\ s[n] = "cr" /\ ~cr => n < m /\ s[n + 1] # "lf"

Standing(s, m, t, sc) ==
    \E n \in 0..m : /\ t = SubSeq(s, n + 1, m) /\ ScanAt(s, n, sc)
                    /\ CrSeen(s, n, m, sc.afterCr)

ChunkInv ==
    /\ ScanInv /\ fed <= Len(stream)
    /\ finished \/ scanner.outcome.truncated => rest = <<>>
    /\ finished => scanner.outcome = Reading(stream, fed)
    /\ ~finished /\ scanner.outcome.truncated => CutAt(stream, fed, scanner.outcome)
    /\ ~finished /\ ~scanner.outcome.truncated => Standing(stream, fed, rest, scanner)

\* With nothing left, the scanner stands where the bytes end.
LEMMA AllScanned ==
    ASSUME NEW s \in Seq(Bytes), NEW m \in 0..Len(s), NEW sc, Standing(s, m, <<>>, sc)
    PROVE  ScanAt(s, m, sc) /\ CrSeen(s, m, m, sc.afterCr)
<1>1. PICK n \in 0..m : /\ <<>> = SubSeq(s, n + 1, m) /\ ScanAt(s, n, sc)
                        /\ CrSeen(s, n, m, sc.afterCr)
  BY DEF Standing
<1>2. Len(s) \in Nat /\ n \in 0..Len(s) /\ m \in n..Len(s) /\ n \in Nat /\ m \in Nat
  OBVIOUS
<1>3. Len(SubSeq(s, n + 1, m)) = m - n
  BY <1>2, SliceAt
<1>4. m - n = 0
  BY <1>1, <1>3
<1>5. m = n
  BY <1>2, <1>4
<1> QED
  BY <1>1, <1>5

\* What ScanAt says of a scanner does not depend on the CR it remembers.
LEMMA AtWithout ==
    ASSUME NEW s, NEW n, NEW sc, NEW r, ScanAt(s, n, sc), r.line = sc.line,
           r.pending = sc.pending, r.bytes = sc.bytes, r.outcome = sc.outcome
    PROVE  ScanAt(s, n, r)
BY DEF ScanAt

\* Before the body ends and while nothing was cut off.
LEMMA StandingNow ==
    ASSUME ChunkInv, rest # <<>>
    PROVE  ~finished /\ ~scanner.outcome.truncated /\ Standing(stream, fed, rest, scanner)
BY DEF ChunkInv

LEMMA ChunkTypes ==
    ASSUME ChunkInv
    PROVE  /\ stream \in Seq(Bytes) /\ Len(stream) \in Nat /\ fed \in Nat /\ fed \in 0..Len(stream)
           /\ rest \in Seq(Bytes) /\ scanner \in ScannerType
           /\ scanner.bytes \in Nat /\ scanner.bytes <= MaxEventBytes
<1>1. ScanInv /\ fed <= Len(stream)
  BY DEF ChunkInv
<1>2. stream \in Seq(Bytes) /\ fed \in Nat /\ rest \in Seq(Bytes) /\ scanner \in ScannerType
  BY <1>1 DEF ScanInv, ScanShapes
<1>3. Len(stream) \in Nat
  BY <1>2
<1>4. fed \in 0..Len(stream)
  BY <1>1, <1>2, <1>3
<1>5. scanner.bytes \in Nat /\ scanner.bytes <= MaxEventBytes
  BY <1>1, <1>2 DEF ScanInv, Paid, ScannerType
<1> QED
  BY <1>2, <1>3, <1>4, <1>5

LEMMA ChunkInit == ScanInit => ChunkInv
<1> SUFFICES ASSUME ScanInit PROVE ChunkInv
  OBVIOUS
<1>1. ScanInv
  BY ScanInitHolds
<1>2. /\ fed = 0 /\ rest = <<>> /\ scanner = Fresh /\ finished = FALSE /\ stream \in Seq(Bytes)
      /\ Len(stream) \in Nat /\ 0 \in 0..Len(stream)
  BY <1>1 DEF ScanInit, ScanInv, ScanShapes
<1>3. Previous(stream, 0 + 1) = 0
  <2>1. BlankLines(stream) \subseteq 1..Len(stream)
    BY <1>2, LineEndFacts
  <2>2. \A i \in BlankLines(stream) : i < 1 => i <= 0
    BY <1>2, <2>1
  <2>3. Previous(stream, 1) = 0
    BY <1>2, <2>2, PreviousIs
  <2> QED
    BY <2>3
<1>4. ClosedBy(stream, 0) = {}
  <2>1. BlankLines(stream) \subseteq 1..Len(stream)
    BY <1>2, LineEndFacts
  <2> QED
    BY <1>2, <2>1 DEF ClosedBy
<1>5. Tally(stream, ClosedBy(stream, 0)) = NoOutcome /\ Fits(stream, 0)
  BY <1>4, TallyEmpty DEF Fits
<1>6. LineAt(stream, 0 + 1) = <<>>
  BY <1>2, LineEmpty
<1>7. DataUpTo(stream, 0, 0) = <<>> /\ Cost(stream, 0, 0) = 0
  <2>1. 0 \in Nat /\ 0 <= 0
    OBVIOUS
  <2>2. DataUpTo(stream, 0, 0) = <<>>
    BY <2>1, DataStarts
  <2>3. Cost(stream, 0, 0) = 0
    BY <2>1, CostFacts
  <2> QED
    BY <2>2, <2>3
<1>8. ScanAt(stream, 0, Fresh)
  BY <1>3, <1>5, <1>6, <1>7, FreshFacts DEF ScanAt
<1>9. CrSeen(stream, 0, 0, Fresh.afterCr)
  BY DEF CrSeen, Fresh
<1>10. <<>> = SubSeq(stream, 0 + 1, 0)
  <2>1. SubSeq(stream, 0 + 1, 0) \in Seq(Bytes) /\ Len(SubSeq(stream, 0 + 1, 0)) = 0 - 0
    BY <1>2, SliceAt
  <2> QED
    BY <2>1, EmptySeq
<1>11. Standing(stream, 0, <<>>, Fresh)
  BY <1>8, <1>9, <1>10 DEF Standing
<1>12. ~Fresh.outcome.truncated
  BY DEF Fresh, NoOutcome
<1> QED
  BY <1>1, <1>2, <1>11, <1>12 DEF ChunkInv

LEMMA FeedStands ==
    ASSUME ChunkInv, NEW n \in 1..Len(stream), Feed(n) PROVE ChunkInv'
<1>1. /\ ~finished /\ rest = <<>> /\ fed + n <= Len(stream) /\ fed' = fed + n
      /\ rest' = IF scanner.outcome.truncated THEN <<>> ELSE SubSeq(stream, fed + 1, fed + n)
      /\ UNCHANGED <<stream, scanner, finished>>
  BY DEF Feed
<1>2. ScanInv'
  BY FeedKeeps DEF ChunkInv
<1>3. /\ stream \in Seq(Bytes) /\ Len(stream) \in Nat /\ fed \in Nat /\ fed \in 0..Len(stream)
  BY ChunkTypes
<1>4. PICK m : m = fed + n
  OBVIOUS
<1>5. m \in Nat /\ m \in 0..Len(stream) /\ fed <= m /\ fed < m /\ fed \in 0..m
  BY <1>1, <1>3, <1>4
<1>6. CASE scanner.outcome.truncated
  <2>1. CutAt(stream, fed, scanner.outcome)
    BY <1>1, <1>6 DEF ChunkInv
  <2>2. PICK b \in {0} \cup BlankLines(stream), k \in 0..fed :
            /\ b <= k /\ \A i \in BlankLines(stream) : ~(b < i /\ i < k)
            /\ Fits(stream, b) /\ Cost(stream, b, k) > MaxEventBytes
            /\ scanner.outcome = Cut(Tally(stream, ClosedBy(stream, b)))
    BY <2>1 DEF CutAt
  <2>3. k \in 0..m
    BY <1>3, <1>5
  <2>4. CutAt(stream, m, scanner.outcome)
    BY <2>2, <2>3 DEF CutAt
  <2> QED
    BY <1>1, <1>2, <1>4, <1>6, <2>4 DEF ChunkInv
<1>7. CASE ~scanner.outcome.truncated
  <2>1. Standing(stream, fed, <<>>, scanner)
    BY <1>1, <1>7 DEF ChunkInv
  <2>2. ScanAt(stream, fed, scanner) /\ CrSeen(stream, fed, fed, scanner.afterCr)
    BY <1>3, <2>1, AllScanned
  <2>3. CrSeen(stream, fed, m, scanner.afterCr)
    BY <1>3, <2>2 DEF CrSeen
  <2>4. Standing(stream, m, SubSeq(stream, fed + 1, m), scanner)
    BY <1>5, <2>2, <2>3 DEF Standing
  <2>5. rest' = SubSeq(stream, fed + 1, m)
    BY <1>1, <1>4, <1>7
  <2> QED
    BY <1>1, <1>2, <1>4, <1>7, <2>4, <2>5 DEF ChunkInv
<1> QED
  BY <1>6, <1>7

\* What is left, position by position of the body.
LEMMA LeftFacts ==
    ASSUME NEW s \in Seq(Bytes), NEW m \in 0..Len(s), NEW n \in 0..m, NEW t,
           t = SubSeq(s, n + 1, m)
    PROVE  /\ t \in Seq(Bytes) /\ Len(t) = m - n /\ Len(t) \in Nat
           /\ \A j \in 1..(m - n) : t[j] = s[n + j]
<1>1. Len(s) \in Nat /\ n \in 0..Len(s) /\ m \in n..Len(s) /\ m - n \in Nat
  OBVIOUS
<1>2. /\ SubSeq(s, n + 1, m) \in Seq(Bytes) /\ Len(SubSeq(s, n + 1, m)) = m - n
      /\ \A j \in 1..(m - n) : SubSeq(s, n + 1, m)[j] = s[n + j]
  BY <1>1, SliceAt
<1> QED
  BY <1>1, <1>2

\* A part of what is left is a part of the body.
LEMMA PartLeft ==
    ASSUME NEW s \in Seq(Bytes), NEW m \in 0..Len(s), NEW n \in 0..m, NEW t,
           t = SubSeq(s, n + 1, m), NEW i \in 0..(m - n), NEW j \in i..(m - n)
    PROVE  SubSeq(t, i + 1, j) = SubSeq(s, n + i + 1, n + j)
<1>1. /\ t \in Seq(Bytes) /\ Len(t) = m - n /\ Len(t) \in Nat
      /\ \A x \in 1..(m - n) : t[x] = s[n + x]
  BY LeftFacts
<1>2. /\ Len(s) \in Nat /\ i \in 0..Len(t) /\ j \in i..Len(t) /\ n + i \in 0..Len(s)
      /\ n + j \in (n + i)..Len(s) /\ j - i \in Nat /\ (n + j) - (n + i) = j - i
  BY <1>1
<1>3. PICK u : u = SubSeq(t, i + 1, j)
  OBVIOUS
<1>4. PICK v : v = SubSeq(s, n + i + 1, n + j)
  OBVIOUS
<1>5. u \in Seq(Bytes) /\ Len(u) = j - i /\ \A x \in 1..(j - i) : u[x] = t[i + x]
  BY <1>1, <1>2, <1>3, SliceAt
<1>6. v \in Seq(Bytes) /\ Len(v) = j - i /\ \A x \in 1..(j - i) : v[x] = s[n + i + x]
  <2>1. /\ v \in Seq(Bytes) /\ Len(v) = (n + j) - (n + i)
        /\ \A x \in 1..((n + j) - (n + i)) : v[x] = s[n + i + x]
    BY <1>2, <1>4, SliceAt
  <2> QED
    BY <1>2, <2>1
<1>7. \A x \in 1..(j - i) : u[x] = v[x]
  <2> SUFFICES ASSUME NEW x \in 1..(j - i) PROVE u[x] = v[x]
    OBVIOUS
  <2>1. i + x \in 1..(m - n) /\ n + (i + x) = n + i + x
    BY <1>2
  <2> QED
    BY <1>1, <1>5, <1>6, <2>1
<1>8. u = v
  BY <1>5, <1>6, <1>7, SeqEqual
<1> QED
  BY <1>3, <1>4, <1>8

LEMMA AfterCrStands ==
    ASSUME ChunkInv, AfterCr PROVE ChunkInv'
<1>1. /\ rest # <<>> /\ scanner.afterCr /\ scanner' = [scanner EXCEPT !.afterCr = FALSE]
      /\ rest' = IF Head(rest) = "lf" THEN Tail(rest) ELSE rest
      /\ UNCHANGED <<stream, fed, finished>>
  BY DEF AfterCr
<1>2. ScanInv'
  BY AfterCrKeeps DEF ChunkInv
<1>3. /\ stream \in Seq(Bytes) /\ Len(stream) \in Nat /\ fed \in Nat /\ fed \in 0..Len(stream)
      /\ rest \in Seq(Bytes) /\ scanner \in ScannerType
  BY ChunkTypes
<1>4. ~finished /\ ~scanner.outcome.truncated /\ Standing(stream, fed, rest, scanner)
  BY <1>1, StandingNow
<1>5. PICK n \in 0..fed : /\ rest = SubSeq(stream, n + 1, fed) /\ ScanAt(stream, n, scanner)
                          /\ CrSeen(stream, n, fed, scanner.afterCr)
  BY <1>4 DEF Standing
<1>6. /\ Len(rest) = fed - n /\ Len(rest) \in Nat
      /\ \A j \in 1..(fed - n) : rest[j] = stream[n + j]
  BY <1>3, <1>5, LeftFacts
<1>7. n < fed /\ n >= 1 /\ stream[n] = "cr"
  <2>1. Len(rest) # 0
    BY <1>1, <1>3, EmptySeq
  <2>2. n < fed
    BY <1>3, <1>6, <2>1
  <2> QED
    BY <1>1, <1>5, <2>2 DEF CrSeen
<1>8. PICK r : r = scanner'
  OBVIOUS
<1>9. /\ r.line = scanner.line /\ r.pending = scanner.pending /\ r.bytes = scanner.bytes
      /\ r.outcome = scanner.outcome /\ r.afterCr = FALSE
  BY <1>1, <1>3, <1>8 DEF ScannerType
<1>10. Head(rest) = stream[n + 1]
  <2>1. 1 \in 1..(fed - n)
    BY <1>3, <1>7
  <2>2. rest[1] = stream[n + 1]
    BY <1>6, <2>1
  <2> QED
    BY <1>1, <1>3, <2>2, HeadTailProperties
<1>11. CASE stream[n + 1] = "lf"
  <2>1. n \in 1..Len(stream) /\ n + 1 <= Len(stream) /\ n + 1 \in 0..fed /\ n + 1 >= 1
    BY <1>3, <1>7
  <2>2. ScanAt(stream, n + 1, scanner)
    BY <1>3, <1>5, <1>7, <1>11, <2>1, AtSkip
  <2>3. ScanAt(stream, n + 1, r)
    BY <1>9, <2>2, AtWithout
  <2>4. rest' = SubSeq(stream, n + 1 + 1, fed)
    <3>1. rest' = Tail(rest)
      BY <1>1, <1>10, <1>11
    <3>2. Tail(rest) = SubSeq(rest, 2, Len(rest))
      BY <1>3
    <3>3. 1 \in 0..(fed - n) /\ fed - n \in 1..(fed - n) /\ n + (fed - n) = fed
      BY <1>3, <1>7
    <3>4. SubSeq(rest, 1 + 1, fed - n) = SubSeq(stream, n + 1 + 1, n + (fed - n))
      BY <1>3, <1>5, <3>3, PartLeft
    <3>5. 1 + 1 = 2
      OBVIOUS
    <3> QED
      BY <1>6, <3>1, <3>2, <3>3, <3>4, <3>5
  <2>5. CrSeen(stream, n + 1, fed, r.afterCr)
    BY <1>9, <1>11 DEF CrSeen
  <2>6. Standing(stream, fed, rest', r)
    BY <2>1, <2>3, <2>4, <2>5 DEF Standing
  <2> QED
    BY <1>1, <1>2, <1>3, <1>4, <1>8, <1>9, <2>6 DEF ChunkInv
<1>12. CASE stream[n + 1] # "lf"
  <2>1. ScanAt(stream, n, r)
    BY <1>5, <1>9, AtWithout
  <2>2. CrSeen(stream, n, fed, r.afterCr)
    BY <1>7, <1>9, <1>12 DEF CrSeen
  <2>3. rest' = SubSeq(stream, n + 1, fed)
    BY <1>1, <1>5, <1>10, <1>12
  <2>4. Standing(stream, fed, rest', r)
    BY <2>1, <2>2, <2>3 DEF Standing
  <2> QED
    BY <1>1, <1>2, <1>3, <1>4, <1>8, <1>9, <2>4 DEF ChunkInv
<1> QED
  BY <1>11, <1>12

\* An event that is cut off.
LEMMA CutStands ==
    ASSUME ChunkInv, ScanInv', ~finished, UNCHANGED <<stream, fed, finished>>,
           scanner' = Truncate(scanner), rest' = <<>>,
           CutAt(stream, fed, Cut(scanner.outcome))
    PROVE  ChunkInv'
<1>1. scanner \in ScannerType /\ fed \in 0..Len(stream) /\ Len(stream) \in Nat
  BY ChunkTypes
<1>2. scanner'.outcome = Cut(scanner.outcome) /\ scanner'.outcome.truncated
  BY <1>1, TruncateSays
<1> QED
  BY <1>1, <1>2 DEF ChunkInv

LEMMA HoldTailStands ==
    ASSUME ChunkInv, HoldTail PROVE ChunkInv'
<1>1. /\ rest # <<>> /\ ~scanner.afterCr /\ Breaks = {}
      /\ scanner' = IF Exceeds(scanner, Len(rest)) THEN Truncate(scanner)
                    ELSE [Reserve(scanner, Len(rest)) EXCEPT !.line = @ \o rest]
      /\ rest' = <<>> /\ UNCHANGED <<stream, fed, finished>>
  BY DEF HoldTail, Scanning
<1>2. ScanInv'
  BY HoldTailKeeps DEF ChunkInv
<1>3. /\ stream \in Seq(Bytes) /\ Len(stream) \in Nat /\ fed \in Nat /\ fed \in 0..Len(stream)
      /\ rest \in Seq(Bytes) /\ scanner \in ScannerType /\ scanner.bytes \in Nat
  BY ChunkTypes
<1>4. ~finished /\ ~scanner.outcome.truncated /\ Standing(stream, fed, rest, scanner)
  BY <1>1, StandingNow
<1>5. PICK n \in 0..fed : /\ rest = SubSeq(stream, n + 1, fed) /\ ScanAt(stream, n, scanner)
                          /\ CrSeen(stream, n, fed, scanner.afterCr)
  BY <1>4 DEF Standing
<1>6. /\ Len(rest) = fed - n /\ Len(rest) \in Nat
      /\ \A j \in 1..(fed - n) : rest[j] = stream[n + j]
  BY <1>3, <1>5, LeftFacts
<1>7. n \in 0..Len(stream) /\ fed \in n..Len(stream) /\ n \in Nat /\ n < fed
  <2>1. Len(rest) # 0
    BY <1>1, <1>3, EmptySeq
  <2> QED
    BY <1>3, <1>6, <2>1
<1>8. Plain(stream, n, fed)
  <2> SUFFICES ASSUME NEW j \in (n + 1)..fed PROVE stream[j] \notin Terminators
    BY DEF Plain
  <2>1. j - n \in 1..(fed - n) /\ n + (j - n) = j
    BY <1>3, <1>7
  <2>2. j - n \in DOMAIN rest /\ rest[j - n] = stream[j]
    BY <1>3, <1>6, <2>1
  <2> QED
    BY <1>1, <2>2 DEF Breaks
<1>9. CASE Exceeds(scanner, Len(rest))
  <2>1. \A i \in (n + 1)..fed : ~Skipped(stream, i) /\ (i < fed => i \notin BlankLines(stream))
    BY <1>3, <1>7, <1>8, PlainFacts
  <2>2. scanner.bytes + (fed - n) > MaxEventBytes
    BY <1>6, <1>9 DEF Exceeds
  <2>3. fed \in fed..Len(stream)
    BY <1>3
  <2>4. CutAt(stream, fed, Cut(scanner.outcome))
    BY <1>3, <1>5, <1>7, <2>1, <2>2, <2>3, AtCut
  <2> QED
    BY <1>1, <1>2, <1>4, <1>9, <2>4, CutStands
<1>10. CASE ~Exceeds(scanner, Len(rest))
  <2>1. PICK l : l = scanner.line \o rest
    OBVIOUS
  <2>2. l \in Seq(Bytes)
    BY <1>3, <2>1, ConcatProperties DEF ScannerType
  <2>3. PICK r : r = scanner'
    OBVIOUS
  <2>4. r = [Reserve(scanner, Len(rest)) EXCEPT !.line = l]
    <3>1. PICK q : q = Reserve(scanner, Len(rest))
      OBVIOUS
    <3>2. q.line = scanner.line
      BY <1>3, <1>6, <2>2, <3>1, HeldRecord
    <3>3. r = [q EXCEPT !.line = q.line \o rest]
      BY <1>1, <1>10, <2>3, <3>1
    <3> QED
      BY <2>1, <3>1, <3>2, <3>3
  <2>5. /\ r.line = l /\ r.pending = scanner.pending /\ r.bytes = scanner.bytes + Len(rest)
    BY <1>3, <1>6, <2>2, <2>4, HeldRecord
  <2>6. r.outcome = scanner.outcome /\ r.afterCr = scanner.afterCr
    BY <1>3, <1>6, <2>2, <2>4, HeldSays
  <2>7. /\ r.line = scanner.line \o SubSeq(stream, n + 1, fed)
        /\ r.bytes = scanner.bytes + (fed - n)
    BY <1>5, <1>6, <2>1, <2>5
  <2>8. ScanAt(stream, fed, r)
    <3>1. stream \in Seq(Bytes) /\ ScanAt(stream, n, scanner)
      BY <1>3, <1>5
    <3>2. n \in 0..Len(stream) /\ fed \in n..Len(stream)
      BY <1>7
    <3>3. r.pending = scanner.pending /\ r.outcome = scanner.outcome
      BY <2>5, <2>6
    <3> QED
      BY <1>8, <2>7, <3>1, <3>2, <3>3, AtHold
  <2>9. CrSeen(stream, fed, fed, r.afterCr)
    <3>1. fed \in (n + 1)..fed
      BY <1>3, <1>7
    <3>2. stream[fed] # "cr"
      BY <1>8, <3>1 DEF Plain, Terminators
    <3> QED
      BY <1>1, <2>6, <3>2 DEF CrSeen
  <2>10. <<>> = SubSeq(stream, fed + 1, fed)
    <3>1. fed \in fed..Len(stream)
      BY <1>3
    <3>2. SubSeq(stream, fed + 1, fed) \in Seq(Bytes) /\ Len(SubSeq(stream, fed + 1, fed)) = fed - fed
      BY <1>3, <3>1, SliceAt
    <3>3. fed - fed = 0
      BY <1>3
    <3> QED
      BY <3>2, <3>3, EmptySeq
  <2>11. fed \in 0..fed
    BY <1>3
  <2>12. Standing(stream, fed, <<>>, r)
    BY <2>8, <2>9, <2>10, <2>11 DEF Standing
  <2> QED
    BY <1>1, <1>2, <1>3, <1>4, <2>3, <2>6, <2>12 DEF ChunkInv
<1> QED
  BY <1>9, <1>10

LEMMA TakeLineStands ==
    ASSUME ChunkInv, TakeLine PROVE ChunkInv'
<1>1. PICK idx : idx = Min(Breaks)
  OBVIOUS
<1>2. PICK line : line = scanner.line \o SubSeq(rest, 1, idx - 1)
  OBVIOUS
<1>3. PICK cr : cr = (rest[idx] = "cr")
  OBVIOUS
<1>4. PICK paid : paid = [Reserve(scanner, idx) EXCEPT !.line = <<>>, !.afterCr = cr]
  OBVIOUS
<1>5. /\ rest # <<>> /\ ~scanner.afterCr /\ Breaks # {} /\ UNCHANGED <<stream, fed, finished>>
      /\ IF Exceeds(scanner, idx) THEN scanner' = Truncate(scanner) /\ rest' = <<>>
         ELSE scanner' = AbsorbLine(paid, line) /\ rest' = SubSeq(rest, idx + 1, Len(rest))
  BY <1>1, <1>2, <1>3, <1>4 DEF TakeLine, Scanning
<1>6. ScanInv'
  BY TakeLineKeeps DEF ChunkInv
<1>7. /\ stream \in Seq(Bytes) /\ Len(stream) \in Nat /\ fed \in Nat /\ fed \in 0..Len(stream)
      /\ rest \in Seq(Bytes) /\ scanner \in ScannerType /\ scanner.bytes \in Nat
  BY ChunkTypes
<1>8. ~finished /\ ~scanner.outcome.truncated /\ Standing(stream, fed, rest, scanner)
  BY <1>5, StandingNow
<1>9. PICK n \in 0..fed : /\ rest = SubSeq(stream, n + 1, fed) /\ ScanAt(stream, n, scanner)
                          /\ CrSeen(stream, n, fed, scanner.afterCr)
  BY <1>8 DEF Standing
<1>10. /\ Len(rest) = fed - n /\ Len(rest) \in Nat
       /\ \A j \in 1..(fed - n) : rest[j] = stream[n + j]
  BY <1>7, <1>9, LeftFacts
<1>11. /\ idx \in 1..Len(rest) /\ rest[idx] \in Terminators
       /\ \A i \in 1..(idx - 1) : rest[i] \notin Terminators
  <2>1. Breaks \subseteq 1..Len(rest) /\ Breaks \subseteq Nat
    BY <1>7, <1>10 DEF Breaks
  <2>2. idx \in Breaks /\ \A i \in Breaks : idx <= i
    BY <1>1, <1>5, <2>1, MinOfNaturals
  <2>3. idx \in 1..Len(rest) /\ rest[idx] \in Terminators
    BY <2>1, <2>2 DEF Breaks
  <2>4. ASSUME NEW i \in 1..(idx - 1), rest[i] \in Terminators PROVE FALSE
    <3>1. i \in 1..Len(rest) /\ i < idx /\ i \in Nat /\ idx \in Nat
      BY <1>10, <2>3
    <3>2. i \in Breaks
      BY <1>7, <2>4, <3>1 DEF Breaks
    <3> QED
      BY <2>2, <3>1, <3>2
  <2> QED
    BY <2>3, <2>4
<1>12. PICK k : k = n + idx
  OBVIOUS
<1>13. /\ n \in Nat /\ idx \in Nat /\ idx - 1 \in Nat /\ k \in Nat /\ n \in 0..Len(stream)
       /\ k \in (n + 1)..Len(stream) /\ k \in n..Len(stream) /\ k <= fed /\ k \in 0..fed
       /\ idx \in 1..(fed - n) /\ k - n = idx /\ k - 1 = n + (idx - 1)
  BY <1>7, <1>10, <1>11, <1>12
<1>14. stream[k] = rest[idx]
  BY <1>10, <1>12, <1>13
<1>15. Plain(stream, n, k - 1)
  <2> SUFFICES ASSUME NEW j \in (n + 1)..(k - 1) PROVE stream[j] \notin Terminators
    BY DEF Plain
  <2>1. j - n \in 1..(idx - 1) /\ j - n \in 1..(fed - n) /\ n + (j - n) = j
    BY <1>7, <1>13
  <2>2. rest[j - n] = stream[j]
    BY <1>10, <2>1
  <2> QED
    BY <1>11, <2>1, <2>2
<1>16. ~Skipped(stream, k)
  <2> SUFFICES ASSUME k > 1, stream[k] = "lf", stream[k - 1] = "cr" PROVE FALSE
    BY DEF Skipped
  <2>1. CASE k - 1 = n
    <3>1. n >= 1 /\ stream[n] = "cr" /\ k = n + 1
      BY <1>13, <2>1
    <3>2. stream[n + 1] # "lf"
      BY <1>5, <1>9, <3>1 DEF CrSeen
    <3> QED
      BY <3>1, <3>2
  <2>2. CASE k - 1 # n
    <3>1. k - 1 \in (n + 1)..(k - 1)
      BY <1>13, <2>2
    <3> QED
      BY <1>15, <3>1 DEF Plain, Terminators
  <2> QED
    BY <2>1, <2>2
<1>17. NextLine(stream, n, k, scanner)
  BY <1>7, <1>9, <1>11, <1>13, <1>14, <1>15, <1>16 DEF NextLine
<1>18. CASE Exceeds(scanner, idx)
  <2>1. k - 1 \in n..Len(stream)
    BY <1>7, <1>13
  <2>2. \A i \in (n + 1)..(k - 1) : i \notin BlankLines(stream) /\ ~Skipped(stream, i)
    BY <1>7, <1>13, <1>15, <2>1, PlainFacts
  <2>3. ASSUME NEW i \in (n + 1)..k
        PROVE  ~Skipped(stream, i) /\ (i < k => i \notin BlankLines(stream))
    <3>1. i = k \/ i \in (n + 1)..(k - 1)
      BY <1>13
    <3>2. ~(k < k)
      BY <1>13
    <3> QED
      BY <1>16, <2>2, <3>1, <3>2
  <2>4. scanner.bytes + (k - n) > MaxEventBytes
    BY <1>13, <1>18 DEF Exceeds
  <2>5. fed \in k..Len(stream)
    BY <1>7, <1>13
  <2>6. CutAt(stream, fed, Cut(scanner.outcome))
    <3>1. n \in 0..Len(stream) /\ k \in n..Len(stream) /\ stream \in Seq(Bytes)
          /\ ScanAt(stream, n, scanner)
      BY <1>7, <1>9, <1>13
    <3> QED
      BY <2>3, <2>4, <2>5, <3>1, AtCut
  <2> QED
    BY <1>5, <1>6, <1>8, <1>18, <2>6, CutStands
<1>19. CASE ~Exceeds(scanner, idx)
  <2>1. PICK r : r = scanner'
    OBVIOUS
  <2>2. r = AbsorbLine(paid, line) /\ rest' = SubSeq(rest, idx + 1, Len(rest))
    BY <1>5, <1>19, <2>1
  <2>3. rest' = SubSeq(stream, k + 1, fed)
    <3>1. idx \in 0..(fed - n) /\ fed - n \in idx..(fed - n) /\ n + (fed - n) = fed
      BY <1>7, <1>13
    <3>2. SubSeq(rest, idx + 1, fed - n) = SubSeq(stream, n + idx + 1, n + (fed - n))
      BY <1>7, <1>9, <3>1, PartLeft
    <3> QED
      BY <1>10, <1>12, <2>2, <3>1, <3>2
  <2>4. line = scanner.line \o SubSeq(stream, n + 1, k - 1)
    <3>1. 0 \in 0..(fed - n) /\ idx - 1 \in 0..(fed - n)
      BY <1>7, <1>13
    <3>2. SubSeq(rest, 0 + 1, idx - 1) = SubSeq(stream, n + 0 + 1, n + (idx - 1))
      BY <1>7, <1>9, <3>1, PartLeft
    <3>3. n + 0 + 1 = n + 1 /\ 0 + 1 = 1
      BY <1>13
    <3>4. SubSeq(rest, 1, idx - 1) = SubSeq(stream, n + 1, k - 1)
      BY <1>13, <3>2, <3>3
    <3> QED
      BY <1>2, <3>4
  <2>5. cr \in BOOLEAN
    BY <1>3
  <2>6. /\ paid \in ScannerType /\ paid.line = <<>> /\ paid.pending = scanner.pending
        /\ paid.bytes = scanner.bytes + idx
    <3>1. scanner \in ScannerType /\ idx \in Nat
      BY <1>7, <1>13
    <3> QED
      BY <1>4, <2>5, <3>1, PaidRecord, Zenon
  <2>7. paid.outcome = scanner.outcome /\ paid.afterCr = cr
    BY <1>4, <1>7, <1>13, PaidSays
  <2>8. scanner.bytes + (k - n) <= MaxEventBytes /\ paid.bytes = scanner.bytes + (k - n)
    BY <1>7, <1>13, <1>19, <2>6, CapNat DEF Exceeds
  <2>9. /\ ScanAt(stream, k, r) /\ r.afterCr = cr
        /\ r.outcome.truncated = scanner.outcome.truncated
    <3>1. CASE line # <<>>
      <4>1. /\ r.line = <<>> /\ r.pending = Joined(scanner.pending, line)
            /\ r.bytes = scanner.bytes + (k - n) /\ r.afterCr = cr
            /\ r.outcome = scanner.outcome
        BY <2>2, <2>6, <2>7, <2>8, <3>1, AbsorbData
      <4>2. ScanAt(stream, k, r)
        BY <1>17, <2>4, <3>1, <4>1, AtData
      <4> QED
        BY <4>1, <4>2
    <3>2. CASE line = <<>>
      <4>1. /\ r.line = <<>> /\ r.pending = <<>> /\ r.bytes = 0 /\ r.afterCr = cr
            /\ r.outcome = Reckoned(scanner.outcome, scanner.pending)
        BY <2>2, <2>6, <2>7, <3>2, AbsorbBlank
      <4>2. ScanAt(stream, k, r)
        BY <1>17, <2>4, <2>8, <3>2, <4>1, AtBlank
      <4>3. r.outcome.truncated = FALSE /\ scanner.outcome.truncated = FALSE
        BY <1>9, <4>2 DEF ScanAt, Tally
      <4> QED
        BY <4>1, <4>2, <4>3
    <3> QED
      BY <3>1, <3>2
  <2>10. CrSeen(stream, k, fed, r.afterCr)
    <3>1. cr <=> stream[k] = "cr"
      BY <1>3, <1>14
    <3>2. k >= 1
      BY <1>13
    <3> QED
      BY <2>9, <3>1, <3>2 DEF CrSeen
  <2>11. Standing(stream, fed, rest', r)
    BY <1>13, <2>3, <2>9, <2>10 DEF Standing
  <2> QED
    BY <1>5, <1>6, <1>7, <1>8, <2>1, <2>9, <2>11 DEF ChunkInv
<1> QED
  BY <1>18, <1>19

LEMMA FinishStands ==
    ASSUME ChunkInv, Finish PROVE ChunkInv'
<1>1. PICK last : last = IF scanner.line = <<>> THEN scanner
                         ELSE AbsorbLine([scanner EXCEPT !.line = <<>>], scanner.line)
  OBVIOUS
<1>2. PICK seen : seen = IF scanner.outcome.truncated THEN scanner ELSE FlushEvent(last)
  OBVIOUS
<1>3. /\ ~finished /\ rest = <<>> /\ finished' = TRUE
      /\ scanner' = [Fresh EXCEPT !.outcome = seen.outcome] /\ UNCHANGED <<stream, fed, rest>>
  BY <1>1, <1>2 DEF Finish
<1>4. ScanInv'
  BY FinishKeeps DEF ChunkInv
<1>5. /\ stream \in Seq(Bytes) /\ Len(stream) \in Nat /\ fed \in Nat /\ fed \in 0..Len(stream)
      /\ scanner \in ScannerType /\ scanner.bytes \in Nat /\ scanner.bytes <= MaxEventBytes
  BY ChunkTypes
<1>6. scanner'.outcome = seen.outcome
  BY <1>3, FreshFacts DEF ScannerType
<1>7. seen.outcome = Reading(stream, fed)
  <2>1. CASE scanner.outcome.truncated
    <3>1. CutAt(stream, fed, scanner.outcome)
      BY <1>3, <2>1 DEF ChunkInv
    <3>2. PICK b \in {0} \cup BlankLines(stream), k \in 0..fed :
              /\ b <= k /\ \A i \in BlankLines(stream) : ~(b < i /\ i < k)
              /\ Fits(stream, b) /\ Cost(stream, b, k) > MaxEventBytes
              /\ scanner.outcome = Cut(Tally(stream, ClosedBy(stream, b)))
      BY <3>1 DEF CutAt
    <3>3. Reading(stream, fed) = Cut(Tally(stream, ClosedBy(stream, b)))
      BY <1>5, <3>2, CutReading
    <3> QED
      BY <1>2, <2>1, <3>2, <3>3
  <2>2. CASE ~scanner.outcome.truncated
    <3>1. Standing(stream, fed, <<>>, scanner)
      BY <1>3, <2>2 DEF ChunkInv
    <3>2. ScanAt(stream, fed, scanner)
      BY <1>5, <3>1, AllScanned
    <3>3. Reading(stream, fed) = Reckoned(scanner.outcome, Joined(scanner.pending, scanner.line))
      BY <1>5, <3>2, AtEnd
    <3>4. /\ last \in ScannerType /\ last.outcome = scanner.outcome
          /\ last.pending = Joined(scanner.pending, scanner.line)
      <4>1. CASE scanner.line = <<>>
        BY <1>1, <1>5, <4>1, JoinedNothing
      <4>2. CASE scanner.line # <<>>
        <5>1. PICK open : open = [scanner EXCEPT !.line = <<>>]
          OBVIOUS
        <5>2. <<>> \in Seq(Bytes) /\ scanner.line \in Seq(Bytes)
          BY <1>5 DEF ScannerType
        <5>3. /\ open \in ScannerType /\ open.line = <<>> /\ open.pending = scanner.pending
              /\ open.bytes = scanner.bytes /\ open.outcome = scanner.outcome
          BY <1>5, <5>1, <5>2 DEF ScannerType
        <5>4. last = AbsorbLine(open, scanner.line)
          BY <1>1, <4>2, <5>1
        <5>5. /\ last.pending = Joined(scanner.pending, scanner.line)
              /\ last.outcome = scanner.outcome
          BY <4>2, <5>3, <5>4, AbsorbData
        <5>6. Len(open.pending) + Len(scanner.line) <= open.bytes
          <6>1. Len(scanner.line) + Len(scanner.pending) <= scanner.bytes
            BY DEF ChunkInv, ScanInv, Paid
          <6>2. Len(scanner.line) \in Nat /\ Len(scanner.pending) \in Nat
            BY <1>5 DEF ScannerType
          <6>3. \A x, y, z \in Nat : x + y <= z => y + x <= z
            OBVIOUS
          <6> QED
            BY <1>5, <5>3, <6>1, <6>2, <6>3, Zenon
        <5>7. last \in ScannerType
          BY <5>2, <5>3, <5>4, <5>6, AbsorbFacts
        <5> QED
          BY <5>5, <5>7
      <4> QED
        BY <4>1, <4>2
    <3>5. seen.outcome = Reckoned(last.outcome, last.pending)
      BY <1>2, <2>2, <3>4, FlushSays
    <3> QED
      BY <3>3, <3>4, <3>5
  <2> QED
    BY <2>1, <2>2
<1> QED
  BY <1>3, <1>4, <1>5, <1>6, <1>7 DEF ChunkInv

\* However the network cuts a body into chunks and wherever the body ends, feed and
\* finish say of it what its bytes say read as a whole: the same usage, the same
\* counts, cut off exactly when one of its events is larger than the cap.
THEOREM ChunksDoNotMatter == ScanSpec => []ChunkingIrrelevant
<1>1. ScanInit => ChunkInv
  BY ChunkInit
<1>2. ASSUME ChunkInv, [ScanNext]_scanVars PROVE ChunkInv'
  <2>1. ASSUME NEW n \in 1..Len(stream), Feed(n) PROVE ChunkInv'
    BY <1>2, <2>1, FeedStands
  <2>2. CASE AfterCr
    BY <1>2, <2>2, AfterCrStands
  <2>3. CASE HoldTail
    BY <1>2, <2>3, HoldTailStands
  <2>4. CASE TakeLine
    BY <1>2, <2>4, TakeLineStands
  <2>5. CASE Finish
    BY <1>2, <2>5, FinishStands
  <2>6. CASE UNCHANGED scanVars
    BY <1>2, <2>6 DEF scanVars, ChunkInv, ScanInv, ScanShapes, Paid
  <2> QED
    BY <1>2, <2>1, <2>2, <2>3, <2>4, <2>5, <2>6 DEF ScanNext
<1>3. ChunkInv => ChunkingIrrelevant
  BY DEF ChunkInv, ChunkingIrrelevant
<1> QED
  BY <1>1, <1>2, <1>3, PTL DEF ScanSpec

-----------------------------------------------------------------------------
(* LiveConfig. *)

Loaded == {f \in Files : Loads(f)}

IdleType == [pc : {"idle"}, count : Int]
RunningType ==
    [pc : {"credential", "body", "accepted", "served", "401", "403", "413"}, count : Int,
     token : Passwords \cup {"key"}, route : {"v1", "admin"}, size : Sizes,
     inForce : SUBSET Loaded, sent : {<<>>} \cup {Upstream(c) : c \in Loaded}]

\* What the watcher knows of the file, and the log of the fields.
WatcherInv ==
    /\ lastHash = current
    /\ watcher \in {"report", "swap"} /\ fresh => read = file
    /\ watcher = "wait" /\ fresh /\ Loads(file) => current = file
    /\ watcher # "stopped" =>
          \A x \in Reported : told[x].value = IF watcher = "swap" THEN read[x] ELSE current[x]
    /\ \A x \in Reported : \/ told[x].said = "started" /\ told[x].value = startup[x]
                           \/ told[x].said = Class(x)

\* What a request has been checked against so far.
JudgedInv ==
    request.pc # "idle" =>
        /\ watcher # "stopped" /\ current \in request.inForce
        /\ request.pc # "413" => request.size <= startup["max_body_size"]
        /\ request.pc = "accepted" \/ request.sent # <<>> =>
              \E c \in request.inForce : request.size <= c["max_body_size"]
        /\ request.sent # <<>> =>
              request.pc = "served" /\ \E c \in request.inForce : request.sent = Upstream(c)

ConfigInv ==
    /\ ConfigTypeOK /\ request \in IdleType \cup RunningType
    /\ WatcherInv /\ JudgedInv

\* What a configuration in force has.
LEMMA LoadedFacts ==
    ASSUME NEW c \in Loaded
    PROVE  c \in Files /\ Loads(c) /\ c["max_body_size"] \in Nat
<1>1. c \in Files /\ Loads(c)
  BY DEF Loaded
<1>2. c # Unreadable /\ c["max_body_size"] # Bad
  BY <1>1 DEF Loads, Valid, Fields, Reported, Partly
<1> QED
  BY <1>1, <1>2, SizesAreNumbers

LEMMA ConfigTypes ==
    ASSUME ConfigInv
    PROVE  /\ file \in Files /\ startup \in Loaded /\ current \in Loaded
           /\ lastHash \in Loaded /\ read \in Loaded
           /\ watcher \in {"wait", "report", "swap", "stopped"} /\ fresh \in BOOLEAN
BY DEF ConfigInv, ConfigTypeOK, Loaded

LEMMA RequestShape ==
    ASSUME ConfigInv
    PROVE  /\ request.pc = "idle" => request \in IdleType
           /\ request.pc # "idle" => request \in RunningType
           /\ request.count \in Int
BY DEF ConfigInv, IdleType, RunningType

LEMMA StartTells ==
    ASSUME NEW c, NEW x \in Reported
    PROVE  StartTold(c)[x].value = c[x] /\ StartTold(c)[x].said = "started"
BY DEF StartTold

LEMMA ConfigInitHolds == ConfigInit => ConfigInv
<1> SUFFICES ASSUME ConfigInit PROVE ConfigInv
  OBVIOUS
<1>1. \A x \in Reported : told[x].value = file[x] /\ told[x].said = "started"
  BY StartTells DEF ConfigInit
<1>2. ConfigTypeOK
  BY <1>1 DEF ConfigInit, ConfigTypeOK
<1>3. WatcherInv
  BY <1>1 DEF ConfigInit, WatcherInv
<1>4. request \in IdleType /\ request.pc = "idle"
  BY DEF ConfigInit, NoRequest, IdleType
<1> QED
  BY <1>2, <1>3, <1>4 DEF ConfigInv, JudgedInv

\* A step of a request leaves the watcher, the file and the log alone.
LEMMA RequestOnly ==
    ASSUME ConfigInv, request' \in IdleType \cup RunningType, JudgedInv',
           UNCHANGED <<file, saves, startup, current, lastHash, watcher, read, fresh, told>>
    PROVE  ConfigInv'
<1>1. ConfigTypeOK'
  BY DEF ConfigInv, ConfigTypeOK
<1>2. WatcherInv'
  BY DEF ConfigInv, WatcherInv
<1> QED
  BY <1>1, <1>2 DEF ConfigInv

\* A step of the watcher, or of the operator, that leaves the request alone, and what
\* it is judged by.
LEMMA WatcherOnly ==
    ASSUME ConfigInv, ConfigTypeOK', WatcherInv', UNCHANGED <<request, startup, current>>,
           watcher' # "stopped" \/ watcher' = watcher
    PROVE  ConfigInv'
<1>1. JudgedInv'
  BY DEF ConfigInv, JudgedInv
<1> QED
  BY <1>1 DEF ConfigInv

LEMMA SaveKeeps ==
    ASSUME ConfigInv, NEW f \in Files, Save(f) PROVE ConfigInv'
<1>1. /\ file' = f /\ fresh' = FALSE
      /\ UNCHANGED <<startup, current, lastHash, watcher, read, told, request>>
  BY DEF Save
<1>2. ConfigTypeOK'
  BY <1>1 DEF ConfigInv, ConfigTypeOK
<1>3. WatcherInv'
  BY <1>1 DEF ConfigInv, WatcherInv
<1> QED
  BY <1>1, <1>2, <1>3, WatcherOnly

LEMMA LookKeeps ==
    ASSUME ConfigInv, Look PROVE ConfigInv'
<1>1. /\ watcher = "wait" /\ fresh'
      /\ UNCHANGED <<file, saves, startup, current, lastHash, told, request>>
  BY DEF Look
<1>2. CASE Loads(file) /\ file # lastHash
  <2>1. read' = file /\ watcher' = "report" /\ fresh' = TRUE
    BY <1>2 DEF Look
  <2>2. ConfigTypeOK'
    BY <1>1, <1>2, <2>1 DEF ConfigInv, ConfigTypeOK
  <2>3. WatcherInv'
    BY <1>1, <2>1 DEF ConfigInv, WatcherInv
  <2> QED
    BY <1>1, <2>1, <2>2, <2>3, WatcherOnly
<1>3. CASE ~(Loads(file) /\ file # lastHash)
  <2>1. UNCHANGED <<read, watcher>> /\ fresh' = TRUE
    BY <1>3 DEF Look
  <2>2. ConfigTypeOK'
    BY <1>1, <2>1 DEF ConfigInv, ConfigTypeOK
  <2>3. Loads(file) => current = file
    BY <1>3 DEF ConfigInv, WatcherInv
  <2>4. WatcherInv'
    BY <1>1, <2>1, <2>3 DEF ConfigInv, WatcherInv
  <2> QED
    BY <1>1, <2>1, <2>2, <2>4, WatcherOnly
<1> QED
  BY <1>2, <1>3

LEMMA ReportKeeps ==
    ASSUME ConfigInv, ReportChanges PROVE ConfigInv'
<1>1. /\ watcher = "report" /\ watcher' = "swap"
      /\ UNCHANGED <<file, saves, startup, current, lastHash, read, fresh, request>>
  BY DEF ReportChanges
<1>2. \A x \in Reported :
         told'[x] = IF current[x] # read[x] THEN [value |-> read[x], said |-> Class(x)]
                    ELSE told[x]
  BY DEF ReportChanges
<1>3. \A x : Class(x) \in {"applied", "partly", "restart"}
  BY DEF Class
<1>4. \A x \in Reported : told[x].value = current[x]
  BY <1>1 DEF ConfigInv, WatcherInv
<1>5. \A x \in Reported :
         /\ told'[x].value = read[x]
         /\ told'[x].said \in {"started", "applied", "partly", "restart"}
         /\ \/ told'[x].said = "started" /\ told'[x].value = startup[x]
            \/ told'[x].said = Class(x)
  <2> SUFFICES ASSUME NEW x \in Reported
               PROVE  /\ told'[x].value = read[x]
                      /\ told'[x].said \in {"started", "applied", "partly", "restart"}
                      /\ \/ told'[x].said = "started" /\ told'[x].value = startup[x]
                         \/ told'[x].said = Class(x)
    OBVIOUS
  <2>1. CASE current[x] # read[x]
    <3>1. told'[x] = [value |-> read[x], said |-> Class(x)]
      BY <1>2, <2>1
    <3>2. told'[x].value = read[x] /\ told'[x].said = Class(x)
      BY <3>1
    <3> QED
      BY <1>3, <3>2
  <2>2. CASE current[x] = read[x]
    <3>1. told'[x] = told[x]
      BY <1>2, <2>2
    <3> QED
      BY <1>4, <2>2, <3>1 DEF ConfigInv, ConfigTypeOK, WatcherInv
  <2> QED
    BY <2>1, <2>2
<1>6. ConfigTypeOK'
  BY <1>1, <1>5 DEF ConfigInv, ConfigTypeOK
<1>7. WatcherInv'
  BY <1>1, <1>5 DEF ConfigInv, WatcherInv
<1> QED
  BY <1>1, <1>6, <1>7, WatcherOnly

\* A request under way outlives a swap, judged by one configuration more.
LEMMA SwapRecord ==
    ASSUME NEW r \in RunningType, NEW c \in Loaded
    PROVE  LET q == [r EXCEPT !.inForce = @ \cup {c}]
           IN /\ q \in RunningType /\ q.pc = r.pc /\ q.size = r.size /\ q.sent = r.sent
              /\ q.inForce = r.inForce \cup {c}
<1>1. r.inForce \cup {c} \in SUBSET Loaded
  BY DEF RunningType
<1> QED
  BY <1>1 DEF RunningType

LEMMA SwapKeeps ==
    ASSUME ConfigInv, SwapConfig PROVE ConfigInv'
<1>1. /\ watcher = "swap" /\ watcher' = "wait" /\ current' = read /\ lastHash' = read
      /\ UNCHANGED <<file, saves, startup, read, fresh, told>>
  BY DEF SwapConfig
<1>2. ConfigTypeOK'
  BY <1>1 DEF ConfigInv, ConfigTypeOK
<1>3. WatcherInv'
  BY <1>1 DEF ConfigInv, WatcherInv
<1>4. CASE request.pc = "idle"
  <2>1. request' = request
    BY <1>4 DEF SwapConfig
  <2> QED
    BY <1>2, <1>3, <1>4, <2>1 DEF ConfigInv, JudgedInv
<1>5. CASE request.pc # "idle"
  <2>1. request' = [request EXCEPT !.inForce = @ \cup {read}]
    BY <1>5 DEF SwapConfig
  <2>2. /\ request' \in RunningType /\ request'.pc = request.pc /\ request'.size = request.size
        /\ request'.sent = request.sent /\ request'.inForce = request.inForce \cup {read}
    BY <1>5, <2>1, RequestShape, ConfigTypes, SwapRecord
  <2>3. JudgedInv'
    BY <1>1, <1>5, <2>2 DEF ConfigInv, JudgedInv
  <2> QED
    BY <1>2, <1>3, <2>2, <2>3 DEF ConfigInv
<1> QED
  BY <1>4, <1>5

\* Stopping the process, starting it, and a request that leaves: no request is left.
LEMMA NoRequestLeft ==
    ASSUME ConfigInv, ConfigTypeOK', WatcherInv',
           request' = [NoRequest EXCEPT !.count = request.count]
    PROVE  ConfigInv'
<1>1. request' \in IdleType /\ request'.pc = "idle"
  BY RequestShape DEF NoRequest, IdleType
<1> QED
  BY <1>1 DEF ConfigInv, JudgedInv

LEMMA StopStartKeeps ==
    ASSUME ConfigInv, Stop \/ Start PROVE ConfigInv'
<1>1. CASE Stop
  <2>1. /\ watcher' = "stopped" /\ request' = [NoRequest EXCEPT !.count = request.count]
        /\ UNCHANGED <<file, saves, startup, current, lastHash, read, fresh, told>>
    BY <1>1 DEF Stop
  <2>2. ConfigTypeOK'
    BY <2>1 DEF ConfigInv, ConfigTypeOK
  <2>3. WatcherInv'
    BY <2>1 DEF ConfigInv, WatcherInv
  <2> QED
    BY <2>1, <2>2, <2>3, NoRequestLeft
<1>2. CASE Start
  <2>1. /\ watcher = "stopped" /\ Loads(file) /\ startup' = file /\ current' = file
        /\ lastHash' = file /\ read' = file /\ watcher' = "wait" /\ fresh' = TRUE
        /\ told' = StartTold(file) /\ UNCHANGED <<file, saves, request>>
    BY <1>2 DEF Start
  <2>3. \A x \in Reported : told'[x].value = file[x] /\ told'[x].said = "started"
    BY <2>1, StartTells
  <2>4. ConfigTypeOK'
    BY <2>1, <2>3 DEF ConfigInv, ConfigTypeOK
  <2>5. WatcherInv'
    BY <2>1, <2>3 DEF ConfigInv, WatcherInv
  <2>6. request.pc = "idle"
    BY <2>1 DEF ConfigInv, JudgedInv
  <2> QED
    BY <2>1, <2>4, <2>5, <2>6 DEF ConfigInv, JudgedInv
<1> QED
  BY <1>1, <1>2

LEMMA ArrivesKeeps ==
    ASSUME ConfigInv, NEW token \in Passwords \cup {"key"}, NEW route \in {"v1", "admin"},
           NEW size \in Sizes, RequestArrives(token, route, size)
    PROVE  ConfigInv'
<1> DEFINE first == IF size > startup["max_body_size"] THEN "413" ELSE "credential"
<1>1. /\ watcher # "stopped"
      /\ request' = [pc |-> first, count |-> request.count + 1, token |-> token,
                     route |-> route, size |-> size, inForce |-> {current}, sent |-> <<>>]
      /\ UNCHANGED <<file, saves, startup, current, lastHash, watcher, read, fresh, told>>
  BY DEF RequestArrives
<1>2. size \in Nat /\ startup["max_body_size"] \in Nat /\ current \in Loaded
  BY ConfigTypes, LoadedFacts, SizesAreNumbers
<1>3. first \in {"413", "credential"} /\ (first # "413" => size <= startup["max_body_size"])
  BY <1>2
<1> HIDE DEF first
<1>4. request.count + 1 \in Int
  BY RequestShape
<1>5. request' \in RunningType
  BY <1>1, <1>2, <1>3, <1>4 DEF RunningType
<1>6. /\ request'.pc = first /\ request'.size = size /\ request'.inForce = {current}
      /\ request'.sent = <<>>
  BY <1>1
<1>7. JudgedInv'
  BY <1>1, <1>3, <1>6 DEF JudgedInv
<1> QED
  BY <1>1, <1>5, <1>7, RequestOnly

\* What a request is after its next read.
LEMMA NextRecord ==
    ASSUME NEW r \in RunningType,
           NEW x \in {"credential", "body", "accepted", "served", "401", "403", "413"}
    PROVE  LET q == [r EXCEPT !.pc = x]
           IN /\ q \in RunningType /\ q.pc = x /\ q.size = r.size /\ q.sent = r.sent
              /\ q.inForce = r.inForce
BY DEF RunningType

LEMMA AuthenticateKeeps ==
    ASSUME ConfigInv, Authenticate PROVE ConfigInv'
<1> DEFINE x == IF request.token # "key" /\ ~IsManager(request.token) THEN "401"
                ELSE IF ~Admitted(request.route, request.token) THEN "403"
                ELSE IF request.route = "admin" THEN "served" ELSE "body"
<1>1. /\ request.pc = "credential" /\ request' = [request EXCEPT !.pc = x]
      /\ UNCHANGED <<file, saves, startup, current, lastHash, watcher, read, fresh, told>>
  BY DEF Authenticate, At
<1>2. x \in {"401", "403", "served", "body"}
  OBVIOUS
<1> HIDE DEF x
<1>3. /\ request' \in RunningType /\ request'.pc = x /\ request'.size = request.size
      /\ request'.sent = request.sent /\ request'.inForce = request.inForce
  <2>1. x \in {"credential", "body", "accepted", "served", "401", "403", "413"}
    BY <1>2
  <2>2. request \in RunningType
    BY <1>1, RequestShape
  <2> QED
    BY <1>1, <2>1, <2>2, NextRecord
<1>4. /\ watcher # "stopped" /\ current \in request.inForce /\ request.sent = <<>>
      /\ request.size <= startup["max_body_size"]
  BY <1>1 DEF ConfigInv, JudgedInv
<1>5. JudgedInv'
  BY <1>1, <1>2, <1>3, <1>4 DEF JudgedInv
<1> QED
  BY <1>1, <1>3, <1>5, RequestOnly

LEMMA ReadBodyKeeps ==
    ASSUME ConfigInv, ReadBody PROVE ConfigInv'
<1> DEFINE x == IF request.size > current["max_body_size"] THEN "413" ELSE "accepted"
<1>1. /\ request.pc = "body" /\ request' = [request EXCEPT !.pc = x]
      /\ UNCHANGED <<file, saves, startup, current, lastHash, watcher, read, fresh, told>>
  BY DEF ReadBody, At
<1>2. request \in RunningType
  BY <1>1, RequestShape
<1>3. request.size \in Nat /\ current["max_body_size"] \in Nat
  <2>1. request.size \in Sizes
    BY <1>2 DEF RunningType
  <2> QED
    BY <2>1, ConfigTypes, LoadedFacts, SizesAreNumbers
<1>4. x \in {"413", "accepted"} /\ (x = "accepted" => request.size <= current["max_body_size"])
  BY <1>3
<1> HIDE DEF x
<1>5. /\ request' \in RunningType /\ request'.pc = x /\ request'.size = request.size
      /\ request'.sent = request.sent /\ request'.inForce = request.inForce
  <2>1. x \in {"credential", "body", "accepted", "served", "401", "403", "413"}
    BY <1>4
  <2> QED
    BY <1>1, <1>2, <2>1, NextRecord
<1>6. /\ watcher # "stopped" /\ current \in request.inForce /\ request.sent = <<>>
      /\ request.size <= startup["max_body_size"]
  BY <1>1 DEF ConfigInv, JudgedInv
<1>7. JudgedInv'
  BY <1>1, <1>4, <1>5, <1>6 DEF JudgedInv
<1> QED
  BY <1>1, <1>5, <1>7, RequestOnly

LEMMA SentRecord ==
    ASSUME NEW r \in RunningType, NEW c \in Loaded
    PROVE  LET q == [r EXCEPT !.pc = "served", !.sent = Upstream(c)]
           IN /\ q \in RunningType /\ q.pc = "served" /\ q.size = r.size
              /\ q.sent = Upstream(c) /\ q.inForce = r.inForce
<1>1. Upstream(c) \in {<<>>} \cup {Upstream(d) : d \in Loaded}
  OBVIOUS
<1> QED
  BY <1>1 DEF RunningType

LEMMA ForwardKeeps ==
    ASSUME ConfigInv, Forward PROVE ConfigInv'
<1>1. /\ request.pc = "accepted"
      /\ request' = [request EXCEPT !.pc = "served", !.sent = Upstream(current)]
      /\ UNCHANGED <<file, saves, startup, current, lastHash, watcher, read, fresh, told>>
  BY DEF Forward, At
<1>2. /\ request' \in RunningType /\ request'.pc = "served" /\ request'.size = request.size
      /\ request'.sent = Upstream(current) /\ request'.inForce = request.inForce
  BY <1>1, RequestShape, ConfigTypes, SentRecord
<1>3. JudgedInv'
  BY <1>1, <1>2 DEF ConfigInv, JudgedInv, Upstream
<1> QED
  BY <1>1, <1>2, <1>3, RequestOnly

LEMMA LeaveKeeps ==
    ASSUME ConfigInv, Leave PROVE ConfigInv'
<1>1. /\ request' = [NoRequest EXCEPT !.count = request.count]
      /\ UNCHANGED <<file, saves, startup, current, lastHash, watcher, read, fresh, told>>
  BY DEF Leave
<1>2. ConfigTypeOK' /\ WatcherInv'
  BY <1>1 DEF ConfigInv, ConfigTypeOK, WatcherInv
<1> QED
  BY <1>1, <1>2, NoRequestLeft

LEMMA ConfigInvariant == ConfigSpec => []ConfigInv
<1>1. ConfigInv /\ [ConfigNext]_configVars => ConfigInv'
  <2> SUFFICES ASSUME ConfigInv, [ConfigNext]_configVars PROVE ConfigInv'
    OBVIOUS
  <2>1. CASE UNCHANGED configVars
    <3>1. UNCHANGED <<file, saves, startup, current, lastHash, watcher, read, fresh, told,
                      request>>
      BY <2>1 DEF configVars
    <3>2. JudgedInv' /\ request' \in IdleType \cup RunningType
      BY <3>1 DEF ConfigInv, JudgedInv
    <3> QED
      BY <3>1, <3>2, RequestOnly
  <2> QED
    BY <2>1, SaveKeeps, LookKeeps, ReportKeeps, SwapKeeps, StopStartKeeps, ArrivesKeeps,
       AuthenticateKeeps, ReadBodyKeeps, ForwardKeeps, LeaveKeeps DEF ConfigNext
<1> QED
  BY <1>1, ConfigInitHolds, PTL DEF ConfigSpec

\* A forwarded request went to the upstream of one configuration that was in force while
\* it ran, with that configuration's key, and within the limits of body size that
\* applied, for any files the operator saves and however reloads, restarts and the
\* request's own reads fall (AppState::upstream, max_body_size).
THEOREM RequestsInForce == ConfigSpec => []RequestInForce
<1>1. ConfigInv => RequestInForce
  BY DEF ConfigInv, JudgedInv, RequestInForce
<1> QED
  BY <1>1, ConfigInvariant, PTL

\* After the watcher has looked, the snapshot is the file, and the log has told the
\* operator each reported field's value, and where it waits for a restart
\* (report_changes), for any sequence of saves, reloads and restarts.
THEOREM OperatorAlwaysTold == ConfigSpec => []OperatorTold
<1>1. ConfigInv => OperatorTold
  <2> SUFFICES ASSUME ConfigInv, watcher = "wait", fresh, Loads(file), NEW x \in Reported
               PROVE  /\ current = file
                      /\ told[x].value = file[x]
                      /\ x \in Live => told[x].said # "restart"
                      /\ x \notin Live /\ file[x] # startup[x] =>
                            told[x].said \in {"partly", "restart"}
    <3>1. "base_url" \in Reported
      BY DEF Reported, Live
    <3> QED
      BY <3>1 DEF OperatorTold
  <2>1. current = file /\ told[x].value = current[x]
    BY DEF ConfigInv, WatcherInv
  <2>2. \/ told[x].said = "started" /\ told[x].value = startup[x]
        \/ told[x].said = Class(x)
    BY DEF ConfigInv, WatcherInv
  <2>3. Class(x) = IF x \in Live THEN "applied" ELSE IF x \in Partly THEN "partly" ELSE "restart"
    BY DEF Class
  <2> QED
    BY <2>1, <2>2, <2>3
<1> QED
  BY <1>1, ConfigInvariant, PTL

-----------------------------------------------------------------------------
(* ApiKeys.  A snapshot is a picture loaded earlier, so the invariant carries   *)
(* the uniqueness from the table to every picture still on its way and from     *)
(* there to the snapshots.                                                      *)

OneActivePerConsumer ==
    \A h, g \in Hashes :
        (IsActive(h) /\ IsActive(g) /\ keys[h].consumer = keys[g].consumer) => h = g

LoadedUnique ==
    \A p \in Processes, t \in Tasks : OneKeyPerConsumer(loaded[p][t])

Shapes ==
    /\ keys \in [Hashes -> Key \cup {Nothing}]
    /\ partner \in [Consumers -> Partner]
    /\ snapshot \in [Processes -> Snapshot]
    /\ loaded \in [Processes -> [Tasks -> Snapshot]]

KeyInv == Shapes /\ OneActivePerConsumer /\ LoadedUnique /\ OneLiveKey

\* What load_active returns while the index holds: a snapshot with at most one
\* key per consumer.
LEMMA PictureUnique ==
    ASSUME Shapes, OneActivePerConsumer
    PROVE  Picture \in Snapshot /\ OneKeyPerConsumer(Picture)
<1>1. \A h \in Hashes : IsActive(h) => keys[h] \in Key
  BY DEF Shapes, IsActive
<1>2. \A h \in Hashes : Picture[h] \in Config \cup {Nothing}
  BY <1>1 DEF Picture, Shapes, Config, Key, Partner, Suspended
<1>3. Picture \in Snapshot
  BY <1>2 DEF Picture, Snapshot
<1>4. \A h \in Hashes : Picture[h] # Nothing =>
          IsActive(h) /\ Picture[h].consumer = keys[h].consumer
  BY DEF Picture
<1> QED
  BY <1>3, <1>4 DEF OneKeyPerConsumer, OneActivePerConsumer

\* The empty picture.
LEMMA EmptyUnique == Empty \in Snapshot /\ OneKeyPerConsumer(Empty)
  BY DEF Empty, Snapshot, OneKeyPerConsumer

\* The start: no keys, empty snapshots.
LEMMA KeyInit == Init => KeyInv
<1> SUFFICES ASSUME Init PROVE KeyInv
  OBVIOUS
<1>1. Shapes
  <2>2. partner \in [Consumers -> Partner]
    BY DEF Init
  <2>3. keys \in [Hashes -> Key \cup {Nothing}]
    BY DEF Init
  <2>4. /\ snapshot \in [Processes -> Snapshot]
        /\ loaded \in [Processes -> [Tasks -> Snapshot]]
    BY EmptyUnique DEF Init
  <2> QED
    BY <2>2, <2>3, <2>4 DEF Shapes
<1>2. OneActivePerConsumer
  BY DEF Init, OneActivePerConsumer, IsActive
<1>3. LoadedUnique /\ OneLiveKey
  BY EmptyUnique DEF Init, LoadedUnique, OneLiveKey
<1> QED
  BY <1>1, <1>2, <1>3 DEF KeyInv

\* A mutation changes the table and leaves every picture alone.
LEMMA TableStep ==
    ASSUME KeyInv, keys' \in [Hashes -> Key \cup {Nothing}],
           partner' \in [Consumers -> Partner],
           OneActivePerConsumer', UNCHANGED <<snapshot, loaded>>
    PROVE  KeyInv'
  BY DEF KeyInv, Shapes, LoadedUnique, OneLiveKey

\* A created key is its consumer's only active one.
LEMMA CreateKeeps ==
    ASSUME KeyInv, NEW p \in Processes, NEW a \in Admins, NEW h \in Hashes,
           NEW c \in Consumers, NEW e \in BOOLEAN, Create(p, a, h, c, e)
    PROVE  KeyInv'
<1>1. keys' \in [Hashes -> Key \cup {Nothing}] /\ partner' \in [Consumers -> Partner]
  BY DEF Create, KeyInv, Shapes, NewKey, Key
<1>2. \A g \in Hashes : g # h => keys'[g] = keys[g]
  BY DEF Create, KeyInv, Shapes
<1>3. keys'[h] = NewKey(c, e) /\ keys'[h].consumer = c
  BY DEF Create, KeyInv, Shapes, NewKey
<1>4. OneActivePerConsumer'
  BY <1>2, <1>3 DEF Create, KeyInv, OneActivePerConsumer, IsActive
<1> QED
  BY <1>1, <1>4, TableStep DEF Create, Mutate

\* A revocation only takes an active key away.
LEMMA RevokeKeeps ==
    ASSUME KeyInv, NEW p \in Processes, NEW a \in Admins, NEW h \in Hashes,
           Revoke(p, a, h)
    PROVE  KeyInv'
<1>1. keys[h] \in Key
  BY DEF Revoke, KeyInv, Shapes
<1>2. keys' \in [Hashes -> Key \cup {Nothing}] /\ partner' \in [Consumers -> Partner]
  BY <1>1 DEF Revoke, KeyInv, Shapes, Key
<1>3. \A g \in Hashes : g # h => keys'[g] = keys[g]
  BY DEF Revoke, KeyInv, Shapes
<1>4. keys'[h].status = "revoked"
  BY <1>1 DEF Revoke, KeyInv, Shapes, Key
<1>5. OneActivePerConsumer'
  BY <1>3, <1>4 DEF KeyInv, OneActivePerConsumer, IsActive
<1> QED
  BY <1>2, <1>5, TableStep DEF Revoke, Mutate

\* A rotation's new key takes the place of the one it revokes.
LEMMA RotateKeeps ==
    ASSUME KeyInv, NEW p \in Processes, NEW a \in Admins, NEW h \in Hashes,
           NEW g \in Hashes, Rotate(p, a, h, g)
    PROVE  KeyInv'
<1>1. keys[h] \in Key /\ h # g /\ keys[h].status = "active"
  BY DEF Rotate, IsActive, KeyInv, Shapes
<1>2. /\ keys'[h] = [keys[h] EXCEPT !.status = "revoked"]
      /\ keys'[g] = NewKey(keys[h].consumer, keys[h].expires)
      /\ \A k \in Hashes \ {h, g} : keys'[k] = keys[k]
  BY <1>1 DEF Rotate, KeyInv, Shapes
<1>3. keys'[h] \in Key /\ keys'[h].status = "revoked"
  BY <1>1, <1>2 DEF Key
<1>4. keys'[g] \in Key /\ keys'[g].consumer = keys[h].consumer
  BY <1>1, <1>2 DEF Key, NewKey
<1>5. keys' \in [Hashes -> Key \cup {Nothing}] /\ partner' \in [Consumers -> Partner]
  BY <1>2, <1>3, <1>4 DEF Rotate, KeyInv, Shapes
<1>6. \A k \in Hashes \ {h, g} : IsActive(k)' => keys'[k].consumer # keys'[g].consumer
  <2> SUFFICES ASSUME NEW k \in Hashes \ {h, g}, IsActive(k)',
                      keys'[k].consumer = keys'[g].consumer
               PROVE  FALSE
    OBVIOUS
  <2>1. IsActive(k) /\ keys[k].consumer = keys[h].consumer
    BY <1>2, <1>4 DEF IsActive
  <2> QED
    BY <2>1, <1>1, NothingFresh DEF KeyInv, OneActivePerConsumer, IsActive
<1>7. OneActivePerConsumer'
  <2> SUFFICES ASSUME NEW k \in Hashes, NEW l \in Hashes, IsActive(k)', IsActive(l)',
                      keys'[k].consumer = keys'[l].consumer
               PROVE  k = l
    BY DEF OneActivePerConsumer
  <2>1. k # h /\ l # h
    BY <1>3 DEF IsActive
  <2>2. CASE k = g \/ l = g
    BY <2>1, <2>2, <1>6
  <2>3. CASE k # g /\ l # g
    <3>1. keys'[k] = keys[k] /\ keys'[l] = keys[l]
      BY <2>1, <2>3, <1>2
    <3> QED
      BY <3>1 DEF KeyInv, OneActivePerConsumer, IsActive
  <2> QED
    BY <2>2, <2>3
<1> QED
  BY <1>5, <1>7, TableStep DEF Rotate, Mutate

\* Every step keeps the invariant: a swap only installs a picture loaded earlier.
LEMMA KeyStep == KeyInv /\ [Next]_vars => KeyInv'
<1> SUFFICES ASSUME KeyInv, [Next]_vars PROVE KeyInv'
  OBVIOUS
<1>1. ASSUME NEW p \in Processes, NEW a \in Admins, Admin(p, a) PROVE KeyInv'
  <2>1. ASSUME NEW h \in Hashes, NEW c \in Consumers, NEW e \in BOOLEAN,
               Create(p, a, h, c, e)
        PROVE  KeyInv'
    BY <2>1, CreateKeeps
  <2>2. ASSUME NEW h \in Hashes, Revoke(p, a, h) PROVE KeyInv'
    BY <2>2, RevokeKeeps
  <2>3. ASSUME NEW h \in Hashes, NEW g \in Hashes, Rotate(p, a, h, g) PROVE KeyInv'
    BY <2>3, RotateKeeps
  <2>4. ASSUME NEW c \in Consumers, EditPartner(p, a, c) PROVE KeyInv'
    <3>1. UNCHANGED <<keys, snapshot, loaded>> /\ partner' \in [Consumers -> Partner]
      BY <2>4 DEF EditPartner, Mutate, KeyInv, Shapes
    <3> QED
      BY <3>1, TableStep DEF KeyInv, Shapes, OneActivePerConsumer, IsActive
  <2>5. ASSUME Rename(p, a) PROVE KeyInv'
    BY <2>5 DEF Rename, Mutate, KeyInv, Shapes, LoadedUnique, OneLiveKey,
                OneActivePerConsumer, IsActive
  <2> QED
    BY <1>1, <2>1, <2>2, <2>3, <2>4, <2>5 DEF Admin
<1>2. ASSUME NEW p \in Processes, NEW t \in Tasks, Load(p, t) PROVE KeyInv'
  <2>1. Picture \in Snapshot /\ OneKeyPerConsumer(Picture)
    BY PictureUnique DEF KeyInv
  <2>2. UNCHANGED <<keys, partner, snapshot>>
    BY <1>2 DEF Load, tables
  <2>3. loaded' \in [Processes -> [Tasks -> Snapshot]]
    BY <1>2, <2>1 DEF Load, KeyInv, Shapes
  <2>4. LoadedUnique'
    BY <1>2, <2>1 DEF Load, KeyInv, Shapes, LoadedUnique, OneKeyPerConsumer
  <2> QED
    BY <2>2, <2>3, <2>4 DEF KeyInv, Shapes, OneLiveKey, OneActivePerConsumer, IsActive
<1>3. ASSUME NEW p \in Processes, NEW t \in Tasks, Done(p, t),
             UNCHANGED <<keys, partner>>,
             \/ UNCHANGED snapshot
             \/ snapshot' = [snapshot EXCEPT ![p] = loaded[p][t]]
      PROVE  KeyInv'
  <2>1. loaded' \in [Processes -> [Tasks -> Snapshot]] /\ LoadedUnique'
    BY <1>3, EmptyUnique DEF Done, KeyInv, Shapes, LoadedUnique, OneKeyPerConsumer
  <2>2. snapshot' \in [Processes -> Snapshot]
    BY <1>3 DEF KeyInv, Shapes
  <2>3. OneLiveKey'
    BY <1>3 DEF KeyInv, Shapes, OneLiveKey, LoadedUnique, OneKeyPerConsumer
  <2> QED
    BY <1>3, <2>1, <2>2, <2>3 DEF KeyInv, Shapes, OneActivePerConsumer, IsActive
<1>4. ASSUME NEW p \in Processes, NEW t \in Tasks, Swap(p, t) \/ LoadFails(p, t)
      PROVE  KeyInv'
  BY <1>3, <1>4 DEF Swap, LoadFails, tables
<1>5. ASSUME NEW p \in Processes, Restart(p) PROVE KeyInv'
  <2>1. Picture \in Snapshot /\ OneKeyPerConsumer(Picture)
    BY PictureUnique DEF KeyInv
  <2>2. UNCHANGED <<keys, partner>>
    BY <1>5 DEF Restart, tables
  <2>3. snapshot' \in [Processes -> Snapshot] /\ OneLiveKey'
    BY <1>5, <2>1 DEF Restart, KeyInv, Shapes, OneLiveKey, OneKeyPerConsumer
  <2>4. loaded' \in [Processes -> [Tasks -> Snapshot]] /\ LoadedUnique'
    BY <1>5, EmptyUnique DEF Restart, KeyInv, Shapes, LoadedUnique, OneKeyPerConsumer
  <2> QED
    BY <2>2, <2>3, <2>4 DEF KeyInv, Shapes, OneActivePerConsumer, IsActive
<1>6. ASSUME UNCHANGED <<keys, partner, snapshot, loaded>> PROVE KeyInv'
  BY <1>6 DEF KeyInv, Shapes, LoadedUnique, OneLiveKey, OneActivePerConsumer, IsActive
<1>7. ASSUME \/ \E h \in Hashes : Expire(h)
             \/ \E c \in Consumers : FallDue(c) \/ MarkPaid(c)
             \/ UNCHANGED vars
      PROVE  KeyInv'
  BY <1>6, <1>7 DEF Expire, FallDue, MarkPaid, vars, tables, memory
<1> QED
  BY <1>1, <1>2, <1>4, <1>5, <1>7 DEF Next, Refresh

\* No process ever authenticates two keys of one partner: create's unique index,
\* rotate's one transaction and load_active's one read suffice, without any order
\* between the refreshes of a process.
THEOREM LiveKeyUnique == Spec => []OneLiveKey
<1>1. Init => KeyInv
  BY KeyInit
<1>2. KeyInv /\ [Next]_vars => KeyInv'
  BY KeyStep
<1>3. KeyInv => OneLiveKey
  BY DEF KeyInv
<1> QED
  BY <1>1, <1>2, <1>3, PTL DEF Spec

-----------------------------------------------------------------------------
(* RequestList: the cursor parts what a walk has shown from what it has still   *)
(* to show, whatever is written, finished, pruned or signed between two pages.  *)

KeyNames == {"none", "ours", "theirs"}
WalkType ==
    [pc : {"key", "store", "read", "totals", "ended", "refused"}, query : Queries,
     cursor : {<<>>} \cup (Int \X Int), signed : KeyNames, key : KeyNames, got : Seq(Nat),
     due : SUBSET Nat, counted : Nat, exact : Nat]

ListShapes ==
    /\ now \in 0..MaxTime /\ ledger \in Seq(Record \cup {NoRecord})
    /\ cursorKey \in KeyNames
    /\ walk = NoWalk \/ walk \in WalkType

Paging == {"key", "store", "read"}

\* What has been shown has an id and is the credential's; a row shown is not behind
\* the cursor again.
Shown(w) ==
    /\ IsInjective(w.got)
    /\ \A i \in Range(w.got) :
          /\ i \in DOMAIN ledger
          /\ ledger[i] # NoRecord => ledger[i].consumer \in Scope(w.query)
    /\ w.pc \in Paging /\ w.cursor = <<>> => w.got = <<>>
    /\ w.pc \in Paging /\ w.cursor # <<>> =>
          \A i \in Range(w.got) : ledger[i] # NoRecord => ~Before(i, w.cursor)

\* A row that was due and no longer matches never matches again.
DueFixed(w) ==
    /\ w.due \subseteq DOMAIN ledger
    /\ \A i \in w.due : ledger[i] # NoRecord =>
          /\ ledger[i].at < ClosesAt(w.query)
          /\ w.query.status = "completed" => ledger[i].status = "completed"

\* One that still does has been shown, or is behind the cursor.
DueShown(w) ==
    /\ w.pc \in Paging /\ w.cursor = <<>> => w.due = {}
    /\ w.pc \in Paging /\ w.cursor # <<>> =>
          \A i \in w.due : ledger[i] # NoRecord /\ Matches(w.query, i) =>
              i \in Range(w.got) \/ Before(i, w.cursor)
    /\ w.pc = "totals" =>
          \A i \in w.due : ledger[i] # NoRecord /\ Matches(w.query, i) => i \in Range(w.got)

\* The key of the file is stored once, and what is signed is signed with it.
KeyUsed(w) ==
    /\ w.cursor # <<>> => w.signed = cursorKey /\ cursorKey # "none"
    /\ w.pc = "read" => w.key = cursorKey /\ cursorKey # "none"

WalkAnswered(w) ==
    /\ w.pc = "refused" => Refused(w.query)
    /\ w.pc = "ended" => w.counted >= w.exact

WalkInv == walk # NoWalk =>
    Shown(walk) /\ DueFixed(walk) /\ DueShown(walk) /\ KeyUsed(walk) /\ WalkAnswered(walk)

ListInv == ListShapes /\ WalkInv

\* Every finished row of an hour that retention has not come to is in its bucket.
HourlyInv ==
    /\ hourly \in Seq(Record \cup {NoRecord}) /\ DOMAIN hourly = DOMAIN ledger
    /\ \A i \in Ids : /\ ledger[i].status # "in_flight"
                      /\ HourOf(now - RetentionLen) < HourOf(ledger[i].at)
                      => hourly[i] = ledger[i]

-----------------------------------------------------------------------------
(* The window. *)

LEMMA WindowFacts ==
    ASSUME now \in 0..MaxTime, NEW q \in Queries
    PROVE  /\ OpensAt(q) \in Int /\ ClosesAt(q) \in Int /\ WindowOf(q)[2] \in Int
           /\ now \in Int /\ RetentionLen \in Int
           /\ ClosesAt(q) <= now /\ ClosesAt(q) <= WindowOf(q)[2]
<1>1. now \in Int /\ RangeLen \in Int /\ RetentionLen \in Int /\ MaxTime \in Int
  BY ListBounds
<1>2. q \in Query
  BY QueriesAsked
<1>3. WindowOf(q)[1] \in Int /\ WindowOf(q)[2] \in Int
  <2>1. CASE q.range = "recent"
    BY <1>1, <2>1 DEF WindowOf
  <2>2. CASE q.range # "recent"
    <3>1. q.range \in (0..MaxTime) \X (0..MaxTime)
      BY <1>2, <2>2 DEF Query
    <3> QED
      BY <1>1, <2>2, <3>1 DEF WindowOf
  <2> QED
    BY <2>1, <2>2
<1> DEFINE b == WindowOf(q)[2]
<1> HIDE DEF b
<1>4. ClosesAt(q) = IF b <= now THEN b ELSE now
  BY <1>1, <1>3, MinOfTwo DEF ClosesAt, b
<1> QED
  BY <1>1, <1>3, <1>4 DEF OpensAt, b

\* Time opens no window that was closed, and closes none earlier.
LEMMA WindowMoves ==
    ASSUME now \in 0..MaxTime, now' \in 0..MaxTime, now <= now', NEW q \in Queries
    PROVE  /\ OpensAt(q) \in Int /\ OpensAt(q)' \in Int /\ OpensAt(q) <= OpensAt(q)'
           /\ ClosesAt(q) \in Int /\ ClosesAt(q)' \in Int /\ ClosesAt(q) <= ClosesAt(q)'
           /\ Refused(q) => Refused(q)'
<1>1. now \in Int /\ now' \in Int /\ RangeLen \in Int /\ RetentionLen \in Int /\ MaxTime \in Int
  BY ListBounds
<1>2. q \in Query
  BY QueriesAsked
<1>3. PICK a, b, c, d \in Int :
         /\ WindowOf(q)[1] = a /\ WindowOf(q)[2] = b
         /\ WindowOf(q)'[1] = c /\ WindowOf(q)'[2] = d
         /\ a <= c /\ b <= d /\ (a >= b => c >= d)
         /\ (a < now - RetentionLen => c < now' - RetentionLen)
  <2>1. CASE q.range = "recent"
    <3>0. now - RangeLen \in Int /\ now' - RangeLen \in Int
      BY <1>1
    <3>1. PICK x, y \in Int : x = now - RangeLen /\ y = now' - RangeLen
      BY <3>0, Zenon
    <3>2. WindowOf(q) = <<x, now>> /\ WindowOf(q)' = <<y, now'>>
      BY <2>1, <3>1 DEF WindowOf
    <3>3. \A n, m, g, r \in Int : n <= m =>
             /\ n - g <= m - g /\ (n - g >= n => m - g >= m)
             /\ (n - g < n - r => m - g < m - r)
      OBVIOUS
    <3>4. /\ x <= y /\ (x >= now => y >= now')
          /\ (x < now - RetentionLen => y < now' - RetentionLen)
      BY <1>1, <3>1, <3>3
    <3> WITNESS x \in Int, now \in Int, y \in Int, now' \in Int
    <3>5. /\ <<x, now>>[1] = x /\ <<x, now>>[2] = now
          /\ <<y, now'>>[1] = y /\ <<y, now'>>[2] = now'
      OBVIOUS
    <3> QED
      BY <3>2, <3>4, <3>5, Zenon
  <2>2. CASE q.range # "recent"
    <3>1. q.range \in (0..MaxTime) \X (0..MaxTime)
      BY <1>2, <2>2 DEF Query
    <3>2. PICK x, y \in Int : q.range = <<x, y>>
      BY <1>1, <3>1
    <3>3. WindowOf(q) = <<x, y>> /\ WindowOf(q)' = <<x, y>>
      BY <2>2, <3>2 DEF WindowOf
    <3>4. x < now - RetentionLen => x < now' - RetentionLen
      <4>1. \A a, n, m, r \in Int : n <= m /\ a < n - r => a < m - r
        OBVIOUS
      <4> QED
        BY <1>1, <4>1
    <3>5. x <= x /\ y <= y /\ <<x, y>>[1] = x /\ <<x, y>>[2] = y
      OBVIOUS
    <3> WITNESS x \in Int, y \in Int, x \in Int, y \in Int
    <3> QED
      BY <3>3, <3>4, <3>5, Zenon
  <2> QED
    BY <2>1, <2>2
<1>4. /\ ClosesAt(q) = IF b <= now THEN b ELSE now
      /\ ClosesAt(q)' = IF d <= now' THEN d ELSE now'
  BY <1>1, <1>3, MinOfTwo DEF ClosesAt
<1>5. OpensAt(q) = a /\ OpensAt(q)' = c
  BY <1>3 DEF OpensAt
<1>6. Refused(q) => Refused(q)'
  BY <1>3 DEF Refused
<1>7. ClosesAt(q) \in Int /\ ClosesAt(q)' \in Int /\ ClosesAt(q) <= ClosesAt(q)'
  BY <1>1, <1>3, <1>4
<1> QED
  BY <1>3, <1>5, <1>6, <1>7

-----------------------------------------------------------------------------
(* The order of a page. *)

LEMMA RowFacts ==
    ASSUME ledger \in Seq(Record \cup {NoRecord})
    PROVE  /\ Len(ledger) \in Nat /\ DOMAIN ledger = 1..Len(ledger)
           /\ Ids \subseteq 1..Len(ledger) /\ Ids \subseteq Nat /\ IsFiniteSet(Ids)
           /\ \A i \in Ids : /\ ledger[i] \in Record /\ ledger[i].at \in Nat
                             /\ ledger[i].consumer \in ConsumerIds
<1>1. Len(ledger) \in Nat /\ DOMAIN ledger = 1..Len(ledger)
  OBVIOUS
<1>2. Ids \subseteq 1..Len(ledger)
  BY <1>1 DEF Ids
<1>3. IsFiniteSet(Ids)
  <2>1. IsFiniteSet(1..Len(ledger))
    BY <1>1, FS_Interval
  <2> QED
    BY <1>2, <2>1, FS_Subset
<1>4. \A i \in Ids : ledger[i] \in Record
  BY <1>1 DEF Ids
<1>5. \A r \in Record : r.at \in Nat /\ r.consumer \in ConsumerIds
  BY ListBounds DEF Record
<1> QED
  BY <1>1, <1>2, <1>3, <1>4, <1>5

\* Of several rows one comes last.
LEMMA LastRow ==
    ASSUME ledger \in Seq(Record \cup {NoRecord}), NEW T \in SUBSET Ids, T # {}
    PROVE  \E m \in T : \A i \in T \ {m} : Later(i, m)
<1>1. T \subseteq Nat /\ \A i \in T : ledger[i].at \in Nat
  BY RowFacts
<1> DEFINE Times == {ledger[i].at : i \in T}
<1>2. PICK t \in Times : \A u \in Times : t <= u
  <2>1. Times \subseteq Nat /\ Times # {}
    BY <1>1
  <2> QED
    BY <2>1, LeastNatural
<1> DEFINE Same == {i \in T : ledger[i].at = t}
<1>3. PICK m \in Same : \A i \in Same : m <= i
  <2>1. Same \subseteq Nat /\ Same # {}
    BY <1>1, <1>2
  <2> QED
    BY <2>1, LeastNatural
<1>4. ASSUME NEW i \in T \ {m} PROVE Later(i, m)
  <2>1. ledger[i].at \in Nat /\ ledger[m].at = t /\ m \in Nat /\ i \in Nat /\ t <= ledger[i].at
    BY <1>1, <1>2, <1>3
  <2>2. ledger[i].at = t => m <= i
    BY <1>3
  <2>3. t \in Nat
    BY <1>1, <1>2
  <2> QED
    BY <2>1, <2>2, <2>3 DEF Later
<1> QED
  BY <1>3, <1>4

InOrder(f) == \A i, j \in DOMAIN f : i < j => Later(f[i], f[j])

LEMMA OrderExists ==
    ASSUME ledger \in Seq(Record \cup {NoRecord}), NEW S \in SUBSET Ids
    PROVE  \E f \in SetToSeqs(S) : InOrder(f)
<1> DEFINE B == {t \in SUBSET S : ~\E f \in SetToSeqs(t) : InOrder(f)}
<1>1. SUFFICES ASSUME B # {} PROVE FALSE
  BY DEF B
<1>0. IsFiniteSet(S) /\ S \subseteq Nat /\ \A t \in B : IsFiniteSet(t)
  BY RowFacts, FS_Subset
<1>2. PICK t \in B : \A u \in B : Cardinality(t) <= Cardinality(u)
  BY <1>0, <1>1, SmallestSet
<1>3. t \subseteq S /\ t \in SUBSET Ids /\ IsFiniteSet(t)
  BY <1>0, <1>2
<1>4. t # {}
  <2>1. SUFFICES ASSUME t = {} PROVE FALSE
    OBVIOUS
  <2>2. Cardinality(t) = 0
    BY <2>1, FS_EmptySet
  <2> DEFINE f == [i \in 1..0 |-> i]
  <2>3. f \in SetToSeqs(t) /\ InOrder(f)
    BY <2>1, <2>2 DEF SetToSeqs, InOrder
  <2> QED
    BY <1>2, <2>3
<1>5. PICK m \in t : \A i \in t \ {m} : Later(i, m)
  BY <1>3, <1>4, LastRow
<1> DEFINE u == t \ {m}
           n == Cardinality(u)
<1>6. IsFiniteSet(u) /\ n \in Nat /\ Cardinality(t) = n + 1
  <2>1. Cardinality(t) \in Nat /\ n \in Nat /\ n = Cardinality(t) - 1 /\ IsFiniteSet(u)
    BY <1>3, <1>5, Smaller
  <2> QED
    BY <2>1
<1>7. u \notin B
  <2> HIDE DEF B
  <2> QED
    BY <1>2, <1>3, <1>5, Smallest
<1>8. PICK g \in SetToSeqs(u) : InOrder(g)
  BY <1>3, <1>7
<1>9. g \in [1..n -> u] /\ \A i, j \in 1..n : i # j => g[i] # g[j]
  BY <1>8 DEF SetToSeqs
<1>99. u \subseteq t /\ m \notin u /\ m \in t
  OBVIOUS
<1> HIDE DEF n, u
<1> DEFINE f == [i \in 1..(n + 1) |-> IF i <= n THEN g[i] ELSE m]
<1>10. f \in [1..(n + 1) -> t] /\ DOMAIN f = 1..(n + 1)
  BY <1>99, <1>6, <1>9
<1>11. \A i \in 1..n : f[i] = g[i] /\ f[i] \in u /\ f[i] # m
  BY <1>99, <1>6, <1>9
<1>12. f[n + 1] = m
  BY <1>6
<1> HIDE DEF f
<1>13. \A i, j \in 1..(n + 1) : i # j => f[i] # f[j]
  <2> SUFFICES ASSUME NEW i \in 1..(n + 1), NEW j \in 1..(n + 1), i # j
               PROVE  f[i] # f[j]
    OBVIOUS
  <2>1. CASE i \in 1..n /\ j \in 1..n
    BY <1>9, <1>11, <2>1
  <2>2. CASE i = n + 1 /\ j \in 1..n
    BY <1>11, <1>12, <2>2
  <2>3. CASE i \in 1..n /\ j = n + 1
    BY <1>11, <1>12, <2>3
  <2> QED
    BY <1>6, <2>1, <2>2, <2>3
<1>14. \A i, j \in 1..(n + 1) : i < j => Later(f[i], f[j])
  <2> SUFFICES ASSUME NEW i \in 1..(n + 1), NEW j \in 1..(n + 1), i < j
               PROVE  Later(f[i], f[j])
    OBVIOUS
  <2>1. i \in 1..n
    BY <1>6
  <2>2. CASE j \in 1..n
    BY <1>8, <1>9, <1>11, <2>1, <2>2 DEF InOrder
  <2>3. CASE j = n + 1
    BY <1>5, <1>11, <1>12, <2>1, <2>3 DEF u
  <2> QED
    BY <1>6, <2>2, <2>3
<1>15. f \in SetToSeqs(t) /\ InOrder(f)
  BY <1>6, <1>10, <1>13, <1>14 DEF SetToSeqs, InOrder
<1> QED
  BY <1>2, <1>15

\* A page's rows, in order and each once.
LEMMA OrderedFacts ==
    ASSUME ledger \in Seq(Record \cup {NoRecord}), NEW S \in SUBSET Ids
    PROVE  /\ Ordered(S) \in Seq(S) /\ Ordered(S) \in Seq(Nat) /\ Len(Ordered(S)) \in Nat
           /\ DOMAIN Ordered(S) = 1..Len(Ordered(S))
           /\ \A i, j \in 1..Len(Ordered(S)) :
                /\ Ordered(S)[i] = Ordered(S)[j] => i = j
                /\ i < j => Later(Ordered(S)[i], Ordered(S)[j])
           /\ \A x \in S : \E i \in 1..Len(Ordered(S)) : Ordered(S)[i] = x
           /\ \A i \in 1..Len(Ordered(S)) : Ordered(S)[i] \in S
<1> DEFINE f == Ordered(S)
           n == Cardinality(S)
<1>0. IsFiniteSet(S) /\ S \subseteq Nat /\ n \in Nat
  BY RowFacts, FS_Subset, FS_CardinalityType
<1>1. f \in SetToSeqs(S) /\ InOrder(f)
  BY OrderExists DEF Ordered, InOrder
<1> HIDE DEF f, n
<1>2. f \in [1..n -> S] /\ \A i, j \in 1..n : i # j => f[i] # f[j]
  BY <1>1 DEF SetToSeqs, n
<1>3. f \in Seq(S) /\ f \in Seq(Nat) /\ Len(f) = n /\ DOMAIN f = 1..n
  <2>1. f \in [1..n -> Nat]
    BY <1>0, <1>2
  <2>2. f \in Seq(S)
    BY <1>0, <1>2, SeqDef
  <2>3. f \in Seq(Nat)
    BY <1>0, <2>1, SeqDef
  <2>4. DOMAIN f = 1..n /\ DOMAIN f = 1..Len(f) /\ Len(f) \in Nat
    BY <1>2, <2>2
  <2> QED
    BY <1>0, <2>2, <2>3, <2>4
<1>4. \A x \in S : \E i \in 1..n : f[i] = x
  <2>1. f \in Injection(1..n, S)
    BY <1>2 DEF Injection, IsInjective
  <2>2. IsFiniteSet(1..n) /\ Cardinality(1..n) = n
    BY <1>0, FS_Interval
  <2>3. f \in Surjection(1..n, S)
    BY <1>0, <2>1, <2>2, FS_Injection DEF n
  <2> QED
    BY <2>3 DEF Surjection
<1>5. \A i, j \in 1..n : i < j => Later(f[i], f[j])
  BY <1>1, <1>3 DEF InOrder
<1> QED
  BY <1>0, <1>2, <1>3, <1>4, <1>5 DEF f
-----------------------------------------------------------------------------
(* The steps. *)

LEMMA WalkFacts ==
    ASSUME ListShapes, walk.pc # "idle"
    PROVE  walk # NoWalk /\ walk \in WalkType
BY DEF ListShapes, NoWalk

LEMMA ListInitHolds == ListInit => ListInv
<1>1. <<>> \in Seq(Record \cup {NoRecord})
  OBVIOUS
<1> QED
  BY <1>1, ListBounds DEF ListInit, ListInv, ListShapes, WalkInv, KeyNames

\* While the walk rests: time passes, rows are added, finished or pruned, a key is stored.
LEMMA Meanwhile ==
    ASSUME ListInv, walk' = walk, now' \in 0..MaxTime, now <= now',
           ledger' \in Seq(Record \cup {NoRecord}), DOMAIN ledger \subseteq DOMAIN ledger',
           cursorKey' \in KeyNames, cursorKey # "none" => cursorKey' = cursorKey,
           \A i \in DOMAIN ledger : ledger'[i] # NoRecord =>
               /\ ledger[i] # NoRecord /\ ledger'[i].at = ledger[i].at
               /\ ledger'[i].consumer = ledger[i].consumer
               /\ ledger'[i].status \in {ledger[i].status, "completed"}
    PROVE  ListInv'
<1>1. ListShapes'
  BY DEF ListInv, ListShapes, WalkType
<1>2. CASE walk = NoWalk
  BY <1>1, <1>2 DEF ListInv, WalkInv, NoWalk
<1>3. CASE walk # NoWalk
  <2>1. PICK w \in WalkType : w = walk /\ w = walk'
    BY <1>3 DEF ListInv, ListShapes
  <2>2. PICK q \in Queries : q = w.query
    BY DEF WalkType
  <2>3. Shown(w) /\ DueFixed(w) /\ DueShown(w) /\ KeyUsed(w) /\ WalkAnswered(w)
    BY <1>3, <2>1 DEF ListInv, WalkInv
  <2>4. /\ OpensAt(q) \in Int /\ OpensAt(q)' \in Int /\ OpensAt(q) <= OpensAt(q)'
        /\ ClosesAt(q) \in Int /\ ClosesAt(q)' \in Int /\ ClosesAt(q) <= ClosesAt(q)'
        /\ Refused(q) => Refused(q)'
    <3>1. now \in 0..MaxTime
      BY DEF ListInv, ListShapes
    <3> QED
      BY <3>1, WindowMoves
  <2>5. Range(w.got) \subseteq DOMAIN ledger /\ w.due \subseteq DOMAIN ledger
    BY <2>3 DEF Shown, DueFixed
  <2>6. Shown(w)'
    BY <2>3, <2>5 DEF Shown, Before, Scope
  <2>7. ASSUME NEW i \in w.due, ledger'[i] # NoRecord
        PROVE  /\ i \in DOMAIN ledger /\ i \in DOMAIN ledger'
               /\ ledger[i] # NoRecord /\ ledger'[i].at = ledger[i].at /\ ledger[i].at \in Int
               /\ ledger'[i].consumer = ledger[i].consumer
               /\ ledger'[i].status \in {ledger[i].status, "completed"}
               /\ ledger[i].at < ClosesAt(q)
               /\ q.status = "completed" => ledger[i].status = "completed"
    <3>1. ledger \in Seq(Record \cup {NoRecord}) /\ i \in DOMAIN ledger
      BY <2>5 DEF ListInv, ListShapes
    <3>2. ledger[i] # NoRecord
      BY <2>7, <3>1
    <3>3. ledger[i].at \in Int
      BY <3>1, <3>2, RowFacts DEF Ids
    <3> QED
      BY <2>2, <2>3, <2>7, <3>1, <3>2, <3>3 DEF DueFixed
  <2>8. DueFixed(w)'
    BY <2>2, <2>4, <2>5, <2>7 DEF DueFixed
  <2>9. ASSUME NEW i \in w.due, ledger'[i] # NoRecord, Matches(q, i)'
        PROVE  ledger[i] # NoRecord /\ Matches(q, i) /\ \A c : Before(i, c) => Before(i, c)'
    <3>1. ledger[i].consumer \in Scope(q)
      BY <2>7, <2>9 DEF Matches, Scope
    <3>2. OpensAt(q) <= ledger[i].at
      BY <2>4, <2>7, <2>9 DEF Matches
    <3>3. q.status = "all" \/ ledger[i].status = q.status
      BY <2>7, <2>9 DEF Matches
    <3>4. \A c : Before(i, c) => Before(i, c)'
      BY <2>7, <2>9 DEF Before
    <3> QED
      BY <2>7, <2>9, <3>1, <3>2, <3>3, <3>4 DEF Matches
  <2>10. DueShown(w)'
    BY <2>2, <2>3, <2>9 DEF DueShown
  <2>11. KeyUsed(w)' /\ WalkAnswered(w)'
    BY <2>2, <2>3, <2>4 DEF KeyUsed, WalkAnswered
  <2> QED
    BY <1>1, <2>1, <2>6, <2>8, <2>10, <2>11 DEF ListInv, WalkInv
<1> QED
  BY <1>2, <1>3

\* A step of the walk itself, over a ledger that stands still.
LEMMA WalkStep ==
    ASSUME ListInv, UNCHANGED <<now, ledger>>, cursorKey' \in KeyNames,
           NEW w \in WalkType, walk' = w,
           Shown(w), DueFixed(w), DueShown(w), KeyUsed(w)', WalkAnswered(w)
    PROVE  ListInv'
<1>1. ListShapes'
  BY DEF ListInv, ListShapes
<1>2. Shown(w)' /\ WalkAnswered(w)'
  BY DEF Shown, WalkAnswered, Before, Scope, Refused, WindowOf
<1>3. DueFixed(w)' /\ DueShown(w)'
  BY DEF DueFixed, DueShown, Before, Scope, Matches, OpensAt, ClosesAt, WindowOf
<1> QED
  BY <1>1, <1>2, <1>3 DEF ListInv, WalkInv

LEMMA TickKeeps == ASSUME ListInv, Tick PROVE ListInv'
<1>1. now' \in 0..MaxTime /\ now <= now' /\ walk' = walk /\ ledger' = ledger
      /\ cursorKey' = cursorKey
  BY ListBounds DEF ListInv, ListShapes, Tick
<1>2. ledger' \in Seq(Record \cup {NoRecord}) /\ cursorKey' \in KeyNames
  BY <1>1 DEF ListInv, ListShapes
<1> QED
  BY <1>1, <1>2, Meanwhile

LEMMA OthersKeyKeeps == ASSUME ListInv, OthersKey PROVE ListInv'
<1>1. now' = now /\ walk' = walk /\ ledger' = ledger /\ cursorKey = "none"
      /\ cursorKey' \in KeyNames
  BY DEF OthersKey, KeyNames
<1>2. now' \in 0..MaxTime /\ now <= now' /\ ledger' \in Seq(Record \cup {NoRecord})
  BY <1>1, ListBounds DEF ListInv, ListShapes
<1> QED
  BY <1>1, <1>2, Meanwhile

LEMMA StandKeeps == ASSUME ListInv, UNCHANGED listVars PROVE ListInv'
<1>1. now' = now /\ walk' = walk /\ ledger' = ledger /\ cursorKey' = cursorKey
  BY DEF listVars
<1>2. /\ now' \in 0..MaxTime /\ now <= now' /\ ledger' \in Seq(Record \cup {NoRecord})
      /\ cursorKey' \in KeyNames
  BY <1>1, ListBounds DEF ListInv, ListShapes
<1> QED
  BY <1>1, <1>2, Meanwhile

LEMMA InsertRowKeeps ==
    ASSUME ListInv, NEW c \in ConsumerIds, NEW t, InsertRow(c, t) PROVE ListInv'
<1> DEFINE r == [at |-> t, consumer |-> c, status |-> "in_flight"]
<1>1. /\ now' = now /\ walk' = walk /\ cursorKey' = cursorKey /\ t \in 0..now
      /\ ledger' = Append(ledger, r)
  BY DEF InsertRow
<1>2. /\ now \in 0..MaxTime /\ now <= now' /\ cursorKey' \in KeyNames
      /\ ledger \in Seq(Record \cup {NoRecord})
  BY <1>1, ListBounds DEF ListInv, ListShapes
<1>3. r \in Record
  BY <1>1, <1>2, ListBounds DEF Record
<1> HIDE DEF r
<1>4. /\ ledger' \in Seq(Record \cup {NoRecord}) /\ DOMAIN ledger \subseteq DOMAIN ledger'
      /\ \A i \in DOMAIN ledger : ledger'[i] = ledger[i]
  BY <1>1, <1>2, <1>3
<1> QED
  BY <1>1, <1>2, <1>4, Meanwhile

LEMMA CompleteKeeps ==
    ASSUME ListInv, NEW i \in Ids, Complete(i) PROVE ListInv'
<1>1. /\ now' = now /\ walk' = walk /\ cursorKey' = cursorKey
      /\ ledger' = [ledger EXCEPT ![i].status = "completed"]
  BY DEF Complete
<1>2. /\ now \in 0..MaxTime /\ now <= now' /\ cursorKey' \in KeyNames
      /\ ledger \in Seq(Record \cup {NoRecord})
  BY <1>1, ListBounds DEF ListInv, ListShapes
<1>3. i \in DOMAIN ledger /\ ledger[i] \in Record /\ ledger[i] # NoRecord
  BY <1>2, RowFacts DEF Ids
<1> DEFINE r == [ledger[i] EXCEPT !.status = "completed"]
<1>4. /\ r \in Record /\ r.at = ledger[i].at /\ r.consumer = ledger[i].consumer
      /\ r.status = "completed"
  BY <1>3 DEF Record
<1>5. ledger' = [ledger EXCEPT ![i] = r]
  BY <1>1, <1>2, <1>3
<1> HIDE DEF r
<1>6. /\ ledger' \in Seq(Record \cup {NoRecord}) /\ DOMAIN ledger = DOMAIN ledger'
      /\ ledger'[i] = r /\ \A j \in DOMAIN ledger : j # i => ledger'[j] = ledger[j]
  BY <1>2, <1>3, <1>4, <1>5
<1>7. \A j \in DOMAIN ledger : ledger'[j] # NoRecord =>
               /\ ledger[j] # NoRecord /\ ledger'[j].at = ledger[j].at
               /\ ledger'[j].consumer = ledger[j].consumer
               /\ ledger'[j].status \in {ledger[j].status, "completed"}
  BY <1>3, <1>4, <1>6
<1> QED
  BY <1>1, <1>2, <1>6, <1>7, Meanwhile

LEMMA PruneKeeps ==
    ASSUME ListInv, NEW i \in Ids, Prune(i) PROVE ListInv'
<1>1. /\ now' = now /\ walk' = walk /\ cursorKey' = cursorKey
      /\ ledger' = [ledger EXCEPT ![i] = NoRecord]
  BY DEF Prune
<1>2. /\ now \in 0..MaxTime /\ now <= now' /\ cursorKey' \in KeyNames
      /\ ledger \in Seq(Record \cup {NoRecord})
  BY <1>1, ListBounds DEF ListInv, ListShapes
<1>3. i \in DOMAIN ledger
  BY DEF Ids
<1>4. /\ ledger' \in Seq(Record \cup {NoRecord}) /\ DOMAIN ledger = DOMAIN ledger'
      /\ ledger'[i] = NoRecord /\ \A j \in DOMAIN ledger : j # i => ledger'[j] = ledger[j]
  BY <1>1, <1>2, <1>3
<1> QED
  BY <1>1, <1>2, <1>4, Meanwhile

LEMMA PruneBucketKeeps ==
    ASSUME ListInv, NEW c, NEW hour, PruneBucket(c, hour) PROVE ListInv'
<1>1. now' = now /\ walk' = walk /\ ledger' = ledger /\ cursorKey' = cursorKey
  BY DEF PruneBucket
<1>2. /\ now' \in 0..MaxTime /\ now <= now' /\ ledger' \in Seq(Record \cup {NoRecord})
      /\ cursorKey' \in KeyNames
  BY <1>1, ListBounds DEF ListInv, ListShapes
<1> QED
  BY <1>1, <1>2, Meanwhile

LEMMA BeginKeeps ==
    ASSUME ListInv, NEW q \in Queries, Begin(q) PROVE ListInv'
<1> DEFINE w == [pc |-> "key", query |-> q, cursor |-> <<>>, signed |-> "none",
                 key |-> "none", got |-> <<>>, due |-> {}, counted |-> 0, exact |-> 0]
<1>1. walk' = w /\ UNCHANGED <<now, ledger>> /\ cursorKey' = cursorKey
  BY DEF Begin
<1>2. <<>> \in Seq(Nat)
  OBVIOUS
<1>3. /\ w \in WalkType /\ w.pc = "key" /\ w.cursor = <<>> /\ w.got = <<>> /\ w.due = {}
  BY <1>2 DEF WalkType, KeyNames
<1> HIDE DEF w
<1>4. cursorKey' \in KeyNames
  BY <1>1 DEF ListInv, ListShapes
<1>5. IsInjective(<<>>) /\ Range(<<>>) = {}
  BY DEF IsInjective, Range
<1>6. Shown(w) /\ DueFixed(w) /\ DueShown(w) /\ KeyUsed(w)' /\ WalkAnswered(w)
  BY <1>3, <1>5 DEF Shown, DueFixed, DueShown, KeyUsed, WalkAnswered
<1> QED
  BY <1>1, <1>3, <1>4, <1>6, WalkStep

\* Between two pages only the place in the handler moves.
LEMMA PlaceKeeps ==
    ASSUME ListInv, UNCHANGED <<now, ledger>>, cursorKey' \in KeyNames, walk.pc \in Paging,
           NEW w \in WalkType, walk' = w, w.pc \in Paging \cup {"refused"},
           w.query = walk.query, w.cursor = walk.cursor, w.got = walk.got, w.due = walk.due,
           KeyUsed(w)', w.pc = "refused" => Refused(walk.query)
    PROVE  ListInv'
<1>1. walk # NoWalk
  BY DEF NoWalk, Paging
<1>2. Shown(walk) /\ DueFixed(walk) /\ DueShown(walk)
  BY <1>1 DEF ListInv, WalkInv
<1>3. w.pc # "totals" /\ w.pc # "ended" /\ (w.pc = "refused" => w.pc \notin Paging)
  BY DEF Paging
<1>4. Shown(w)
  BY <1>2, <1>3 DEF Shown
<1>5. DueFixed(w) /\ DueShown(w)
  BY <1>2, <1>3 DEF DueFixed, DueShown
<1>6. WalkAnswered(w)
  BY <1>3 DEF WalkAnswered
<1> QED
  BY <1>4, <1>5, <1>6, WalkStep

LEMMA ReadKeyKeeps == ASSUME ListInv, ReadKey PROVE ListInv'
<1>1. walk \in WalkType /\ walk # NoWalk /\ walk.pc = "key" /\ walk.pc \in Paging
  <2>1. walk.pc = "key"
    BY DEF ReadKey
  <2> QED
    BY <2>1, WalkFacts DEF ListInv, Paging
<1>2. KeyUsed(walk) /\ UNCHANGED <<now, ledger>> /\ cursorKey' = cursorKey
  BY <1>1 DEF ListInv, WalkInv, ReadKey
<1>3. cursorKey' \in KeyNames
  BY <1>2 DEF ListInv, ListShapes
<1>4. PICK w : w = walk'
  OBVIOUS
<1>5. CASE Refused(walk.query)
  <2>1. w = [walk EXCEPT !.pc = "refused"]
    BY <1>4, <1>5 DEF ReadKey
  <2>2. /\ w \in WalkType /\ w.pc = "refused" /\ w.query = walk.query /\ w.cursor = walk.cursor
        /\ w.got = walk.got /\ w.due = walk.due /\ w.signed = walk.signed
    BY <1>1, <2>1 DEF WalkType
  <2>3. KeyUsed(w)'
    BY <1>2, <2>2 DEF KeyUsed
  <2> QED
    BY <1>1, <1>2, <1>3, <1>4, <1>5, <2>2, <2>3, PlaceKeeps
<1>6. CASE ~Refused(walk.query) /\ cursorKey = "none"
  <2>1. w = [walk EXCEPT !.pc = "store"]
    BY <1>4, <1>6 DEF ReadKey
  <2>2. /\ w \in WalkType /\ w.pc = "store" /\ w.query = walk.query /\ w.cursor = walk.cursor
        /\ w.got = walk.got /\ w.due = walk.due /\ w.signed = walk.signed
    BY <1>1, <2>1 DEF WalkType
  <2>3. KeyUsed(w)' /\ w.pc \in Paging
    BY <1>2, <2>2 DEF KeyUsed, Paging
  <2> QED
    BY <1>1, <1>2, <1>3, <1>4, <2>2, <2>3, PlaceKeeps
<1>7. CASE ~Refused(walk.query) /\ cursorKey # "none"
  <2>0. ~(walk.cursor # <<>> /\ walk.signed # cursorKey)
    BY <1>2 DEF KeyUsed
  <2>1. w = [walk EXCEPT !.pc = "read", !.key = cursorKey]
    BY <1>4, <1>7, <2>0 DEF ReadKey
  <2>2. /\ w \in WalkType /\ w.pc = "read" /\ w.query = walk.query /\ w.cursor = walk.cursor
        /\ w.got = walk.got /\ w.due = walk.due /\ w.signed = walk.signed /\ w.key = cursorKey
    BY <1>1, <1>2, <1>3, <2>1 DEF WalkType
  <2>3. KeyUsed(w)' /\ w.pc \in Paging
    BY <1>2, <1>7, <2>2 DEF KeyUsed, Paging
  <2> QED
    BY <1>1, <1>2, <1>3, <1>4, <2>2, <2>3, PlaceKeeps
<1> QED
  BY <1>5, <1>6, <1>7

LEMMA StoreKeyKeeps == ASSUME ListInv, StoreKey PROVE ListInv'
<1>1. walk \in WalkType /\ walk # NoWalk /\ walk.pc = "store" /\ walk.pc \in Paging
  <2>1. walk.pc = "store"
    BY DEF StoreKey
  <2> QED
    BY <2>1, WalkFacts DEF ListInv, Paging
<1>2. KeyUsed(walk) /\ UNCHANGED <<now, ledger>>
  BY <1>1 DEF ListInv, WalkInv, StoreKey
<1>3. cursorKey' \in KeyNames /\ (cursorKey # "none" => cursorKey' = cursorKey)
  BY DEF ListInv, ListShapes, StoreKey, KeyNames
<1>4. PICK w : w = walk'
  OBVIOUS
<1>5. w = [walk EXCEPT !.pc = "key"]
  BY <1>4 DEF StoreKey
<1>6. /\ w \in WalkType /\ w.pc = "key" /\ w.query = walk.query /\ w.cursor = walk.cursor
      /\ w.got = walk.got /\ w.due = walk.due /\ w.signed = walk.signed
  BY <1>1, <1>5 DEF WalkType
<1>7. KeyUsed(w)' /\ w.pc \in Paging
  BY <1>2, <1>3, <1>6 DEF KeyUsed, Paging
<1> QED
  BY <1>1, <1>2, <1>3, <1>4, <1>6, <1>7, PlaceKeeps

\* Of two instants the earlier is not in a later hour.
LEMMA HourMonotone ==
    ASSUME NEW a \in Int, NEW b \in Int, a <= b
    PROVE  HourOf(a) \in Int /\ HourOf(b) \in Int /\ HourOf(a) <= HourOf(b)
<1>1. HourUnits \in Nat \ {0}
  BY ListBounds
<1>2. PICK h \in Int : h = HourUnits /\ h > 0
  BY <1>1
<1>3. PICK x \in Int : x = a \div h /\ h * x <= a /\ a < h * x + h
  BY <1>2
<1>4. PICK y \in Int : y = b \div h /\ h * y <= b /\ b < h * y + h
  BY <1>2
<1>5. h * x < h * (y + 1)
  <2>1. h * (y + 1) = h * y + h
    OBVIOUS
  <2> QED
    BY <1>3, <1>4, <2>1
<1>6. x < y + 1
  BY <1>2, <1>5
<1> QED
  BY <1>2, <1>3, <1>4, <1>6 DEF HourOf

\* The buckets follow the rows.
LEMMA HourlyStands ==
    ASSUME HourlyInv, hourly' = hourly, now \in 0..MaxTime, now' \in 0..MaxTime, now <= now',
           ledger \in Seq(Record \cup {NoRecord}), DOMAIN ledger' = DOMAIN ledger,
           \A i \in DOMAIN ledger : ledger'[i] # NoRecord => ledger'[i] = ledger[i]
    PROVE  HourlyInv'
<1> SUFFICES ASSUME NEW i \in Ids', ledger'[i].status # "in_flight",
                    HourOf(now' - RetentionLen) < HourOf(ledger'[i].at)
             PROVE  hourly'[i] = ledger'[i]
  BY DEF HourlyInv, HourOf
<1>1. i \in Ids /\ ledger'[i] = ledger[i]
  BY DEF Ids
<1>2. PICK a, b, c \in Int : a = now - RetentionLen /\ b = now' - RetentionLen
                             /\ c = ledger[i].at
  BY <1>1, ListBounds, RowFacts
<1>3. HourOf(a) <= HourOf(b) /\ HourOf(a) \in Int /\ HourOf(b) \in Int /\ HourOf(c) \in Int
  <2>1. a <= b
    BY <1>2, ListBounds
  <2>2. c <= c
    OBVIOUS
  <2>3. HourOf(c) \in Int
    BY <2>2, HourMonotone
  <2> QED
    BY <2>1, <2>3, HourMonotone
<1>4. HourOf(a) < HourOf(c)
  <2>1. HourOf(b) < HourOf(c)
    BY <1>1, <1>2 DEF HourOf
  <2> QED
    BY <1>3, <2>1
<1>5. hourly[i] = ledger[i]
  BY <1>1, <1>2, <1>4 DEF HourlyInv
<1> QED
  BY <1>1, <1>5

LEMMA HourlyAppended ==
    ASSUME ListShapes, HourlyInv, NEW c \in ConsumerIds, NEW t, InsertRow(c, t)
    PROVE  HourlyInv'
<1> DEFINE r == [at |-> t, consumer |-> c, status |-> "in_flight"]
<1>1. now' = now /\ ledger' = Append(ledger, r) /\ hourly' = Append(hourly, NoRecord)
  BY DEF InsertRow
<1>2. /\ ledger \in Seq(Record \cup {NoRecord}) /\ hourly \in Seq(Record \cup {NoRecord})
      /\ DOMAIN hourly = DOMAIN ledger
  BY DEF ListShapes, HourlyInv
<1>3. Len(hourly) = Len(ledger)
  BY <1>2
<1>4. r.status = "in_flight"
  OBVIOUS
<1>5. t \in 0..now /\ now \in 0..MaxTime /\ r \in Record
  BY ListBounds DEF InsertRow, ListShapes, Record
<1> HIDE DEF r
<1>6. /\ hourly' \in Seq(Record \cup {NoRecord}) /\ DOMAIN hourly' = DOMAIN ledger'
      /\ DOMAIN ledger' = DOMAIN ledger \cup {Len(ledger) + 1} /\ ledger'[Len(ledger) + 1] = r
      /\ \A i \in DOMAIN ledger : ledger'[i] = ledger[i] /\ hourly'[i] = hourly[i]
  BY <1>1, <1>2, <1>3, <1>5
<1>7. \A i \in Ids' : ledger'[i].status # "in_flight" =>
          i \in Ids /\ ledger'[i] = ledger[i] /\ hourly'[i] = hourly[i]
  BY <1>4, <1>6 DEF Ids
<1> QED
  BY <1>1, <1>6, <1>7 DEF HourlyInv, HourOf

LEMMA HourlyCompleted ==
    ASSUME ListShapes, HourlyInv, NEW i \in Ids, Complete(i) PROVE HourlyInv'
<1>1. /\ now' = now /\ ledger' = [ledger EXCEPT ![i].status = "completed"]
      /\ hourly' = [hourly EXCEPT ![i] = ledger'[i]]
  BY DEF Complete
<1>2. /\ ledger \in Seq(Record \cup {NoRecord}) /\ hourly \in Seq(Record \cup {NoRecord})
      /\ DOMAIN hourly = DOMAIN ledger
  BY DEF ListShapes, HourlyInv
<1>3. i \in DOMAIN ledger /\ ledger[i] \in Record
  BY <1>2, RowFacts DEF Ids, ListShapes
<1>4. /\ DOMAIN ledger' = DOMAIN ledger /\ DOMAIN hourly' = DOMAIN hourly
      /\ hourly'[i] = ledger'[i] /\ ledger'[i] \in Record
      /\ \A j \in DOMAIN ledger : j # i => ledger'[j] = ledger[j] /\ hourly'[j] = hourly[j]
  BY <1>1, <1>2, <1>3 DEF Record
<1>5. hourly' \in Seq(Record \cup {NoRecord})
  <2>1. PICK r \in Record : r = ledger'[i]
    BY <1>4
  <2>2. hourly' = [hourly EXCEPT ![i] = r]
    BY <1>1, <2>1
  <2> QED
    BY <1>2, <1>3, <2>2
<1>6. \A j \in Ids' : j # i => j \in Ids
  BY <1>4 DEF Ids
<1> QED
  BY <1>1, <1>2, <1>4, <1>5, <1>6 DEF HourlyInv, HourOf

LEMMA HourlyPruned ==
    ASSUME ListShapes, HourlyInv, NEW c, NEW hour, PruneBucket(c, hour) PROVE HourlyInv'
<1> DEFINE bucket == {i \in DOMAIN hourly : /\ hourly[i] # NoRecord /\ hourly[i].consumer = c
                                           /\ HourOf(hourly[i].at) = hour}
<1>1. /\ now' = now /\ ledger' = ledger /\ hour <= HourOf(now - RetentionLen)
      /\ hourly' = [i \in DOMAIN hourly |-> IF i \in bucket THEN NoRecord ELSE hourly[i]]
  BY DEF PruneBucket
<1>2. hourly \in Seq(Record \cup {NoRecord}) /\ now \in 0..MaxTime
      /\ ledger \in Seq(Record \cup {NoRecord})
  BY DEF HourlyInv, ListShapes
<1>3. /\ hourly' \in Seq(Record \cup {NoRecord}) /\ DOMAIN hourly' = DOMAIN hourly
      /\ \A i \in DOMAIN hourly : i \notin bucket => hourly'[i] = hourly[i]
  <2> HIDE DEF bucket
  <2> QED
    BY <1>1, <1>2
<1>4. ASSUME NEW i \in Ids, HourOf(now - RetentionLen) < HourOf(ledger[i].at),
             hourly[i] = ledger[i]
      PROVE  i \notin bucket
  <2>1. PICK a, b \in Int : a = now - RetentionLen /\ b = ledger[i].at
    BY <1>2, ListBounds, RowFacts
  <2>2. HourOf(a) \in Int /\ HourOf(b) \in Int
    BY ListBounds DEF HourOf
  <2>3. i \in bucket => HourOf(b) <= HourOf(a)
    BY <1>1, <1>4, <2>1
  <2>4. HourOf(a) < HourOf(b)
    BY <1>4, <2>1
  <2> QED
    BY <2>2, <2>3, <2>4
<1>5. Ids' = Ids /\ Ids \subseteq DOMAIN ledger
  BY <1>1 DEF Ids
<1> HIDE DEF bucket
<1> QED
  BY <1>1, <1>3, <1>4, <1>5 DEF HourlyInv, HourOf

LEMMA ReadTotalsKeeps == ASSUME ListInv, HourlyInv, ReadTotals PROVE ListInv'
<1>1. walk \in WalkType /\ walk # NoWalk /\ walk.pc = "totals"
  <2>1. walk.pc = "totals"
    BY DEF ReadTotals
  <2> QED
    BY <2>1, WalkFacts DEF ListInv
<1>2. /\ Shown(walk) /\ DueFixed(walk) /\ KeyUsed(walk)
      /\ UNCHANGED <<now, ledger>> /\ cursorKey' = cursorKey
  BY <1>1 DEF ListInv, WalkInv, ReadTotals
<1>3. /\ cursorKey' \in KeyNames /\ now \in 0..MaxTime
      /\ ledger \in Seq(Record \cup {NoRecord})
  BY <1>2 DEF ListInv, ListShapes
<1>4. PICK w : w = walk'
  OBVIOUS
<1> DEFINE q == walk.query
           m == Cardinality(RolledUp(q))
           n == Cardinality(Settled(q))
<1>5. m \in Nat /\ n \in Nat /\ m >= n
  <2>1. IsFiniteSet(RolledUp(q))
    <3>1. RolledUp(q) \subseteq 1..Len(hourly) /\ Len(hourly) \in Nat
      BY DEF RolledUp, HourlyInv
    <3>2. IsFiniteSet(1..Len(hourly))
      BY <3>1, FS_Interval
    <3> QED
      BY <3>1, <3>2, FS_Subset
  <2>2. Settled(q) \subseteq RolledUp(q)
    <3> SUFFICES ASSUME NEW i \in Settled(q) PROVE i \in RolledUp(q)
      OBVIOUS
    <3>1. q \in Queries
      BY <1>1 DEF WalkType
    <3>2. /\ i \in Ids /\ ledger[i].consumer \in Scope(q) /\ hourly[i] = ledger[i]
          /\ i \in DOMAIN hourly /\ hourly[i] # NoRecord
      BY DEF Settled, HourlyInv, Ids
    <3>3. PICK a, b, c \in Int : a = OpensAt(q) /\ b = ledger[i].at /\ c = ClosesAt(q)
      <4>1. ledger[i].at \in Int
        BY <1>3, <3>2, RowFacts
      <4> QED
        BY <1>3, <3>1, <4>1, WindowFacts
    <3>4. a <= b /\ b <= c
      BY <3>3 DEF Settled
    <3>5. HourOf(a) <= HourOf(b) /\ HourOf(b) <= HourOf(c)
      BY <3>4, HourMonotone
    <3> QED
      BY <3>2, <3>3, <3>5 DEF RolledUp, InHours
  <2>3. n <= m
    BY <2>1, <2>2, FS_Subset
  <2>4. m \in Nat /\ n \in Nat
    BY <2>1, <2>2, FS_Subset, FS_CardinalityType
  <2> QED
    BY <2>3, <2>4
<1>6. CASE Refused(q)
  <2>1. w = [walk EXCEPT !.pc = "refused"]
    BY <1>4, <1>6 DEF ReadTotals
  <2>2. /\ w \in WalkType /\ w.pc = "refused" /\ w.query = walk.query /\ w.cursor = walk.cursor
        /\ w.got = walk.got /\ w.due = walk.due /\ w.signed = walk.signed
    BY <1>1, <2>1 DEF WalkType
  <2>3. Shown(w) /\ DueFixed(w) /\ DueShown(w) /\ WalkAnswered(w)
    BY <1>2, <1>6, <2>2 DEF Shown, DueFixed, DueShown, WalkAnswered, Paging
  <2>4. KeyUsed(w)'
    BY <1>2, <2>2 DEF KeyUsed
  <2> QED
    BY <1>2, <1>3, <1>4, <2>2, <2>3, <2>4, WalkStep
<1>7. CASE ~Refused(q)
  <2>1. w = [walk EXCEPT !.pc = "ended", !.counted = m, !.exact = n]
    BY <1>4, <1>7 DEF ReadTotals
  <2> HIDE DEF m, n
  <2>2. /\ w \in WalkType /\ w.pc = "ended" /\ w.query = walk.query /\ w.cursor = walk.cursor
        /\ w.got = walk.got /\ w.due = walk.due /\ w.signed = walk.signed
        /\ w.counted = m /\ w.exact = n
    BY <1>1, <1>5, <2>1 DEF WalkType
  <2>3. Shown(w) /\ DueFixed(w) /\ DueShown(w) /\ WalkAnswered(w)
    BY <1>2, <1>5, <2>2 DEF Shown, DueFixed, DueShown, WalkAnswered, Paging
  <2>4. KeyUsed(w)'
    BY <1>2, <2>2 DEF KeyUsed
  <2> QED
    BY <1>2, <1>3, <1>4, <2>2, <2>3, <2>4, WalkStep
<1> QED
  BY <1>6, <1>7

LEMMA ConcatRange ==
    ASSUME NEW S, NEW s \in Seq(S), NEW u \in Seq(S)
    PROVE  /\ Range(s \o u) = Range(s) \cup Range(u)
           /\ IsInjective(s) /\ IsInjective(u) /\ Range(s) \cap Range(u) = {} =>
                  IsInjective(s \o u)
<1> DEFINE z == s \o u
           m == Len(s)
           n == Len(u)
<1>1. /\ z \in Seq(S) /\ m \in Nat /\ n \in Nat /\ DOMAIN s = 1..m /\ DOMAIN u = 1..n
      /\ DOMAIN z = 1..(m + n)
      /\ \A i \in 1..(m + n) : z[i] = IF i <= m THEN s[i] ELSE u[i - m]
  OBVIOUS
<1> HIDE DEF z, m, n
<1>2. \A i \in 1..n : i + m \in 1..(m + n) /\ z[i + m] = u[i]
  <2> SUFFICES ASSUME NEW i \in 1..n PROVE i + m \in 1..(m + n) /\ z[i + m] = u[i]
    OBVIOUS
  <2>1. i + m \in 1..(m + n) /\ ~(i + m <= m) /\ (i + m) - m = i
    BY <1>1
  <2> QED
    BY <1>1, <2>1
<1>3. \A i \in 1..m : i \in 1..(m + n) /\ z[i] = s[i]
  BY <1>1
<1>4. \A i \in 1..(m + n) : i \in 1..m \/ (i - m \in 1..n /\ z[i] = u[i - m])
  BY <1>1
<1>5. Range(z) = Range(s) \cup Range(u)
  <2>1. ASSUME NEW x \in Range(z) PROVE x \in Range(s) \cup Range(u)
    <3>1. PICK i \in 1..(m + n) : x = z[i]
      BY <1>1 DEF Range
    <3> QED
      BY <1>1, <1>3, <1>4, <3>1 DEF Range
  <2>2. ASSUME NEW x \in Range(s) PROVE x \in Range(z)
    BY <1>1, <1>3 DEF Range
  <2>3. ASSUME NEW x \in Range(u) PROVE x \in Range(z)
    BY <1>1, <1>2 DEF Range
  <2> QED
    BY <2>1, <2>2, <2>3
<1>6. ASSUME IsInjective(s), IsInjective(u), Range(s) \cap Range(u) = {}
      PROVE  IsInjective(z)
  <2>1. ASSUME NEW i \in 1..(m + n), NEW j \in 1..(m + n), z[i] = z[j] PROVE i = j
    <3>1. CASE i \in 1..m /\ j \in 1..m
      BY <1>1, <1>3, <1>6, <2>1, <3>1 DEF IsInjective
    <3>2. CASE i \in 1..m /\ j \notin 1..m
      <4>1. z[i] \in Range(s) /\ z[j] \in Range(u)
        BY <1>1, <1>3, <1>4, <3>2 DEF Range
      <4> QED
        BY <1>6, <2>1, <4>1
    <3>3. CASE i \notin 1..m /\ j \in 1..m
      <4>1. z[j] \in Range(s) /\ z[i] \in Range(u)
        BY <1>1, <1>3, <1>4, <3>3 DEF Range
      <4> QED
        BY <1>6, <2>1, <4>1
    <3>4. CASE i \notin 1..m /\ j \notin 1..m
      <4>1. /\ i - m \in 1..n /\ j - m \in 1..n /\ z[i] = u[i - m] /\ z[j] = u[j - m]
        BY <1>4, <3>4
      <4>2. i - m = j - m
        BY <1>1, <1>6, <2>1, <4>1 DEF IsInjective
      <4> QED
        BY <1>1, <4>2
    <3> QED
      BY <3>1, <3>2, <3>3, <3>4
  <2> QED
    BY <1>1, <2>1 DEF IsInjective
<1> QED
  BY <1>5, <1>6 DEF z

\* The place of a row with respect to a cursor that is itself a row.
LEMMA CursorFacts ==
    ASSUME ledger \in Seq(Record \cup {NoRecord}), NEW i \in Ids, NEW l \in Ids
    PROVE  /\ Later(l, i) => Before(i, <<ledger[l].at, l>>)
           /\ Later(i, l) => ~Before(i, <<ledger[l].at, l>>)
           /\ ~Before(l, <<ledger[l].at, l>>)
           /\ \A c \in Int \X Int :
                 Before(l, c) /\ ~Before(i, c) => ~Before(i, <<ledger[l].at, l>>)
<1>1. PICK a, b \in Int : a = ledger[i].at /\ b = ledger[l].at
  BY RowFacts
<1>2. i \in Int /\ l \in Int
  BY RowFacts
<1>3. /\ <<b, l>>[1] = b /\ <<b, l>>[2] = l
      /\ \A c \in Int \X Int : c[1] \in Int /\ c[2] \in Int
  OBVIOUS
<1> QED
  BY <1>1, <1>2, <1>3 DEF Before, Later

LEMMA ReadPageKeeps == ASSUME ListInv, ReadPage PROVE ListInv'
<1>1. walk \in WalkType /\ walk # NoWalk /\ walk.pc = "read" /\ walk.pc \in Paging
  <2>1. walk.pc = "read"
    BY DEF ReadPage
  <2> QED
    BY <2>1, WalkFacts DEF ListInv, Paging
<1>2. /\ Shown(walk) /\ DueFixed(walk) /\ DueShown(walk) /\ KeyUsed(walk)
      /\ UNCHANGED <<now, ledger>> /\ cursorKey' = cursorKey
  BY <1>1 DEF ListInv, WalkInv, ReadPage
<1>3. /\ cursorKey' \in KeyNames /\ now \in 0..MaxTime
      /\ ledger \in Seq(Record \cup {NoRecord})
  BY <1>2 DEF ListInv, ListShapes
<1>4. PICK w : w = walk'
  OBVIOUS
<1> DEFINE q    == walk.query
           all  == {i \in Ids : Matches(q, i)}
           left == {i \in all : walk.cursor = <<>> \/ Before(i, walk.cursor)}
           list == Ordered(left)
           k    == Min({Limit, Len(list)})
           rows == SubSeq(list, 1, k)
           last == rows[Len(rows)]
           got  == walk.got \o rows
           due  == IF walk.cursor = <<>> THEN all ELSE walk.due
           page == <<ledger[last].at, last>>
<1>5. /\ q \in Queries /\ walk.got \in Seq(Nat) /\ walk.due \subseteq Nat
      /\ walk.cursor \in {<<>>} \cup (Int \X Int)
  BY <1>1 DEF WalkType
<1>6. left \in SUBSET Ids /\ all \in SUBSET Ids /\ Ids \subseteq Nat
  BY <1>3, RowFacts
<1>7. /\ list \in Seq(Nat) /\ Len(list) \in Nat
      /\ \A i, j \in 1..Len(list) : /\ list[i] = list[j] => i = j
                                    /\ i < j => Later(list[i], list[j])
      /\ \A x \in left : \E i \in 1..Len(list) : list[i] = x
      /\ \A i \in 1..Len(list) : list[i] \in left
  <2> HIDE DEF left
  <2> QED
    BY <1>3, <1>6, OrderedFacts
<1>8. walk' = [walk EXCEPT !.pc = IF Len(list) > Limit THEN "key" ELSE "totals",
                           !.cursor = IF Len(list) > Limit THEN page ELSE @,
                           !.signed = IF Len(list) > Limit THEN walk.key ELSE @,
                           !.got = @ \o rows,
                           !.due = IF walk.cursor = <<>> THEN all ELSE @]
  BY DEF ReadPage
<1> HIDE DEF list
<1>9. Limit \in Nat /\ Limit >= 1
  BY ListBounds
<1>10. k = (IF Limit <= Len(list) THEN Limit ELSE Len(list)) /\ k \in Nat /\ k <= Len(list)
  <2>1. k = IF Limit <= Len(list) THEN Limit ELSE Len(list)
    BY <1>7, <1>9, MinOfTwo
  <2> QED
    BY <1>7, <1>9, <2>1
<1> HIDE DEF k
<1>11. /\ rows \in Seq(Nat) /\ Len(rows) = k /\ DOMAIN rows = 1..k
       /\ \A i \in 1..k : i \in 1..Len(list) /\ rows[i] = list[i]
  BY <1>7, <1>10
<1> HIDE DEF rows
<1>12. /\ IsInjective(rows) /\ Range(rows) \subseteq left
       /\ \A x \in Range(rows) : \E i \in 1..k : x = list[i]
  <2> HIDE DEF left
  <2>1. \A i, j \in 1..k : rows[i] = rows[j] => i = j
    BY <1>7, <1>11
  <2>2. \A i \in 1..k : rows[i] \in left /\ rows[i] = list[i]
    BY <1>7, <1>11
  <2>3. DOMAIN rows = 1..k
    BY <1>11
  <2> QED
    BY <2>1, <2>2, <2>3 DEF IsInjective, Range
<1>13. Range(walk.got) \cap left = {}
  <2>1. CASE walk.cursor = <<>>
    BY <1>1, <1>2, <2>1 DEF Shown, Range
  <2>2. CASE walk.cursor # <<>>
    <3>1. \A i \in Range(walk.got) : ledger[i] # NoRecord => ~Before(i, walk.cursor)
      BY <1>1, <1>2, <2>2 DEF Shown
    <3> QED
      BY <2>2, <3>1 DEF Ids
  <2> QED
    BY <2>1, <2>2
<1>14. got \in Seq(Nat) /\ IsInjective(got) /\ Range(got) = Range(walk.got) \cup Range(rows)
  <2>1. IsInjective(walk.got) /\ Range(walk.got) \cap Range(rows) = {}
    BY <1>2, <1>12, <1>13 DEF Shown
  <2>2. got \in Seq(Nat)
    BY <1>5, <1>11
  <2> QED
    BY <1>5, <1>11, <1>12, <2>1, <2>2, ConcatRange
<1>15. \A i \in Range(got) : /\ i \in DOMAIN ledger
                             /\ ledger[i] # NoRecord => ledger[i].consumer \in Scope(q)
  <2>1. \A i \in Range(walk.got) :
            /\ i \in DOMAIN ledger
            /\ ledger[i] # NoRecord => ledger[i].consumer \in Scope(q)
    BY <1>2 DEF Shown
  <2>2. \A i \in left : i \in DOMAIN ledger /\ ledger[i].consumer \in Scope(q)
    BY DEF Ids, Matches
  <2>3. Range(got) \subseteq Range(walk.got) \cup left
    BY <1>12, <1>14
  <2> HIDE DEF left, got
  <2> QED
    BY <2>1, <2>2, <2>3
<1>16. /\ due \subseteq DOMAIN ledger /\ due \subseteq Nat
       /\ \A i \in due : ledger[i] # NoRecord =>
             /\ ledger[i].at < ClosesAt(q)
             /\ q.status = "completed" => ledger[i].status = "completed"
  <2>1. CASE walk.cursor = <<>>
    BY <1>6, <2>1 DEF Ids, Matches
  <2>2. CASE walk.cursor # <<>>
    BY <1>2, <1>5, <2>2 DEF DueFixed
  <2> QED
    BY <2>1, <2>2
<1>17. \A i \in due : ledger[i] # NoRecord /\ Matches(q, i) => i \in Range(walk.got) \/ i \in left
  <2>1. CASE walk.cursor = <<>>
    BY <2>1
  <2>2. CASE walk.cursor # <<>>
    <3>1. \A i \in walk.due : ledger[i] # NoRecord /\ Matches(q, i) =>
              i \in Range(walk.got) \/ Before(i, walk.cursor)
      BY <1>1, <1>2, <2>2 DEF DueShown
    <3>2. \A i \in walk.due : ledger[i] # NoRecord => i \in Ids
      BY <1>2 DEF DueFixed, Ids
    <3> QED
      BY <2>2, <3>1, <3>2
  <2> QED
    BY <2>1, <2>2
<1>18. CASE Len(list) > Limit
  <2>1. k = Limit /\ last = list[Limit] /\ Limit \in 1..Len(list) /\ Limit \in 1..k
    BY <1>7, <1>9, <1>10, <1>11, <1>18
  <2>2. last \in left /\ last \in Ids /\ last \in Int
    BY <1>6, <1>7, <2>1
  <2>3. w = [walk EXCEPT !.pc = "key", !.cursor = page, !.signed = walk.key,
                         !.got = got, !.due = due]
    BY <1>4, <1>8, <1>18
  <2>4. page \in Int \X Int
    BY <1>3, <2>2, RowFacts
  <2>5. page # <<>>
    OBVIOUS
  <2> DEFINE key == walk.key
  <2>6. key \in KeyNames
    BY <1>1 DEF WalkType
  <2> HIDE DEF got, due, page, last, left, all, key
  <2>7. /\ w \in WalkType /\ w.pc = "key" /\ w.query = q /\ w.cursor = page
        /\ w.signed = walk.key /\ w.got = got /\ w.due = due
    <3>1. w = [walk EXCEPT !.pc = "key", !.cursor = page, !.signed = key, !.got = got, !.due = due]
      BY <2>3 DEF key
    <3>2. /\ w \in WalkType /\ w.pc = "key" /\ w.query = q /\ w.cursor = page
          /\ w.signed = key /\ w.got = got /\ w.due = due
      BY <1>1, <1>14, <1>16, <2>4, <2>6, <3>1 DEF WalkType
    <3> QED
      BY <3>2 DEF key
  <2>8. ASSUME NEW i \in Range(got), ledger[i] # NoRecord PROVE ~Before(i, page)
    <3>0. i \in Ids
      BY <1>15, <2>8 DEF Ids
    <3>1. CASE i \in Range(walk.got)
      <4>1. walk.cursor # <<>>
        BY <1>1, <1>2, <3>1 DEF Shown, Range
      <4>2. ~Before(i, walk.cursor) /\ Before(last, walk.cursor) /\ walk.cursor \in Int \X Int
        BY <1>1, <1>2, <1>5, <2>2, <2>8, <3>1, <4>1 DEF Shown, left
      <4> QED
        BY <1>3, <2>2, <3>0, <4>2, CursorFacts DEF page
    <3>2. CASE i \in Range(rows)
      <4>1. PICK p \in 1..k : i = list[p]
        BY <1>12, <3>2
      <4>2. CASE p = Limit
        BY <1>3, <2>1, <2>2, <4>1, <4>2, CursorFacts DEF page
      <4>3. CASE p # Limit
        <5>1. Later(i, last)
          <6>1. p < Limit /\ p \in 1..Len(list)
            BY <1>7, <1>9, <1>10, <2>1, <4>3
          <6> QED
            BY <1>7, <2>1, <4>1, <6>1
        <5> QED
          BY <1>3, <2>2, <3>0, <5>1, CursorFacts DEF page
      <4> QED
        BY <4>2, <4>3
    <3> QED
      BY <1>14, <2>8, <3>1, <3>2
  <2>9. Shown(w)
    BY <1>14, <1>15, <2>5, <2>7, <2>8 DEF Shown
  <2>10. ASSUME NEW i \in due, ledger[i] # NoRecord, Matches(q, i)
         PROVE  i \in Range(got) \/ Before(i, page)
    <3>1. CASE i \in Range(walk.got)
      BY <1>14, <3>1
    <3>2. CASE i \in left
      <4>1. PICK p \in 1..Len(list) : i = list[p]
        BY <1>7, <3>2
      <4>2. CASE p <= k
        <5>1. p \in 1..k
          BY <1>10, <4>2
        <5> QED
          BY <1>11, <1>14, <4>1, <5>1 DEF Range
      <4>3. CASE ~(p <= k)
        <5>1. Later(last, i)
          BY <1>7, <1>10, <2>1, <4>1, <4>3
        <5> QED
          BY <1>3, <1>6, <2>2, <3>2, <5>1, CursorFacts DEF page
      <4> QED
        BY <4>2, <4>3
    <3> QED
      BY <1>17, <2>10, <3>1, <3>2
  <2>11. DueFixed(w) /\ DueShown(w)
    BY <1>16, <2>5, <2>7, <2>10 DEF DueFixed, DueShown
  <2>12. KeyUsed(w)' /\ WalkAnswered(w)
    BY <1>1, <1>2, <2>7 DEF KeyUsed, WalkAnswered
  <2> QED
    BY <1>2, <1>3, <1>4, <2>7, <2>9, <2>11, <2>12, WalkStep
<1>19. CASE ~(Len(list) > Limit)
  <2>1. k = Len(list)
    BY <1>7, <1>9, <1>10, <1>19
  <2>2. left \subseteq Range(got)
    <3> HIDE DEF left
    <3>1. ASSUME NEW x \in left PROVE x \in Range(rows)
      <4>1. PICK i \in 1..Len(list) : list[i] = x
        BY <1>7
      <4>2. i \in 1..k /\ rows[i] = x
        BY <1>11, <2>1, <4>1
      <4> QED
        BY <1>11, <4>2 DEF Range
    <3> QED
      BY <1>14, <3>1
  <2>3. w = [walk EXCEPT !.pc = "totals", !.cursor = walk.cursor, !.signed = walk.signed,
                         !.got = got, !.due = due]
    BY <1>4, <1>8, <1>19
  <2> HIDE DEF got, due, left, all
  <2>4. /\ w \in WalkType /\ w.pc = "totals" /\ w.query = q /\ w.cursor = walk.cursor
        /\ w.signed = walk.signed /\ w.got = got /\ w.due = due
    BY <1>1, <1>14, <1>16, <2>3 DEF WalkType
  <2>5. Shown(w) /\ DueFixed(w)
    BY <1>14, <1>15, <1>16, <2>4 DEF Shown, DueFixed, Paging
  <2>6. DueShown(w)
    BY <1>14, <1>17, <2>2, <2>4 DEF DueShown, Paging
  <2>7. KeyUsed(w)' /\ WalkAnswered(w)
    BY <1>2, <2>4 DEF KeyUsed, WalkAnswered
  <2> QED
    BY <1>2, <1>3, <1>4, <2>4, <2>5, <2>6, <2>7, WalkStep
<1> QED
  BY <1>18, <1>19

LEMMA HourlyInitHolds == ListInit => HourlyInv
<1>1. <<>> \in Seq(Record \cup {NoRecord}) /\ DOMAIN <<>> = {}
  OBVIOUS
<1> QED
  BY <1>1 DEF ListInit, HourlyInv, Ids

LEMMA HourlyHolds == ListInv /\ HourlyInv /\ [ListNext]_listVars => HourlyInv'
<1> SUFFICES ASSUME ListInv, HourlyInv, [ListNext]_listVars PROVE HourlyInv'
  OBVIOUS
<1>1. ListShapes /\ now \in 0..MaxTime /\ ledger \in Seq(Record \cup {NoRecord})
  BY DEF ListInv, ListShapes
<1>2. CASE \E c \in ConsumerIds : \E t \in {now - 1, now} : InsertRow(c, t)
  BY <1>1, <1>2, HourlyAppended
<1>3. CASE \E i \in Ids : Complete(i)
  BY <1>1, <1>3, HourlyCompleted
<1>4. CASE \E c \in ConsumerIds, hour \in 0..HourOf(MaxTime) : PruneBucket(c, hour)
  BY <1>1, <1>4, HourlyPruned
<1>5. CASE Tick
  <2>1. /\ hourly' = hourly /\ now' \in 0..MaxTime /\ now <= now' /\ DOMAIN ledger' = DOMAIN ledger
        /\ \A i \in DOMAIN ledger : ledger'[i] # NoRecord => ledger'[i] = ledger[i]
    BY <1>1, <1>5, ListBounds DEF Tick
  <2> QED
    BY <1>1, <2>1, HourlyStands
<1>6. CASE \E i \in Ids : Prune(i)
  <2>1. /\ hourly' = hourly /\ now' \in 0..MaxTime /\ now <= now' /\ DOMAIN ledger' = DOMAIN ledger
        /\ \A i \in DOMAIN ledger : ledger'[i] # NoRecord => ledger'[i] = ledger[i]
    BY <1>1, <1>6, ListBounds DEF Prune
  <2> QED
    BY <1>1, <2>1, HourlyStands
<1>7. CASE UNCHANGED <<now, ledger, hourly>>
  <2>1. /\ hourly' = hourly /\ now' \in 0..MaxTime /\ now <= now' /\ DOMAIN ledger' = DOMAIN ledger
        /\ \A i \in DOMAIN ledger : ledger'[i] # NoRecord => ledger'[i] = ledger[i]
    BY <1>1, <1>7, ListBounds
  <2> QED
    BY <1>1, <2>1, HourlyStands
<1>8. CASE \/ OthersKey \/ ReadKey \/ StoreKey \/ ReadPage \/ ReadTotals \/ UNCHANGED listVars
           \/ \E q \in Queries : Begin(q)
  BY <1>7, <1>8 DEF OthersKey, ReadKey, StoreKey, ReadPage, ReadTotals, Begin, listVars
<1> QED
  BY <1>2, <1>3, <1>4, <1>5, <1>6, <1>8 DEF ListNext

\* However rows are written, finished, pruned and keys are stored between the pages of
\* a walk, it is exact: for every page size, every query, any number of consumers and
\* rows, and a ledger in which instants are shared and ids are out of their order
\* (get_requests, cursor_key, get_summary).
THEOREM WalksExact == ListSpec => []WalkExact
<1>1. ListInv /\ HourlyInv /\ [ListNext]_listVars => ListInv'
  <2> SUFFICES ASSUME ListInv, HourlyInv, [ListNext]_listVars PROVE ListInv'
    OBVIOUS
  <2>1. CASE Tick
    BY <2>1, TickKeeps
  <2>2. CASE OthersKey
    BY <2>2, OthersKeyKeeps
  <2>3. CASE ReadKey
    BY <2>3, ReadKeyKeeps
  <2>4. CASE StoreKey
    BY <2>4, StoreKeyKeeps
  <2>5. CASE ReadPage
    BY <2>5, ReadPageKeeps
  <2>6. CASE ReadTotals
    BY <2>6, ReadTotalsKeeps
  <2>7. CASE \E c \in ConsumerIds : \E t \in {now - 1, now} : InsertRow(c, t)
    BY <2>7, InsertRowKeeps
  <2>8. CASE \E i \in Ids : Complete(i) \/ Prune(i)
    BY <2>8, CompleteKeeps, PruneKeeps
  <2>11. CASE \E c \in ConsumerIds, hour \in 0..HourOf(MaxTime) : PruneBucket(c, hour)
    BY <2>11, PruneBucketKeeps
  <2>9. CASE \E q \in Queries : Begin(q)
    BY <2>9, BeginKeeps
  <2>10. CASE UNCHANGED listVars
    BY <2>10, StandKeeps
  <2> QED
    BY <2>1, <2>2, <2>3, <2>4, <2>5, <2>6, <2>7, <2>8, <2>9, <2>10, <2>11 DEF ListNext
<1>2. ListInv => WalkExact
  <2> SUFFICES ASSUME ListInv, walk.pc # "idle"
               PROVE  /\ IsInjective(walk.got)
                      /\ walk.query.cred # Manager =>
                            \A i \in Range(walk.got) :
                                ledger[i] # NoRecord => ledger[i].consumer = walk.query.cred
                      /\ walk.pc = "totals" =>
                            {i \in walk.due \cap Ids : Matches(walk.query, i)}
                                \subseteq Range(walk.got)
                      /\ walk.pc = "refused" => Refused(walk.query)
                      /\ walk.pc = "ended" => walk.counted >= walk.exact
    BY DEF WalkExact
  <2>1. walk # NoWalk
    BY WalkFacts DEF ListInv
  <2>2. Shown(walk) /\ DueShown(walk) /\ WalkAnswered(walk)
    BY <2>1 DEF ListInv, WalkInv
  <2>3. walk.query.cred # Manager => Scope(walk.query) = {walk.query.cred}
    BY DEF Scope
  <2>4. \A i \in Ids : ledger[i] # NoRecord
    BY DEF Ids
  <2> QED
    BY <2>2, <2>3, <2>4 DEF Shown, DueShown, WalkAnswered
<1> QED
  BY <1>1, <1>2, ListInitHolds, HourlyInitHolds, HourlyHolds, PTL DEF ListSpec
=============================================================================
