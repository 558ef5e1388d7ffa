--------------------------- MODULE SmtpReadProofs ---------------------------
(***************************************************************************)
(* Theorems about SmtpRead for every set of streams, every way of cutting  *)
(* them into chunks, and every limit.                                      *)
(***************************************************************************)
EXTENDS SmtpRead, SequenceTheorems, FiniteSetTheorems, WellFoundedInduction, TLAPS

-----------------------------------------------------------------------------
(***************************************************************************)
(* The first line feed.                                                    *)
(***************************************************************************)
\* A set of numbers has a least one.
LEMMA LeastExists ==
  ASSUME NEW T \in SUBSET Nat, T # {}
  PROVE  \E i \in T : \A j \in T : i <= j
<1> DEFINE R == OpToRel(<, Nat)
<1>1. IsWellFoundedOn(R, Nat)
  BY NatLessThanWellFounded
<1>2. \A x, y \in Nat : x < y => <<x, y>> \in R
  BY DEF OpToRel
<1> HIDE DEF R
<1>3. PICK i \in T : \A j \in T : ~(<<j, i>> \in R)
  BY <1>1, WFMin
<1>4. ASSUME NEW j \in T PROVE i <= j
  <2>1. i \in Nat /\ j \in Nat
    OBVIOUS
  <2>2. ~(j < i)
    BY <1>2, <1>3, <2>1, Zenon
  <2> QED
    BY <2>1, <2>2
<1> QED
  BY <1>3, <1>4

\* One turn of read_line_limited_bytes takes at least a byte, at most what is
\* available, and no line feed but the last byte.
LEMMA TakeToLemma ==
  ASSUME TypeOK, pos < filled
  PROVE  /\ TakeTo \in pos + 1 .. filled
         /\ \A i \in pos + 1 .. TakeTo - 1 : stream[i] # LF
         /\ Newlines # {} => stream[TakeTo] = LF
         /\ Newlines = {} => TakeTo = filled /\ stream[TakeTo] # LF
<1>1. pos \in Nat /\ filled \in Nat /\ Newlines \in SUBSET Nat
  BY DEF TypeOK, Newlines
<1>2. CASE Newlines = {}
  BY <1>1, <1>2 DEF TakeTo, Newlines
<1>3. CASE Newlines # {}
  <2>1. \E i \in Newlines : \A j \in Newlines : i <= j
    BY <1>1, <1>3, LeastExists
  <2>2. TakeTo \in Newlines /\ \A j \in Newlines : TakeTo <= j
    BY <1>3, <2>1 DEF TakeTo
  <2>3. TakeTo \in pos + 1 .. filled /\ stream[TakeTo] = LF
    BY <2>2 DEF Newlines
  <2>4. ASSUME NEW i \in pos + 1 .. TakeTo - 1, stream[i] = LF PROVE FALSE
    <3>1. i \in Newlines
      BY <1>1, <2>3, <2>4 DEF Newlines
    <3> QED
      BY <1>1, <2>2, <2>3, <2>4, <3>1
  <2> QED
    BY <1>3, <2>3, <2>4
<1> QED
  BY <1>2, <1>3

\* What a turn takes is a piece of the stream.
LEMMA TakenLemma ==
  ASSUME TypeOK, pos < filled
  PROVE  /\ SubSeq(stream, pos + 1, TakeTo) \in Seq(Bytes)
         /\ Len(SubSeq(stream, pos + 1, TakeTo)) = TakeTo - pos
         /\ \A i \in 1 .. TakeTo - pos : SubSeq(stream, pos + 1, TakeTo)[i] = stream[pos + i]
<1>1. pos \in Nat /\ filled \in Nat /\ TakeTo \in pos + 1 .. filled /\ filled <= Len(stream)
  BY TakeToLemma DEF TypeOK
<1>2. \A i \in pos + 1 .. TakeTo : stream[i] \in Bytes
  BY <1>1, ElementOfSeq DEF TypeOK
<1>3. pos + 1 \in Int /\ TakeTo \in Int /\ pos + 1 <= TakeTo
  BY <1>1
<1>4. /\ SubSeq(stream, pos + 1, TakeTo) \in Seq(Bytes)
      /\ Len(SubSeq(stream, pos + 1, TakeTo)) = TakeTo - (pos + 1) + 1
      /\ \A i \in 1 .. TakeTo - (pos + 1) + 1 :
           SubSeq(stream, pos + 1, TakeTo)[i] = stream[(pos + 1) + i - 1]
  BY <1>2, <1>3, SubSeqProperties
<1> QED
  BY <1>1, <1>4

-----------------------------------------------------------------------------
(***************************************************************************)
(* The inductive invariant.  The line being read is the piece of the       *)
(* stream that ends at pos; it began where a line begins, and only its     *)
(* last byte can be a line feed.  A message refused halfway (torn) is the  *)
(* one thing that breaks this, for the commands read after it.             *)
(***************************************************************************)
Aligned == ~torn /\ pc \in {"read", "line"}

LineIsPiece ==
  Aligned =>
    /\ Len(line) <= pos
    /\ \A i \in 1 .. Len(line) : line[i] = stream[(pos - Len(line)) + i]

LineBeginsRight ==
  Aligned => pos - Len(line) \in LineStarts \/ (line = <<>> /\ pos = Len(stream))

\* Only the last byte read can be a line feed, and it ends the reading.
NoInnerNewline ==
  Aligned =>
    /\ \A i \in 1 .. Len(line) - 1 : line[i] # LF
    /\ pc = "read" /\ line # <<>> => line[Len(line)] # LF

\* A line that was returned is complete, or the client has closed.
LineIsWhole ==
  pc = "line" /\ ~torn /\ line # <<>> => line[Len(line)] = LF \/ pos = Len(stream)

\* A message was accepted at the end of a line, and what is refused is torn.
DoneAtLineEnd == pc = "done" /\ result = "accepted" => pos \in LineStarts

DataBounded == mode = "data" => Len(data) <= MaxSize

ModeOfResult == (pc = "done" => mode = "data" /\ result \in {"accepted", "toolarge"})
                /\ (mode = "data" => ~torn)

Bounds == BufferBounded /\ DataBounded /\ ModeOfResult

Lines == LineIsPiece /\ LineBeginsRight /\ NoInnerNewline /\ LineIsWhole /\ DoneAtLineEnd

ReadInv == TypeOK /\ Bounds /\ Lines

-----------------------------------------------------------------------------
(***************************************************************************)
(* Types.                                                                  *)
(***************************************************************************)
\* Unstuffing leaves a sequence of bytes.
LEMMA UnstuffLemma ==
  ASSUME NEW l \in Seq(Bytes)
  PROVE  Unstuff(l) \in Seq(Bytes)
<1>1. CASE Stuffed(l)
  <2>1. l # <<>>
    BY <1>1 DEF Stuffed
  <2> QED
    BY <1>1, <2>1, HeadTailProperties DEF Unstuff
<1>2. CASE ~Stuffed(l)
  BY <1>2 DEF Unstuff
<1> QED
  BY <1>1, <1>2

\* What Take does to the line, whatever the chunk.
LEMMA TakeLemma ==
  ASSUME TypeOK, Take
  PROVE  /\ line' \in Seq(Bytes)
         /\ Len(line') = Len(line) + (TakeTo - pos)
         /\ Len(line') <= Limit
         /\ \A i \in 1 .. Len(line') :
              line'[i] = IF i <= Len(line) THEN line[i] ELSE stream[pos + (i - Len(line))]
<1> DEFINE piece == SubSeq(stream, pos + 1, TakeTo)
<1>1. pos < filled /\ line' = line \o piece /\ Len(line) + (TakeTo - pos) <= Limit
  BY DEF Take
<1>2. /\ piece \in Seq(Bytes) /\ Len(piece) = TakeTo - pos
      /\ \A i \in 1 .. TakeTo - pos : piece[i] = stream[pos + i]
  BY <1>1, TakenLemma
<1>3. line \in Seq(Bytes) /\ Len(line) \in Nat /\ pos \in Nat /\ TakeTo \in Nat /\ pos < TakeTo
  BY <1>1, TakeToLemma DEF TypeOK
<1> HIDE DEF piece
<1>4. /\ line' \in Seq(Bytes) /\ Len(line') = Len(line) + Len(piece)
      /\ \A i \in 1 .. Len(line) + Len(piece) :
           line'[i] = IF i <= Len(line) THEN line[i] ELSE piece[i - Len(line)]
  BY <1>1, <1>2, <1>3, ConcatProperties
<1>5. Len(line') = Len(line) + (TakeTo - pos)
  BY <1>2, <1>4
<1>6. ASSUME NEW i \in 1 .. Len(line')
      PROVE  line'[i] = IF i <= Len(line) THEN line[i] ELSE stream[pos + (i - Len(line))]
  <2>1. CASE i <= Len(line)
    BY <1>2, <1>3, <1>4, <1>5, <2>1
  <2>2. CASE ~(i <= Len(line))
    <3>1. i - Len(line) \in 1 .. TakeTo - pos
      BY <1>3, <1>5, <2>2
    <3> QED
      BY <1>2, <1>4, <2>2, <3>1
  <2> QED
    BY <2>1, <2>2
<1> QED
  BY <1>1, <1>4, <1>5, <1>6

\* Every step keeps the types.
LEMMA TypeStep == TypeOK /\ [Next]_vars => TypeOK'
<1> SUFFICES ASSUME TypeOK, [Next]_vars PROVE TypeOK'
  OBVIOUS
<1>1. CASE Fill
  BY <1>1 DEF TypeOK, Fill
<1>2. CASE AtEof
  BY <1>2 DEF TypeOK, AtEof
<1>3. CASE Take
  <2>1. line' \in Seq(Bytes)
    BY <1>3, TakeLemma
  <2>2. pos \in Nat /\ filled \in Nat /\ Len(stream) \in Nat /\ filled <= Len(stream)
    BY DEF TypeOK
  <2>3. pos' \in 0 .. filled /\ pos' <= filled
    <3>1. TakeTo \in pos + 1 .. filled
      BY <1>3, TakeToLemma DEF Take
    <3>2. pos' = TakeTo
      BY <1>3 DEF Take
    <3> QED
      BY <2>2, <3>1, <3>2
  <2>4. pos' \in 0 .. Len(stream) /\ filled \in pos' .. Len(stream)
    BY <2>2, <2>3
  <2> QED
    BY <1>3, <2>1, <2>4 DEF TypeOK, Take
<1>4. CASE LineTooLong
  BY <1>4 DEF TypeOK, LineTooLong
<1>5. CASE DataEof
  BY <1>5 DEF TypeOK, DataEof
<1>6. CASE DataTerminator
  BY <1>6 DEF TypeOK, DataTerminator
<1>7. CASE DataLine
  <2>1. data \o Unstuff(line) \in Seq(Bytes)
    BY UnstuffLemma, ConcatProperties DEF TypeOK
  <2>2. <<>> \in Seq(Bytes)
    BY EmptySeq
  <2>3. line' \in Seq(Bytes) /\ data' \in Seq(Bytes)
    BY <1>7, <2>1, <2>2 DEF TypeOK, DataLine
  <2>4. pc' \in {"read", "done"} /\ result' \in {result, "toolarge"}
    BY <1>7 DEF DataLine
  <2>5. UNCHANGED <<stream, pos, filled, mode, torn>>
    BY <1>7 DEF DataLine
  <2> QED
    BY <2>3, <2>4, <2>5 DEF TypeOK
<1>8. CASE Answer
  BY <1>8, EmptySeq DEF TypeOK, Answer
<1>9. CASE CommandEof
  BY <1>9 DEF TypeOK, CommandEof
<1>10. CASE CommandLine
  BY <1>10, EmptySeq DEF TypeOK, CommandLine
<1>11. CASE Cut
  BY <1>11 DEF TypeOK, Cut
<1>12. CASE UNCHANGED vars
  BY <1>12 DEF TypeOK, vars
<1> QED
  BY <1>1, <1>2, <1>3, <1>4, <1>5, <1>6, <1>7, <1>8, <1>9, <1>10, <1>11, <1>12 DEF Next, Read

-----------------------------------------------------------------------------
(***************************************************************************)
(* Bounds.                                                                 *)
(***************************************************************************)
\* Every step keeps the bounds.
LEMMA BoundsStep == TypeOK /\ Bounds /\ [Next]_vars => Bounds'
<1> SUFFICES ASSUME TypeOK, Bounds, [Next]_vars PROVE Bounds'
  OBVIOUS
<1> USE ReadAssumption
<1>0. Len(line) \in Nat /\ Len(data) \in Nat /\ Len(<<>>) = 0
  BY DEF TypeOK
<1>1. CASE Fill
  BY <1>1 DEF Bounds, BufferBounded, DataBounded, ModeOfResult, Fill
<1>2. CASE AtEof
  BY <1>2 DEF Bounds, BufferBounded, DataBounded, ModeOfResult, AtEof
<1>3. CASE Take
  <2>1. Len(line') <= Limit /\ Len(line') \in Nat
    BY <1>3, TakeLemma
  <2>2. UNCHANGED <<mode, data, torn, result>> /\ pc' # "done"
    BY <1>3 DEF Take
  <2>3. mode = "data" => Limit = (MaxSize - Len(data)) + 4
    BY <1>0 DEF Limit, SaturatingSub, Bounds, DataBounded
  <2>4. BufferBounded'
    BY <1>0, <2>1, <2>2, <2>3 DEF Bounds, BufferBounded, Limit
  <2> QED
    BY <2>2, <2>4 DEF Bounds, DataBounded, ModeOfResult
<1>4. CASE LineTooLong
  BY <1>4 DEF Bounds, BufferBounded, DataBounded, ModeOfResult, LineTooLong
<1>5. CASE DataEof
  BY <1>5 DEF Bounds, BufferBounded, DataBounded, ModeOfResult, DataEof
<1>6. CASE DataTerminator
  BY <1>6 DEF Bounds, BufferBounded, DataBounded, ModeOfResult, DataTerminator
<1>7. CASE DataLine
  <2>1. Len(data \o Unstuff(line)) = Len(data) + Len(Unstuff(line))
    BY UnstuffLemma, ConcatProperties DEF TypeOK
  <2>2. CASE pc' = "done"
    BY <1>7, <2>2 DEF Bounds, BufferBounded, DataBounded, ModeOfResult, DataLine
  <2>3. CASE pc' = "read"
    <3>1. mode = "data" /\ mode' = "data" /\ line' = <<>> /\ Len(data') <= MaxSize /\ torn' = torn
      BY <1>7, <2>1, <2>3 DEF DataLine
    <3>2. Len(data') \in Nat
      BY <1>7, TypeStep DEF TypeOK, Next, Read
    <3>3. BufferBounded' /\ DataBounded'
      BY <1>0, <3>1, <3>2 DEF BufferBounded, DataBounded
    <3>4. ModeOfResult'
      BY <2>3, <3>1 DEF Bounds, ModeOfResult
    <3> QED
      BY <3>3, <3>4 DEF Bounds
  <2> QED
    BY <1>7, <2>2, <2>3 DEF DataLine
<1>8. CASE Answer
  BY <1>0, <1>8 DEF Bounds, BufferBounded, DataBounded, ModeOfResult, Answer
<1>9. CASE CommandEof
  BY <1>9 DEF Bounds, BufferBounded, DataBounded, ModeOfResult, CommandEof
<1>10. CASE CommandLine
  BY <1>0, <1>10 DEF Bounds, BufferBounded, DataBounded, ModeOfResult, CommandLine
<1>11. CASE Cut
  BY <1>11 DEF Bounds, BufferBounded, DataBounded, ModeOfResult, Cut
<1>12. CASE UNCHANGED vars
  BY <1>12 DEF Bounds, BufferBounded, DataBounded, ModeOfResult, vars
<1> QED
  BY <1>1, <1>2, <1>3, <1>4, <1>5, <1>6, <1>7, <1>8, <1>9, <1>10, <1>11, <1>12 DEF Next, Read

-----------------------------------------------------------------------------
(***************************************************************************)
(* Lines.                                                                  *)
(***************************************************************************)
\* Where an empty line begins to be read, there is nothing else to show.
LEMMA EmptyLine ==
  ASSUME TypeOK', line' = <<>>, pc' = "read",
         (pos \in LineStarts \/ pos = Len(stream)), UNCHANGED <<stream, pos>>
  PROVE  Lines'
<1>1. pos' \in Nat /\ Len(line') = 0
  BY DEF TypeOK
<1>2. pos' - Len(line') = pos /\ LineStarts' = LineStarts
  BY <1>1 DEF LineStarts, LineEnds
<1> QED
  BY <1>1, <1>2 DEF Lines, LineIsPiece, LineBeginsRight, NoInnerNewline, LineIsWhole,
                    DoneAtLineEnd, Aligned

\* A line that was returned ends where a line ends, or where the client closed.
LEMMA ReturnedLine ==
  ASSUME TypeOK, Lines, Aligned, pc = "line", line # <<>>
  PROVE  /\ line[Len(line)] = stream[pos] /\ pos \in 1 .. Len(stream)
         /\ pos \in LineStarts \/ pos = Len(stream)
         /\ line[Len(line)] = LF => pos \in LineEnds
<1>1. Len(line) \in Nat \ {0} /\ pos \in 0 .. Len(stream) /\ Len(stream) \in Nat
  BY EmptySeq DEF TypeOK
<1>2. Len(line) <= pos /\ line[Len(line)] = stream[(pos - Len(line)) + Len(line)]
  BY <1>1 DEF Lines, LineIsPiece
<1>3. line[Len(line)] = stream[pos] /\ pos \in 1 .. Len(stream)
  BY <1>1, <1>2
<1>4. line[Len(line)] = LF => pos \in LineEnds
  BY <1>3 DEF LineEnds
<1>5. line[Len(line)] = LF \/ pos = Len(stream)
  BY DEF Lines, LineIsWhole, Aligned
<1> QED
  BY <1>3, <1>4, <1>5 DEF LineStarts

\* Every step keeps the reader in step with the lines of the stream.
LEMMA LinesStep == TypeOK /\ Bounds /\ Lines /\ [Next]_vars => Lines'
<1> SUFFICES ASSUME TypeOK, Bounds, Lines, [Next]_vars PROVE Lines'
  OBVIOUS
<1> USE DEF Lines
<1>0. TypeOK'
  BY TypeStep
<1>1. CASE Fill
  <2>1. UNCHANGED <<stream, pos, pc, line, result, torn>>
    BY <1>1 DEF Fill
  <2> QED
    BY <2>1 DEF LineIsPiece, LineBeginsRight, NoInnerNewline, LineIsWhole, DoneAtLineEnd,
                Aligned, LineStarts, LineEnds
<1>2. CASE AtEof
  <2>1. UNCHANGED <<stream, pos, line, result, torn>> /\ pc = "read" /\ pc' = "line"
    BY <1>2 DEF AtEof
  <2>2. pos = Len(stream)
    BY <1>2 DEF AtEof
  <2> QED
    BY <2>1, <2>2 DEF LineIsPiece, LineBeginsRight, NoInnerNewline, LineIsWhole, DoneAtLineEnd,
                      Aligned, LineStarts, LineEnds
<1>3. CASE Take
  <2> SUFFICES ASSUME ~torn PROVE Lines'
    <3>1. torn' = torn /\ pc' # "done"
      BY <1>3 DEF Take
    <3> QED
      BY <3>1 DEF LineIsPiece, LineBeginsRight, NoInnerNewline, LineIsWhole, DoneAtLineEnd, Aligned
  <2>1. /\ pc = "read" /\ pos < filled /\ pos' = TakeTo /\ UNCHANGED <<stream, torn>>
        /\ pc' = IF Newlines = {} THEN "read" ELSE "line"
    BY <1>3 DEF Take
  <2>2. Aligned
    BY <2>1 DEF Aligned
  <2>3. /\ Len(line) \in Nat /\ pos \in Nat /\ TakeTo \in Nat /\ Len(stream) \in Nat
        /\ pos < TakeTo /\ TakeTo <= Len(stream)
    BY <2>1, TakeToLemma DEF TypeOK
  <2>4. /\ Len(line') = Len(line) + (TakeTo - pos)
        /\ \A i \in 1 .. Len(line') :
             line'[i] = IF i <= Len(line) THEN line[i] ELSE stream[pos + (i - Len(line))]
    BY <1>3, TakeLemma
  <2>5. Len(line) <= pos /\ pos' - Len(line') = pos - Len(line)
    BY <2>1, <2>2, <2>3, <2>4 DEF LineIsPiece
  <2>6. ASSUME NEW i \in 1 .. Len(line') PROVE line'[i] = stream[(pos - Len(line)) + i]
    <3>1. CASE i <= Len(line)
      <4>1. i \in 1 .. Len(line)
        BY <2>3, <2>4, <3>1
      <4> QED
        BY <2>2, <2>4, <3>1, <4>1 DEF LineIsPiece
    <3>2. CASE ~(i <= Len(line))
      <4>1. pos + (i - Len(line)) = (pos - Len(line)) + i
        BY <2>3, <2>4
      <4> QED
        BY <2>4, <3>2, <4>1
    <3> QED
      BY <3>1, <3>2
  <2>7. LineIsPiece'
    BY <2>1, <2>3, <2>4, <2>5, <2>6 DEF LineIsPiece
  <2>8. LineBeginsRight'
    <3>1. pos # Len(stream)
      BY <2>3
    <3>2. pos - Len(line) \in LineStarts
      BY <2>2, <3>1 DEF LineBeginsRight
    <3> QED
      BY <2>1, <2>5, <3>2 DEF LineBeginsRight, LineStarts, LineEnds
  <2>9. \A i \in 1 .. Len(line') - 1 : line'[i] # LF
    <3> SUFFICES ASSUME NEW i \in 1 .. Len(line') - 1 PROVE line'[i] # LF
      OBVIOUS
    <3>1. CASE i <= Len(line)
      <4>1. i \in 1 .. Len(line) /\ line'[i] = line[i]
        BY <2>3, <2>4, <3>1
      <4>2. line # <<>>
        BY <4>1
      <4>3. line[i] # LF
        <5>1. CASE i = Len(line)
          BY <2>1, <2>2, <4>2, <5>1 DEF NoInnerNewline
        <5>2. CASE i # Len(line)
          <6>1. i \in 1 .. Len(line) - 1
            BY <2>3, <4>1, <5>2
          <6> QED
            BY <2>2, <6>1 DEF NoInnerNewline
        <5> QED
          BY <5>1, <5>2
      <4> QED
        BY <4>1, <4>3
    <3>2. CASE ~(i <= Len(line))
      <4>1. pos + (i - Len(line)) \in pos + 1 .. TakeTo - 1
        BY <2>3, <2>4, <3>2
      <4>2. line'[i] = stream[pos + (i - Len(line))]
        BY <2>3, <2>4, <3>2
      <4> QED
        BY <2>1, <4>1, <4>2, TakeToLemma
    <3> QED
      BY <3>1, <3>2
  <2>10. line'[Len(line')] = stream[TakeTo]
    <3>1. Len(line') \in 1 .. Len(line') /\ ~(Len(line') <= Len(line))
      BY <2>3, <2>4
    <3>2. pos + (Len(line') - Len(line)) = TakeTo
      BY <2>3, <2>4
    <3> QED
      BY <2>4, <3>1, <3>2
  <2>11. NoInnerNewline' /\ LineIsWhole' /\ DoneAtLineEnd'
    BY <2>1, <2>9, <2>10, TakeToLemma DEF NoInnerNewline, LineIsWhole, DoneAtLineEnd
  <2> QED
    BY <2>7, <2>8, <2>11
<1>4. CASE LineTooLong
  <2>1. (pc' = "done" /\ result' = "toolarge") \/ pc' = "closed"
    BY <1>4 DEF LineTooLong
  <2> QED
    BY <2>1 DEF LineIsPiece, LineBeginsRight, NoInnerNewline, LineIsWhole, DoneAtLineEnd, Aligned
<1>5. CASE DataEof
  BY <1>5 DEF LineIsPiece, LineBeginsRight, NoInnerNewline, LineIsWhole, DoneAtLineEnd, Aligned,
              DataEof
<1>6. CASE DataTerminator
  <2>1. mode = "data" /\ pc = "line" /\ IsTerminator(line) /\ pc' = "done" /\ UNCHANGED <<stream, pos>>
    BY <1>6 DEF DataTerminator
  <2>2. Aligned
    BY <2>1 DEF Aligned, Bounds, ModeOfResult
  <2>3. line # <<>> /\ line[Len(line)] = LF
    BY <2>1 DEF IsTerminator, LF, Dot, CR
  <2>4. pos \in LineStarts
    BY <2>1, <2>2, <2>3, ReturnedLine DEF LineStarts
  <2>5. DoneAtLineEnd'
    BY <2>1, <2>4 DEF DoneAtLineEnd, LineStarts, LineEnds
  <2> QED
    BY <2>1, <2>5 DEF LineIsPiece, LineBeginsRight, NoInnerNewline, LineIsWhole, Aligned
<1>7. CASE DataLine
  <2>1. mode = "data" /\ pc = "line" /\ line # <<>> /\ UNCHANGED <<stream, pos>>
    BY <1>7 DEF DataLine
  <2>2. Aligned
    BY <2>1 DEF Aligned, Bounds, ModeOfResult
  <2>3. CASE pc' = "done" /\ result' = "toolarge"
    BY <2>3 DEF LineIsPiece, LineBeginsRight, NoInnerNewline, LineIsWhole, DoneAtLineEnd, Aligned
  <2>4. CASE pc' = "read" /\ line' = <<>>
    BY <1>0, <2>1, <2>2, <2>4, ReturnedLine, EmptyLine
  <2> QED
    BY <1>7, <2>3, <2>4 DEF DataLine
<1>8. CASE Answer
  <2>1. pc = "done" /\ pc' = "read" /\ line' = <<>> /\ UNCHANGED <<stream, pos>>
    BY <1>8 DEF Answer
  <2>2. CASE result = "accepted"
    BY <1>0, <2>1, <2>2, EmptyLine DEF DoneAtLineEnd
  <2>3. CASE result = "toolarge"
    <3>1. torn'
      BY <1>8, <2>3 DEF Answer
    <3> QED
      BY <2>1, <3>1 DEF LineIsPiece, LineBeginsRight, NoInnerNewline, LineIsWhole, DoneAtLineEnd,
                        Aligned
  <2> QED
    BY <2>1, <2>2, <2>3 DEF Bounds, ModeOfResult
<1>9. CASE CommandEof
  BY <1>9 DEF LineIsPiece, LineBeginsRight, NoInnerNewline, LineIsWhole, DoneAtLineEnd, Aligned,
              CommandEof
<1>10. CASE CommandLine
  <2>1. pc = "line" /\ line # <<>> /\ line' = <<>> /\ UNCHANGED <<stream, pos, torn>>
    BY <1>10 DEF CommandLine
  <2>2. CASE pc' = "closed"
    BY <2>2 DEF LineIsPiece, LineBeginsRight, NoInnerNewline, LineIsWhole, DoneAtLineEnd, Aligned
  <2>3. CASE pc' = "read" /\ torn
    BY <2>1, <2>3 DEF LineIsPiece, LineBeginsRight, NoInnerNewline, LineIsWhole, DoneAtLineEnd,
                      Aligned
  <2>4. CASE pc' = "read" /\ ~torn
    <3>1. Aligned
      BY <2>1, <2>4 DEF Aligned
    <3> QED
      BY <1>0, <2>1, <2>4, <3>1, ReturnedLine, EmptyLine
  <2> QED
    BY <1>10, <2>2, <2>3, <2>4 DEF CommandLine
<1>11. CASE Cut
  BY <1>11 DEF LineIsPiece, LineBeginsRight, NoInnerNewline, LineIsWhole, DoneAtLineEnd, Aligned, Cut
<1>12. CASE UNCHANGED vars
  BY <1>12 DEF LineIsPiece, LineBeginsRight, NoInnerNewline, LineIsWhole, DoneAtLineEnd, Aligned,
               LineStarts, LineEnds, vars
<1> QED
  BY <1>1, <1>2, <1>3, <1>4, <1>5, <1>6, <1>7, <1>8, <1>9, <1>10, <1>11, <1>12 DEF Next, Read

-----------------------------------------------------------------------------
(***************************************************************************)
(* Whole lines.                                                            *)
(***************************************************************************)
\* A line returned to the command loop is a line of the stream.
LEMMA LineIsLine ==
  ASSUME TypeOK, Lines, Aligned, pc = "line", line # <<>>
  PROVE  pos - Len(line) \in LineStarts /\ line = LineAfter(pos - Len(line))
<1> DEFINE b == pos - Len(line)
           ends == {i \in LineEnds : i > b}
<1>1. /\ Len(line) \in Nat \ {0} /\ pos \in Nat /\ Len(stream) \in Nat /\ pos <= Len(stream)
      /\ Len(line) <= pos /\ \A i \in 1 .. Len(line) : line[i] = stream[b + i]
  BY EmptySeq DEF TypeOK, Lines, LineIsPiece
<1>2. b \in Nat /\ b < pos /\ Len(line) = pos - b
  BY <1>1
<1>3. b \in LineStarts
  BY DEF Lines, LineBeginsRight
<1> HIDE DEF b
<1>4. ASSUME NEW j \in b + 1 .. pos - 1 PROVE stream[j] # LF
  <2>1. j - b \in 1 .. Len(line) - 1 /\ b + (j - b) = j
    BY <1>1, <1>2
  <2>2. line[j - b] # LF
    BY <2>1 DEF Lines, NoInnerNewline
  <2>3. line[j - b] = stream[b + (j - b)]
    BY <1>1, <2>1
  <2> QED
    BY <2>1, <2>2, <2>3
<1>5. line = SubSeq(stream, b + 1, pos)
  <2>1. \A i \in b + 1 .. pos : stream[i] \in Bytes
    BY <1>1, <1>2, ElementOfSeq DEF TypeOK
  <2>2. b + 1 \in Int /\ pos \in Int /\ b + 1 <= pos
    BY <1>1, <1>2
  <2>3. /\ SubSeq(stream, b + 1, pos) \in Seq(Bytes)
        /\ Len(SubSeq(stream, b + 1, pos)) = pos - (b + 1) + 1
        /\ \A i \in 1 .. pos - (b + 1) + 1 : SubSeq(stream, b + 1, pos)[i] = stream[(b + 1) + i - 1]
    BY <2>1, <2>2, SubSeqProperties
  <2>4. Len(SubSeq(stream, b + 1, pos)) = Len(line)
    BY <1>1, <1>2, <2>3
  <2>5. ASSUME NEW i \in 1 .. Len(line) PROVE line[i] = SubSeq(stream, b + 1, pos)[i]
    <3>1. i \in 1 .. pos - (b + 1) + 1 /\ (b + 1) + i - 1 = b + i
      BY <1>1, <1>2
    <3> QED
      BY <1>1, <2>3, <3>1
  <2>6. line \in Seq(Bytes)
    BY DEF TypeOK
  <2> QED
    BY <2>3, <2>4, <2>5, <2>6, SeqEqual
<1>6. stream[pos] = line[Len(line)] /\ (line[Len(line)] = LF => pos \in LineEnds)
  BY ReturnedLine
<1>7. CASE line[Len(line)] = LF
  <2>1. pos \in ends
    BY <1>2, <1>6, <1>7
  <2>2. ASSUME NEW j \in ends PROVE pos <= j
    <3>1. j \in Nat /\ j > b /\ stream[j] = LF
      BY DEF LineEnds
    <3>2. j \notin b + 1 .. pos - 1
      BY <1>4, <3>1
    <3> QED
      BY <1>1, <1>2, <3>1, <3>2
  <2>3. \A i \in ends : (\A j \in ends : i <= j) => i = pos
    <3> SUFFICES ASSUME NEW i \in ends, \A j \in ends : i <= j PROVE i = pos
      OBVIOUS
    <3>1. i <= pos /\ pos <= i /\ i \in Nat
      BY <2>1, <2>2 DEF LineEnds
    <3> QED
      BY <1>1, <3>1
  <2> HIDE DEF ends
  <2>4. (CHOOSE i \in ends : \A j \in ends : i <= j) = pos
    BY <2>1, <2>2, <2>3
  <2>5. ends # {} /\ LineAfter(b) = SubSeq(stream, b + 1, CHOOSE i \in ends : \A j \in ends : i <= j)
    BY <2>1 DEF LineAfter, ends
  <2> QED
    BY <1>3, <1>5, <2>4, <2>5 DEF b
<1>8. CASE line[Len(line)] # LF
  <2>1. pos = Len(stream)
    BY <1>8 DEF Lines, LineIsWhole, Aligned
  <2>2. ASSUME NEW j \in ends PROVE FALSE
    <3>1. j \in 1 .. Len(stream) /\ j > b /\ stream[j] = LF
      BY DEF LineEnds
    <3>2. j \in b + 1 .. pos - 1 \/ j = pos
      BY <1>1, <1>2, <2>1, <3>1
    <3> QED
      BY <1>4, <1>6, <1>8, <3>1, <3>2
  <2>3. ends = {}
    BY <2>2
  <2>4. LineAfter(b) = SubSeq(stream, b + 1, Len(stream))
    BY <2>3 DEF LineAfter
  <2> QED
    BY <1>3, <1>5, <2>1, <2>4 DEF b
<1> QED
  BY <1>7, <1>8

-----------------------------------------------------------------------------
(***************************************************************************)
(* The message.  Rank counts the bytes that belong to it, so that the      *)
(* message read so far is known byte by byte.                              *)
(***************************************************************************)
\* More of the stream has at least as many bytes of the message, and one more
\* with every byte that is kept.
LEMMA RankGrows ==
  ASSUME NEW m \in Nat, NEW n \in Nat, m <= n
  PROVE  /\ IsFiniteSet(KeptTo(m)) /\ Rank(m) \in Nat /\ Rank(n) \in Nat
         /\ KeptTo(m) \subseteq KeptTo(n) /\ Rank(m) <= Rank(n)
         /\ m < n /\ n \in KeptTo(n) => Rank(m) < Rank(n)
<1>1. IsFiniteSet(1 .. m) /\ IsFiniteSet(1 .. n)
  BY FS_Interval
<1>2. KeptTo(m) \in SUBSET (1 .. m) /\ KeptTo(n) \in SUBSET (1 .. n)
  BY DEF KeptTo
<1>3. IsFiniteSet(KeptTo(m)) /\ IsFiniteSet(KeptTo(n))
  BY <1>1, <1>2, FS_Subset
<1>4. KeptTo(m) \in SUBSET KeptTo(n)
  BY DEF KeptTo
<1>5. Rank(m) \in Nat /\ Rank(n) \in Nat
  BY <1>3, FS_CardinalityType DEF Rank
<1>6. Rank(m) <= Rank(n) /\ (Rank(n) = Rank(m) => KeptTo(n) = KeptTo(m))
  BY <1>3, <1>4, FS_Subset DEF Rank
<1>7. m < n => n \notin KeptTo(m)
  BY DEF KeptTo
<1> QED
  BY <1>3, <1>4, <1>5, <1>6, <1>7

\* Where every byte is kept, ranks count on.
LEMMA RankCounts ==
  ASSUME NEW a \in Nat, NEW n \in Nat, a <= n, \A i \in a + 1 .. n : Kept(i)
  PROVE  Rank(n) = Rank(a) + (n - a)
<1>1. KeptTo(n) = KeptTo(a) \cup (a + 1 .. n)
  BY DEF KeptTo
<1>2. KeptTo(a) \cap (a + 1 .. n) = {}
  BY DEF KeptTo
<1>3. IsFiniteSet(KeptTo(a)) /\ Rank(a) \in Nat
  BY RankGrows
<1>4. IsFiniteSet(a + 1 .. n) /\ Cardinality(a + 1 .. n) = n - a
  <2>1. a + 1 \in Int /\ n \in Int
    OBVIOUS
  <2>2. /\ IsFiniteSet(a + 1 .. n)
        /\ Cardinality(a + 1 .. n) = IF a + 1 > n THEN 0 ELSE n - (a + 1) + 1
    BY <2>1, FS_Interval
  <2> QED
    BY <2>2
<1>5. Cardinality(KeptTo(a) \cup (a + 1 .. n))
        = Cardinality(KeptTo(a)) + Cardinality(a + 1 .. n) - Cardinality(KeptTo(a) \cap (a + 1 .. n))
  BY <1>3, <1>4, FS_Union
<1>6. Cardinality(KeptTo(a) \cap (a + 1 .. n)) = 0
  BY <1>2, FS_EmptySet
<1> QED
  BY <1>1, <1>3, <1>4, <1>5, <1>6 DEF Rank

\* A byte that is dropped does not count.
LEMMA RankSkips ==
  ASSUME NEW a \in Nat, ~Kept(a + 1)
  PROVE  Rank(a + 1) = Rank(a)
<1>1. KeptTo(a + 1) = KeptTo(a)
  BY DEF KeptTo
<1> QED
  BY <1>1 DEF Rank

\* Only the first byte of a line can be dropped.
LEMMA InnerKept ==
  ASSUME NEW c \in Nat, NEW e \in Nat, \A j \in c + 1 .. e - 1 : stream[j] # LF
  PROVE  \A i \in c + 2 .. e : Kept(i)
<1> SUFFICES ASSUME NEW i \in c + 2 .. e PROVE i - 1 \notin LineStarts
  BY DEF Kept
<1>1. i - 1 \in c + 1 .. e - 1 /\ i - 1 # 0
  OBVIOUS
<1>2. stream[i - 1] # LF
  BY <1>1
<1> QED
  BY <1>1, <1>2 DEF LineStarts, LineEnds

\* A line is at least as long as any stretch without a line feed it begins
\* with.
LEMMA LineReaches ==
  ASSUME stream \in Seq(Bytes), NEW c \in Nat, NEW e \in Nat, c < e, e <= Len(stream),
         \A j \in c + 1 .. e - 1 : stream[j] # LF
  PROVE  Len(LineAfter(c)) >= e - c
<1> DEFINE ends == {i \in LineEnds : i > c}
           Piece(m) == SubSeq(stream, c + 1, m)
<1>1. Len(stream) \in Nat
  BY LenProperties
<1>2. ASSUME NEW m \in e .. Len(stream) PROVE Len(Piece(m)) >= e - c
  <2>1. c + 1 \in Int /\ m \in Int /\ c + 1 <= m /\ \A i \in c + 1 .. m : stream[i] \in Bytes
    BY <1>1, <1>2, ElementOfSeq
  <2>2. Len(SubSeq(stream, c + 1, m)) = m - (c + 1) + 1
    BY <2>1, SubSeqProperties
  <2> QED
    BY <1>1, <1>2, <2>2
<1>3. CASE ends = {}
  BY <1>1, <1>2, <1>3 DEF LineAfter
<1>4. CASE ends # {}
  <2> DEFINE first == CHOOSE i \in ends : \A j \in ends : i <= j
  <2>1. ends \in SUBSET Nat
    BY <1>1 DEF LineEnds
  <2>2. \E i \in ends : \A j \in ends : i <= j
    BY <1>4, <2>1, LeastExists
  <2>3. first \in ends
    BY <2>2
  <2>4. first \in 1 .. Len(stream) /\ first > c /\ stream[first] = LF
    BY <2>3 DEF LineEnds
  <2> HIDE DEF first
  <2>5. first \in e .. Len(stream)
    BY <1>1, <2>4
  <2>6. LineAfter(c) = Piece(first)
    BY <1>4 DEF LineAfter, first
  <2> QED
    BY <1>2, <2>5, <2>6
<1> QED
  BY <1>3, <1>4

\* The message read so far is the kept bytes among the first n, in order.
Copy(d, n) ==
  /\ Rank(n) = Len(d)
  /\ \A k \in 1 .. Len(d) : \E i \in KeptTo(n) : Rank(i) = k /\ d[k] = stream[i]

\* No message ends before the n-th byte.
NoEndBefore(n) == \A b \in LineStarts : b < n => ~IsTerminator(LineAfter(b))

\* While a message is read, it is what the lines before this one hold, and none
\* of them ends it.
Copied ==
  mode = "data" /\ pc \in {"read", "line"} =>
    Copy(data, pos - Len(line)) /\ NoEndBefore(pos - Len(line))

\* What the stream means does not change while it is read.
LEMMA StreamFixed ==
  ASSUME stream' = stream
  PROVE  /\ LineStarts' = LineStarts /\ Terminators' = Terminators
         /\ MessageEnd' = MessageEnd /\ Body' = Body
         /\ LineAfter(MessageEnd)' = LineAfter(MessageEnd)
         /\ Copied' <=> (mode' = "data" /\ pc' \in {"read", "line"} =>
              Copy(data', pos' - Len(line')) /\ NoEndBefore(pos' - Len(line')))
<1>1. LineEnds' = LineEnds
  BY DEF LineEnds
<1>2. LineStarts' = LineStarts
  BY <1>1 DEF LineStarts
<1>3. Terminators' = Terminators
  BY <1>1, <1>2 DEF Terminators, LineAfter
<1>4. MessageEnd' = MessageEnd
  BY <1>3 DEF MessageEnd
<1>5. Body' = Body
  BY <1>1, <1>2, <1>4 DEF Body, Rank, KeptTo, Kept, LineAfter
<1>6. LineAfter(MessageEnd)' = LineAfter(MessageEnd)
  BY <1>1, <1>4 DEF LineAfter
<1>7. Copied' <=> (mode' = "data" /\ pc' \in {"read", "line"} =>
         Copy(data', pos' - Len(line')) /\ NoEndBefore(pos' - Len(line')))
  BY <1>1, <1>2 DEF Copied, Copy, NoEndBefore, Rank, KeptTo, Kept, LineAfter
<1> QED
  BY <1>2, <1>3, <1>4, <1>5, <1>6, <1>7

\* A stretch of the stream that is kept is appended byte by byte.
LEMMA CopyGrows ==
  ASSUME NEW d \in Seq(Bytes), NEW u \in Seq(Bytes), NEW a \in Nat, Copy(d, a),
         \A i \in a + 1 .. a + Len(u) : Kept(i),
         \A j \in 1 .. Len(u) : u[j] = stream[a + j]
  PROVE  Copy(d \o u, a + Len(u))
<1> DEFINE n == a + Len(u)
           w == d \o u
<1>1. Len(d) \in Nat /\ Len(u) \in Nat
  BY LenProperties
<1>2. n \in Nat /\ a <= n
  BY <1>1
<1>3. /\ Len(w) = Len(d) + Len(u)
      /\ \A k \in 1 .. Len(d) + Len(u) : w[k] = IF k <= Len(d) THEN d[k] ELSE u[k - Len(d)]
  BY ConcatProperties
<1>4. Rank(a) = Len(d)
  BY DEF Copy
<1>5. ASSUME NEW j \in 0 .. Len(u) PROVE Rank(a + j) = Len(d) + j
  <2>1. a + j \in Nat /\ a <= a + j /\ \A i \in a + 1 .. a + j : Kept(i)
    BY <1>1
  <2>2. Rank(a + j) = Rank(a) + ((a + j) - a)
    BY <2>1, RankCounts
  <2> QED
    BY <1>1, <1>4, <2>2
<1> HIDE DEF w
<1>6. ASSUME NEW k \in 1 .. Len(w) PROVE \E i \in KeptTo(n) : Rank(i) = k /\ w[k] = stream[i]
  <2>1. CASE k <= Len(d)
    <3>1. PICK i \in KeptTo(a) : Rank(i) = k /\ d[k] = stream[i]
      BY <1>1, <1>3, <2>1 DEF Copy
    <3>2. i \in KeptTo(n)
      BY <1>2, RankGrows
    <3> QED
      BY <1>1, <1>3, <2>1, <3>1, <3>2
  <2>2. CASE ~(k <= Len(d))
    <3> DEFINE j == k - Len(d)
    <3>1. j \in 1 .. Len(u) /\ Len(d) + j = k
      BY <1>1, <1>3, <2>2
    <3>2. w[k] = u[j]
      BY <1>1, <1>3, <2>2
    <3> HIDE DEF j
    <3>3. a + j \in 1 .. n /\ a + j \in a + 1 .. a + Len(u)
      BY <1>1, <3>1
    <3>4. a + j \in KeptTo(n)
      BY <3>3 DEF KeptTo
    <3>5. Rank(a + j) = k /\ w[k] = stream[a + j]
      BY <1>1, <1>5, <3>1, <3>2
    <3> QED
      BY <3>4, <3>5
  <2> QED
    BY <2>1, <2>2
<1>7. Rank(n) = Len(w)
  BY <1>1, <1>3, <1>5
<1> QED
  BY <1>6, <1>7 DEF Copy, w

\* A byte that is dropped adds nothing to the message.
LEMMA CopySkips ==
  ASSUME NEW d \in Seq(Bytes), NEW c \in Nat, Copy(d, c), ~Kept(c + 1)
  PROVE  Copy(d, c + 1)
<1>1. KeptTo(c + 1) = KeptTo(c)
  BY DEF KeptTo
<1>2. Rank(c + 1) = Rank(c)
  BY RankSkips
<1> QED
  BY <1>1, <1>2 DEF Copy

\* What unstuffing leaves of a line.
LEMMA UnstuffShifts ==
  ASSUME NEW l \in Seq(Bytes)
  PROVE  /\ Stuffed(l) => /\ Len(Unstuff(l)) = Len(l) - 1
                          /\ \A j \in 1 .. Len(l) - 1 : Unstuff(l)[j] = l[j + 1]
         /\ ~Stuffed(l) => Unstuff(l) = l
<1>1. ASSUME Stuffed(l)
      PROVE  Len(Unstuff(l)) = Len(l) - 1 /\ \A j \in 1 .. Len(l) - 1 : Unstuff(l)[j] = l[j + 1]
  <2>1. l # <<>> /\ Unstuff(l) = Tail(l)
    BY <1>1 DEF Stuffed, Unstuff
  <2>2. Len(Tail(l)) = Len(l) - 1 /\ \A j \in 1 .. Len(Tail(l)) : Tail(l)[j] = l[j + 1]
    BY <2>1, HeadTailProperties
  <2> QED
    BY <2>1, <2>2
<1> QED
  BY <1>1 DEF Unstuff

\* A line of the message is appended as it was sent, less a stuffed dot.
LEMMA CopyLine ==
  ASSUME TypeOK, Lines, Aligned, pc = "line", line # <<>>, Copy(data, pos - Len(line))
  PROVE  /\ Copy(data \o Unstuff(line), pos)
         /\ \A j \in pos - Len(line) + 1 .. pos - 1 : stream[j] # LF
<1> DEFINE c == pos - Len(line)
<1>1. /\ Len(line) \in Nat \ {0} /\ pos \in Nat /\ Len(line) <= pos
      /\ \A i \in 1 .. Len(line) : line[i] = stream[c + i]
  BY EmptySeq DEF TypeOK, Lines, LineIsPiece
<1>2. c \in Nat /\ c < pos /\ Len(line) = pos - c
  BY <1>1
<1>3. c \in LineStarts /\ line = LineAfter(c)
  BY LineIsLine
<1>4. line \in Seq(Bytes) /\ data \in Seq(Bytes) /\ Unstuff(line) \in Seq(Bytes)
  BY UnstuffLemma DEF TypeOK
<1>5. Copy(data, c)
  OBVIOUS
<1> HIDE DEF c
<1>6. ASSUME NEW j \in c + 1 .. pos - 1 PROVE stream[j] # LF
  <2>1. j - c \in 1 .. Len(line) - 1 /\ j - c \in 1 .. Len(line) /\ c + (j - c) = j
    BY <1>1, <1>2
  <2>2. line[j - c] # LF
    BY <2>1 DEF Lines, NoInnerNewline
  <2> QED
    BY <1>1, <2>1, <2>2
<1>7. \A i \in c + 2 .. pos : Kept(i)
  BY <1>1, <1>2, <1>6, InnerKept
<1>8. Kept(c + 1) <=> ~Stuffed(line)
  <2>1. (c + 1) - 1 = c
    BY <1>2
  <2> QED
    BY <1>3, <2>1 DEF Kept
<1>9. CASE Stuffed(line)
  <2>1. Copy(data, c + 1)
    BY <1>2, <1>4, <1>5, <1>8, <1>9, CopySkips
  <2>2. Len(Unstuff(line)) = Len(line) - 1 /\ \A j \in 1 .. Len(line) - 1 : Unstuff(line)[j] = line[j + 1]
    BY <1>4, <1>9, UnstuffShifts
  <2>3. (c + 1) + Len(Unstuff(line)) = pos /\ c + 1 \in Nat
    BY <1>1, <1>2, <2>2
  <2>4. \A i \in (c + 1) + 1 .. (c + 1) + Len(Unstuff(line)) : Kept(i)
    BY <1>2, <1>7, <2>3
  <2>5. ASSUME NEW j \in 1 .. Len(Unstuff(line)) PROVE Unstuff(line)[j] = stream[(c + 1) + j]
    <3>1. j + 1 \in 1 .. Len(line) /\ c + (j + 1) = (c + 1) + j /\ j \in 1 .. Len(line) - 1
      BY <1>1, <1>2, <2>2
    <3>2. line[j + 1] = stream[c + (j + 1)]
      BY <1>1, <3>1
    <3> QED
      BY <2>2, <3>1, <3>2
  <2>6. Copy(data \o Unstuff(line), (c + 1) + Len(Unstuff(line)))
    BY <1>4, <2>1, <2>3, <2>4, <2>5, CopyGrows
  <2> QED
    BY <1>6, <2>3, <2>6 DEF c
<1>10. CASE ~Stuffed(line)
  <2>1. Unstuff(line) = line
    BY <1>10 DEF Unstuff
  <2>2. c + Len(line) = pos
    BY <1>1, <1>2
  <2>3. \A i \in c + 1 .. c + Len(line) : Kept(i)
    <3> SUFFICES ASSUME NEW i \in c + 1 .. c + Len(line) PROVE Kept(i)
      OBVIOUS
    <3>1. i = c + 1 \/ i \in c + 2 .. pos
      BY <1>1, <1>2, <2>2
    <3> QED
      BY <1>7, <1>8, <1>10, <3>1
  <2>4. Copy(data \o line, c + Len(line))
    BY <1>1, <1>2, <1>4, <1>5, <2>3, CopyGrows
  <2> QED
    BY <1>6, <2>1, <2>2, <2>4 DEF c
<1> QED
  BY <1>9, <1>10

\* Between two line feeds no line begins, so no message ends there.
LEMMA NoEndInside ==
  ASSUME NEW c \in Nat, NEW e \in Nat, c < e, NoEndBefore(c),
         \A j \in c + 1 .. e - 1 : stream[j] # LF, ~IsTerminator(LineAfter(c))
  PROVE  NoEndBefore(e)
<1> SUFFICES ASSUME NEW b \in LineStarts, b < e PROVE ~IsTerminator(LineAfter(b))
  BY DEF NoEndBefore
<1>1. CASE b = 0
  BY <1>1 DEF NoEndBefore
<1>2. CASE b # 0
  <2>1. b \in 1 .. Len(stream) /\ stream[b] = LF
    BY <1>2 DEF LineStarts, LineEnds
  <2>2. b \notin c + 1 .. e - 1
    BY <2>1
  <2>3. b < c \/ b = c
    BY <2>1, <2>2
  <2> QED
    BY <2>3 DEF NoEndBefore
<1> QED
  BY <1>1, <1>2

\* A message that does not end before the e-th byte holds what is kept of them.
LEMMA MessageReaches ==
  ASSUME TypeOK, NEW e \in 0 .. Len(stream), NoEndBefore(e)
  PROVE  /\ MessageEnd \in Nat /\ e <= MessageEnd
         /\ Rank(e) \in Nat /\ Rank(e) <= Rank(MessageEnd) /\ Rank(MessageEnd) \in Nat
<1>1. Len(stream) \in Nat /\ e \in Nat
  BY DEF TypeOK
<1>2. Terminators \in SUBSET Nat
  BY <1>1 DEF Terminators, LineStarts, LineEnds
<1>3. CASE Terminators = {}
  <2>1. MessageEnd = Len(stream)
    BY <1>3 DEF MessageEnd
  <2> QED
    BY <1>1, <2>1, RankGrows
<1>4. CASE Terminators # {}
  <2>1. \E b \in Terminators : \A x \in Terminators : b <= x
    BY <1>2, <1>4, LeastExists
  <2>2. MessageEnd \in Terminators
    BY <1>4, <2>1 DEF MessageEnd
  <2>3. MessageEnd \in LineStarts /\ IsTerminator(LineAfter(MessageEnd)) /\ MessageEnd \in Nat
    BY <1>2, <2>2 DEF Terminators
  <2>4. ~(MessageEnd < e)
    BY <2>3 DEF NoEndBefore
  <2>5. e <= MessageEnd
    BY <1>1, <2>3, <2>4
  <2> QED
    BY <1>1, <2>3, <2>5, RankGrows
<1> QED
  BY <1>3, <1>4

\* The message is as long as its kept bytes are many.
LEMMA BodyLength ==
  ASSUME Rank(MessageEnd) \in Nat
  PROVE  Len(Body) = Rank(MessageEnd)
<1> DEFINE n == Rank(MessageEnd)
           At(k) == stream[CHOOSE i \in KeptTo(MessageEnd) : Rank(i) = k]
<1>1. Body = [k \in 1 .. n |-> At(k)]
  BY DEF Body
<1> HIDE DEF n, At
<1>2. Len([k \in 1 .. n |-> At(k)]) = n
  BY DEF n
<1> QED
  BY <1>1, <1>2 DEF n

\* No two bytes of the message have the same place in it.
LEMMA RankInjective ==
  ASSUME NEW n \in Nat, NEW i \in KeptTo(n), NEW j \in KeptTo(n), Rank(i) = Rank(j)
  PROVE  i = j
<1>1. i \in Nat /\ j \in Nat /\ i \in KeptTo(i) /\ j \in KeptTo(j)
  BY DEF KeptTo
<1>2. CASE i < j
  BY <1>1, <1>2, RankGrows
<1>3. CASE j < i
  BY <1>1, <1>3, RankGrows
<1> QED
  BY <1>1, <1>2, <1>3

\* A copy of all that belongs to the message is the message.
LEMMA CopyIsBody ==
  ASSUME data \in Seq(Bytes), MessageEnd \in Nat, Copy(data, MessageEnd)
  PROVE  data = Body
<1> DEFINE n == Rank(MessageEnd)
           At(k) == CHOOSE i \in KeptTo(MessageEnd) : Rank(i) = k
<1>1. Len(data) \in Nat /\ n = Len(data) /\ data = [k \in 1 .. Len(data) |-> data[k]]
  BY LenProperties DEF Copy
<1>2. ASSUME NEW k \in 1 .. Len(data) PROVE data[k] = stream[At(k)]
  <2>1. PICK i \in KeptTo(MessageEnd) : Rank(i) = k /\ data[k] = stream[i]
    BY DEF Copy
  <2>2. At(k) \in KeptTo(MessageEnd) /\ Rank(At(k)) = k
    BY <2>1
  <2> HIDE DEF At
  <2>3. At(k) = i
    BY <2>1, <2>2, RankInjective
  <2> QED
    BY <2>1, <2>3
<1>3. Body = [k \in 1 .. Len(data) |-> stream[At(k)]]
  BY <1>1 DEF Body
<1> HIDE DEF At, n
<1>4. [k \in 1 .. Len(data) |-> data[k]] = [k \in 1 .. Len(data) |-> stream[At(k)]]
  BY <1>2
<1> QED
  BY <1>1, <1>3, <1>4

\* A terminator has at most three bytes.
LEMMA TerminatorShort ==
  ASSUME NEW l, IsTerminator(l)
  PROVE  Len(l) <= 3
<1>1. CASE l = <<Dot, LF>>
  BY <1>1
<1>2. CASE l = <<Dot, CR, LF>>
  BY <1>2
<1> QED
  BY <1>1, <1>2 DEF IsTerminator

\* Every step keeps the copy of the message in step with the stream.
LEMMA CopiedStep == ReadInv /\ Copied /\ [Next]_vars => Copied'
<1> SUFFICES ASSUME ReadInv, Copied, [Next]_vars, mode' = "data", pc' \in {"read", "line"}
             PROVE  Copied'
  BY DEF Copied
<1>0. TypeOK /\ Bounds /\ Lines
  BY DEF ReadInv
<1>1. CASE UNCHANGED <<stream, pos, mode, line, data>> /\ pc \in {"read", "line"}
  <2>1. Copy(data, pos - Len(line)) /\ NoEndBefore(pos - Len(line))
    BY <1>1 DEF Copied
  <2> QED
    BY <1>1, <2>1, StreamFixed
<1>2. CASE Take
  <2>1. /\ pc = "read" /\ mode = "data" /\ pos < filled /\ pos' = TakeTo
        /\ UNCHANGED <<stream, data>>
    BY <1>2 DEF Take
  <2>2. Len(line') = Len(line) + (TakeTo - pos)
    BY <1>0, <1>2, TakeLemma
  <2>3. TakeTo \in Nat /\ pos \in Nat /\ Len(line) \in Nat
    BY <1>0, <2>1, TakeToLemma DEF TypeOK
  <2>4. pos' - Len(line') = pos - Len(line)
    BY <2>1, <2>2, <2>3
  <2>5. Copy(data, pos - Len(line)) /\ NoEndBefore(pos - Len(line))
    BY <2>1 DEF Copied
  <2> QED
    BY <2>1, <2>4, <2>5, StreamFixed
<1>3. CASE DataLine
  <2> DEFINE c == pos - Len(line)
  <2>1. /\ pc = "line" /\ mode = "data" /\ line # <<>> /\ ~IsTerminator(line) /\ ~torn
        /\ data' = data \o Unstuff(line) /\ line' = <<>> /\ UNCHANGED <<stream, pos>>
    BY <1>0, <1>3 DEF DataLine, Bounds, ModeOfResult
  <2>2. Aligned
    BY <2>1 DEF Aligned
  <2>3. Copy(data, c) /\ NoEndBefore(c)
    BY <2>1 DEF Copied
  <2>4. c \in LineStarts /\ line = LineAfter(c)
    BY <1>0, <2>1, <2>2, LineIsLine
  <2>5. c \in Nat /\ pos \in Nat /\ c < pos
    BY <1>0, <2>1, <2>2, EmptySeq DEF TypeOK, Lines, LineIsPiece
  <2>6. Copy(data \o Unstuff(line), pos) /\ \A j \in c + 1 .. pos - 1 : stream[j] # LF
    BY <1>0, <2>1, <2>2, <2>3, CopyLine
  <2> HIDE DEF c
  <2>7. NoEndBefore(pos)
    BY <2>1, <2>3, <2>4, <2>5, <2>6, NoEndInside
  <2>8. pos' - Len(line') = pos
    BY <2>1, <2>5
  <2> QED
    BY <2>1, <2>6, <2>7, <2>8, StreamFixed
<1>4. ASSUME LineTooLong \/ DataEof \/ DataTerminator \/ Answer \/ CommandEof \/ CommandLine \/ Cut
      PROVE  FALSE
  BY <1>4 DEF LineTooLong, DataEof, DataTerminator, Answer, CommandEof, CommandLine, Cut
<1>5. CASE Fill \/ AtEof \/ UNCHANGED vars
  BY <1>1, <1>5 DEF Fill, AtEof, vars
<1> QED
  BY <1>2, <1>3, <1>4, <1>5 DEF Next, Read

\* A terminator that was read ends the message that was copied.
LEMMA AcceptedStep == ReadInv /\ Copied /\ AcceptedIsSent /\ [Next]_vars => AcceptedIsSent'
<1> SUFFICES ASSUME ReadInv, Copied, AcceptedIsSent, [Next]_vars, pc' = "done", result' = "accepted"
             PROVE  AcceptedIsSent'
  BY DEF AcceptedIsSent
<1>0. TypeOK /\ Bounds /\ Lines
  BY DEF ReadInv
<1>1. CASE DataTerminator
  <2> DEFINE c == pos - Len(line)
  <2>1. /\ pc = "line" /\ mode = "data" /\ IsTerminator(line) /\ line # <<>> /\ ~torn
        /\ UNCHANGED <<stream, pos, data>>
    BY <1>0, <1>1 DEF DataTerminator, Bounds, ModeOfResult, IsTerminator
  <2>2. Aligned
    BY <2>1 DEF Aligned
  <2>3. Copy(data, c) /\ NoEndBefore(c)
    BY <2>1 DEF Copied
  <2>4. c \in LineStarts /\ line = LineAfter(c)
    BY <1>0, <2>1, <2>2, LineIsLine
  <2>5. c \in Nat /\ c + Len(line) = pos
    BY <1>0, <2>2 DEF TypeOK, Lines, LineIsPiece
  <2> HIDE DEF c
  <2>6. c \in Terminators
    BY <2>1, <2>4 DEF Terminators
  <2>7. ASSUME NEW b \in Terminators PROVE c <= b /\ b \in Nat
    <3>1. b \in LineStarts /\ IsTerminator(LineAfter(b)) /\ b \in Nat
      BY DEF Terminators, LineStarts, LineEnds
    <3>2. ~(b < c)
      BY <2>3, <3>1 DEF NoEndBefore
    <3> QED
      BY <2>5, <3>1, <3>2
  <2>8. MessageEnd = c
    <3>1. \A b \in Terminators : (\A x \in Terminators : b <= x) => b = c
      BY <2>5, <2>6, <2>7
    <3> QED
      BY <2>6, <2>7, <3>1 DEF MessageEnd
  <2>9. data = Body
    BY <1>0, <2>3, <2>5, <2>8, CopyIsBody DEF TypeOK
  <2> QED
    BY <2>1, <2>4, <2>5, <2>6, <2>8, <2>9, StreamFixed DEF AcceptedIsSent
<1>2. CASE UNCHANGED vars
  BY <1>2, StreamFixed DEF vars, AcceptedIsSent
<1>3. ASSUME Fill \/ AtEof \/ Take \/ LineTooLong \/ DataEof \/ DataLine \/ Answer
             \/ CommandEof \/ CommandLine \/ Cut
      PROVE  FALSE
  BY <1>3 DEF Fill, AtEof, Take, LineTooLong, DataEof, DataLine, Answer, CommandEof, CommandLine, Cut
<1> QED
  BY <1>1, <1>2, <1>3 DEF Next, Read

\* A line over its budget is no terminator, and with what was read before it
\* makes the message too large.
LEMMA TooLongIsTooLarge ==
  ASSUME ReadInv, Copied, mode = "data", LineTooLong
  PROVE  Rank(MessageEnd) \in Nat /\ Rank(MessageEnd) > MaxSize
<1> DEFINE c == pos - Len(line)
           e == TakeTo
<1>0. TypeOK /\ Bounds /\ Lines
  BY DEF ReadInv
<1>1. pc = "read" /\ pos < filled /\ Len(line) + (e - pos) > Limit /\ ~torn
  BY <1>0 DEF LineTooLong, Bounds, ModeOfResult
<1>2. Aligned
  BY <1>1 DEF Aligned
<1>3. /\ Len(line) \in Nat /\ Len(data) \in Nat /\ pos \in Nat /\ filled \in Nat
      /\ Len(stream) \in Nat /\ filled <= Len(stream) /\ MaxSize \in Nat
  BY <1>0, ReadAssumption DEF TypeOK
<1>4. e \in pos + 1 .. filled /\ \A j \in pos + 1 .. e - 1 : stream[j] # LF
  BY <1>0, <1>1, TakeToLemma
<1>5. Len(line) <= pos /\ \A i \in 1 .. Len(line) : line[i] = stream[c + i]
  BY <1>0, <1>2 DEF Lines, LineIsPiece
<1>6. Limit = (MaxSize - Len(data)) + 4 /\ Len(data) <= MaxSize
  BY <1>0, <1>3 DEF Limit, SaturatingSub, Bounds, DataBounded
<1>7. c \in LineStarts
  <2>1. pos # Len(stream)
    BY <1>1, <1>3
  <2> QED
    BY <1>0, <1>2, <2>1 DEF Lines, LineBeginsRight
<1>8. Copy(data, c) /\ NoEndBefore(c)
  BY <1>1 DEF Copied
<1> HIDE DEF c, e
<1>9. c \in Nat /\ c + Len(line) = pos
  BY <1>3, <1>5 DEF c
<1>10. e \in Nat /\ c < e /\ e <= Len(stream) /\ e \in 0 .. Len(stream)
  BY <1>3, <1>4, <1>9
<1>11. e - c > (MaxSize - Len(data)) + 4
  BY <1>1, <1>3, <1>6, <1>9, <1>10
<1>12. ASSUME NEW j \in c + 1 .. e - 1 PROVE stream[j] # LF
  <2>1. CASE j <= pos
    <3>1. j - c \in 1 .. Len(line) /\ c + (j - c) = j /\ line # <<>>
      BY <1>3, <1>9, <2>1
    <3>2. line[j - c] # LF
      BY <1>0, <1>1, <1>2, <1>3, <3>1 DEF Lines, NoInnerNewline
    <3> QED
      BY <1>5, <3>1, <3>2
  <2>2. CASE ~(j <= pos)
    BY <1>3, <1>4, <1>9, <1>10, <2>2
  <2> QED
    BY <2>1, <2>2
<1>13. ~IsTerminator(LineAfter(c))
  <2>1. Len(LineAfter(c)) >= e - c
    BY <1>0, <1>9, <1>10, <1>12, LineReaches DEF TypeOK
  <2>2. ~(Len(LineAfter(c)) <= 3)
    BY <1>3, <1>6, <1>9, <1>10, <1>11, <2>1
  <2> QED
    BY <2>2, TerminatorShort
<1>14. NoEndBefore(e)
  BY <1>8, <1>9, <1>10, <1>12, <1>13, NoEndInside
<1>15. Rank(e) \in Nat /\ Rank(e) <= Rank(MessageEnd) /\ Rank(MessageEnd) \in Nat
  BY <1>0, <1>10, <1>14, MessageReaches
<1>16. Rank(e) = Rank(c + 1) + (e - (c + 1))
  <2>1. \A i \in c + 2 .. e : Kept(i)
    BY <1>9, <1>10, <1>12, InnerKept
  <2>2. c + 1 \in Nat /\ c + 1 <= e /\ (c + 1) + 1 = c + 2
    BY <1>9, <1>10
  <2> QED
    BY <1>10, <2>1, <2>2, RankCounts
<1>17. Rank(c + 1) \in Nat /\ Rank(c) <= Rank(c + 1) /\ Rank(c) = Len(data)
  BY <1>8, <1>9, RankGrows DEF Copy
<1> QED
  BY <1>3, <1>9, <1>10, <1>11, <1>15, <1>16, <1>17

\* A message that is refused is too large.
LEMMA RefusedStep == ReadInv /\ Copied /\ RefusedIsTooLarge /\ [Next]_vars => RefusedIsTooLarge'
<1> SUFFICES ASSUME ReadInv, Copied, RefusedIsTooLarge, [Next]_vars, pc' = "done", result' = "toolarge"
             PROVE  RefusedIsTooLarge'
  BY DEF RefusedIsTooLarge
<1>0. TypeOK /\ Bounds /\ Lines
  BY DEF ReadInv
<1>1. CASE LineTooLong
  <2>1. mode = "data" /\ stream' = stream
    BY <1>1 DEF LineTooLong
  <2>2. Rank(MessageEnd) \in Nat /\ Rank(MessageEnd) > MaxSize
    BY <1>1, <2>1, TooLongIsTooLarge
  <2>3. Len(Body) > MaxSize
    BY <2>2, BodyLength
  <2> QED
    BY <2>1, <2>3, StreamFixed DEF RefusedIsTooLarge
<1>2. CASE DataLine
  <2> DEFINE c == pos - Len(line)
  <2>1. /\ pc = "line" /\ mode = "data" /\ line # <<>> /\ ~IsTerminator(line) /\ ~torn
        /\ Len(data) + Len(Unstuff(line)) > MaxSize /\ stream' = stream
    BY <1>0, <1>2 DEF DataLine, Bounds, ModeOfResult
  <2>2. Aligned
    BY <2>1 DEF Aligned
  <2>3. Copy(data, c) /\ NoEndBefore(c)
    BY <2>1 DEF Copied
  <2>4. line = LineAfter(c)
    BY <1>0, <2>1, <2>2, LineIsLine
  <2>5. c \in Nat /\ pos \in Nat /\ c < pos /\ pos \in 0 .. Len(stream)
    BY <1>0, <2>1, <2>2, EmptySeq DEF TypeOK, Lines, LineIsPiece
  <2>6. Copy(data \o Unstuff(line), pos) /\ \A j \in c + 1 .. pos - 1 : stream[j] # LF
    BY <1>0, <2>1, <2>2, <2>3, CopyLine
  <2> HIDE DEF c
  <2>7. NoEndBefore(pos)
    BY <2>1, <2>3, <2>4, <2>5, <2>6, NoEndInside
  <2>8. Rank(pos) \in Nat /\ Rank(pos) <= Rank(MessageEnd) /\ Rank(MessageEnd) \in Nat
    BY <1>0, <2>5, <2>7, MessageReaches
  <2>9. Rank(pos) = Len(data) + Len(Unstuff(line))
    <3>1. Len(data \o Unstuff(line)) = Len(data) + Len(Unstuff(line))
      BY <1>0, UnstuffLemma, ConcatProperties DEF TypeOK
    <3> QED
      BY <2>6, <3>1 DEF Copy
  <2>10. Len(Body) > MaxSize
    BY <2>1, <2>8, <2>9, BodyLength, ReadAssumption
  <2> QED
    BY <2>1, <2>10, StreamFixed DEF RefusedIsTooLarge
<1>3. CASE UNCHANGED vars
  BY <1>3, StreamFixed DEF vars, RefusedIsTooLarge
<1>4. ASSUME Fill \/ AtEof \/ Take \/ DataEof \/ DataTerminator \/ Answer
             \/ CommandEof \/ CommandLine \/ Cut
      PROVE  FALSE
  BY <1>4 DEF Fill, AtEof, Take, DataEof, DataTerminator, Answer, CommandEof, CommandLine, Cut
<1> QED
  BY <1>1, <1>2, <1>3, <1>4 DEF Next, Read

-----------------------------------------------------------------------------
(***************************************************************************)
(* The theorems.                                                           *)
(***************************************************************************)
\* The reader starts in step with its stream (handle_connection, read_data).
LEMMA InitReadInv == Init => ReadInv
<1> SUFFICES ASSUME Init PROVE ReadInv
  OBVIOUS
<1>1. stream \in Seq(Bytes) /\ Len(stream) \in Nat /\ <<>> \in Seq(Bytes) /\ Len(<<>>) = 0
  BY ReadAssumption, EmptySeq DEF Init
<1>2. TypeOK
  <2>1. line \in Seq(Bytes) /\ data \in Seq(Bytes) /\ torn \in BOOLEAN
    BY <1>1, Zenon DEF Init
  <2>2. pos \in 0 .. Len(stream) /\ filled \in pos .. Len(stream)
    BY <1>1 DEF Init
  <2>3. /\ mode \in {"data", "command"} /\ pc \in {"read", "line", "done", "closed"}
        /\ result \in {"none", "accepted", "toolarge", "incomplete"}
    BY Zenon DEF Init
  <2> QED
    BY <1>1, <2>1, <2>2, <2>3, Zenon DEF TypeOK
<1>3. Bounds
  BY <1>1, ReadAssumption DEF Init, Bounds, BufferBounded, DataBounded, ModeOfResult
<1>4. Lines
  <2>1. line = <<>> /\ pc = "read"
    BY DEF Init
  <2>0. Len(line) = 0 /\ pos = 0
    BY <1>1, Zenon DEF Init
  <2>2. /\ \A i \in 1 .. Len(line) : FALSE
        /\ \A i \in 1 .. Len(line) - 1 : FALSE
        /\ pos - Len(line) = 0
    BY <2>0
  <2>3. LineIsPiece
    BY <2>0, <2>2 DEF LineIsPiece
  <2>4. LineBeginsRight
    BY <2>2 DEF LineBeginsRight, LineStarts
  <2>5. NoInnerNewline
    BY <2>1, <2>2 DEF NoInnerNewline
  <2>6. LineIsWhole /\ DoneAtLineEnd
    BY <2>1 DEF LineIsWhole, DoneAtLineEnd
  <2> QED
    BY <2>3, <2>4, <2>5, <2>6 DEF Lines
<1> QED
  BY <1>2, <1>3, <1>4 DEF ReadInv

\* The reader's state is consistent with its stream in every reachable state
\* (read_line_limited_bytes, read_data, handle_connection).
THEOREM ReadInvHolds == Spec => []ReadInv
<1>1. ReadInv /\ [Next]_vars => ReadInv'
  BY TypeStep, BoundsStep, LinesStep DEF ReadInv
<1> QED
  BY InitReadInv, <1>1, PTL DEF Spec

\* However the stream is cut, a session buffers at most max_size and four bytes
\* of a message, or one command of bounded length (read_line_limited_bytes).
THEOREM MemoryIsBounded == Spec => []BufferBounded
<1>1. ReadInv => BufferBounded
  BY DEF ReadInv, Bounds
<1> QED
  BY ReadInvHolds, <1>1, PTL

\* Pipelined or chunked, what the command loop carries out are the lines of the
\* stream, unless a refused message was left half read (handle_connection).
THEOREM CommandsAreWholeLines == Spec => []CommandsAreLines
<1>1. ReadInv => CommandsAreLines
  BY LineIsLine DEF ReadInv, CommandsAreLines, Aligned
<1> QED
  BY ReadInvHolds, <1>1, PTL

\* Nothing has been copied before the first byte is read.
LEMMA InitCopied == Init => Copied /\ AcceptedIsSent /\ RefusedIsTooLarge
<1> SUFFICES ASSUME Init PROVE Copied /\ AcceptedIsSent /\ RefusedIsTooLarge
  OBVIOUS
<1>1. pos = 0 /\ line = <<>> /\ data = <<>> /\ pc = "read"
  BY DEF Init
<1>2. pos - Len(line) = 0 /\ Len(data) = 0
  <2>1. Len(line) = 0 /\ Len(data) = 0
    BY <1>1, EmptySeq, Zenon
  <2>2. pos = 0
    BY <1>1
  <2> QED
    BY <2>1, <2>2
<1>3. KeptTo(0) = {}
  BY DEF KeptTo
<1>4. Rank(0) = 0
  BY <1>3, FS_EmptySet DEF Rank
<1>5. Copy(data, 0)
  BY <1>2, <1>4 DEF Copy
<1>6. NoEndBefore(0)
  BY DEF NoEndBefore, LineStarts, LineEnds
<1> QED
  BY <1>1, <1>2, <1>5, <1>6 DEF Copied, AcceptedIsSent, RefusedIsTooLarge

\* The copy of a message under way agrees with the stream, and so does what
\* read_data returned for it.
LEMMA MessageInvHolds == Spec => [](ReadInv /\ Copied /\ AcceptedIsSent /\ RefusedIsTooLarge)
<1> DEFINE MessageInv == ReadInv /\ Copied /\ AcceptedIsSent /\ RefusedIsTooLarge
<1>1. Init => MessageInv
  BY InitReadInv, InitCopied
<1>2. MessageInv /\ [Next]_vars => MessageInv'
  BY TypeStep, BoundsStep, LinesStep, CopiedStep, AcceptedStep, RefusedStep DEF ReadInv
<1> QED
  BY <1>1, <1>2, PTL DEF Spec

\* For every stream, every chunking and every limit: a message accepted is the
\* bytes sent before the terminator, unstuffed, and what follows the terminator
\* is left for the command loop (read_data).
THEOREM AcceptedMessagesAreSent == Spec => []AcceptedIsSent
BY MessageInvHolds, PTL

\* 552 is answered to no message of at most max_message_size bytes, however it
\* is stuffed and cut into chunks (read_data, read_line_limited_bytes).
THEOREM RefusedMessagesAreTooLarge == Spec => []RefusedIsTooLarge
BY MessageInvHolds, PTL
=============================================================================
