------------------------------ MODULE SmtpRead ------------------------------
(***************************************************************************)
(* smtp/server.rs: how a session takes lines off its byte stream, in       *)
(* read_data after 354 and in the command loop after it.  The stream       *)
(* arrives in chunks the session does not choose (BufReader::fill_buf),    *)
(* every line has a budget, and the two loops share one reader: what one   *)
(* of them leaves in the buffer the other one reads.                       *)
(*                                                                         *)
(* A session is followed from its start, or from a 354, up to the next     *)
(* DATA, where the story begins again.  Which command a line holds is not  *)
(* told apart, except that it may end the session.                         *)
(***************************************************************************)
EXTENDS Integers, Sequences, FiniteSets

CONSTANTS
  Streams,      \* what clients send before they close
  MaxSize,      \* smtp.max_message_size
  MaxCommand    \* MAX_COMMAND_LINE_BYTES

CR == "C"
LF == "L"
Dot == "."
Bytes == {CR, LF, Dot, "x"}       \* "x": any other byte

ASSUME ReadAssumption ==
  Streams \subseteq Seq(Bytes) /\ MaxSize \in Nat /\ MaxCommand \in Nat

VARIABLES
  stream,    \* what this client sends
  pos,       \* bytes consumed
  filled,    \* bytes received: BufReader holds those after pos
  mode,      \* the loop that reads: read_data or the command loop
  pc,        \* "read": in read_line_limited_bytes; "line": it has returned;
             \* "done": read_data has returned; "closed"
  line,      \* the line read so far
  data,      \* the message read so far, dots unstuffed
  result,    \* what read_data returned
  torn       \* history: a message was refused, its rest still to be read

vars == <<stream, pos, filled, mode, pc, line, data, result, torn>>

Init ==
  /\ stream \in Streams
  /\ pos = 0 /\ filled = 0
  /\ mode \in {"data", "command"} /\ pc = "read"
  /\ line = <<>> /\ data = <<>> /\ result = "none" /\ torn = FALSE

-----------------------------------------------------------------------------
(***************************************************************************)
(* read_line_limited_bytes.                                                *)
(***************************************************************************)
SaturatingSub(a, b) == IF a > b THEN a - b ELSE 0

\* A plausible defect: no slack for the terminator and the stuffed dot.
LimitWithoutSlack ==
  IF mode = "command" THEN MaxCommand ELSE SaturatingSub(MaxSize, Len(data))

\* The max_bytes of the call under way.
Limit == IF mode = "command" THEN MaxCommand ELSE SaturatingSub(MaxSize, Len(data)) + 4

\* The index of the first line feed among the bytes available, if any.
Newlines == {i \in pos + 1 .. filled : stream[i] = LF}

\* The end of what one turn of the loop takes.
TakeTo ==
  IF Newlines = {} THEN filled
  ELSE CHOOSE i \in Newlines : \A j \in Newlines : i <= j

\* fill_buf waits for the next chunk.
Fill ==
  /\ pc = "read" /\ pos = filled
  /\ filled' \in pos + 1 .. Len(stream)
  /\ UNCHANGED <<stream, pos, mode, pc, line, data, result, torn>>

\* fill_buf returns an empty slice: the client has closed.
AtEof ==
  /\ pc = "read" /\ pos = filled /\ filled = Len(stream)
  /\ pc' = "line"
  /\ UNCHANGED <<stream, pos, filled, mode, line, data, result, torn>>

\* A plausible defect: the whole chunk is consumed, not only the line.
TakeDroppingTheRest ==
  /\ pc = "read" /\ pos < filled
  /\ Len(line) + (TakeTo - pos) <= Limit
  /\ line' = line \o SubSeq(stream, pos + 1, TakeTo)
  /\ pos' = filled
  /\ pc' = IF Newlines = {} THEN "read" ELSE "line"
  /\ UNCHANGED <<stream, filled, mode, data, result, torn>>

Take ==
  /\ pc = "read" /\ pos < filled
  /\ Len(line) + (TakeTo - pos) <= Limit
  /\ line' = line \o SubSeq(stream, pos + 1, TakeTo)
  /\ pos' = TakeTo
  /\ pc' = IF Newlines = {} THEN "read" ELSE "line"
  /\ UNCHANGED <<stream, filled, mode, data, result, torn>>

\* The line would exceed its budget, and what is available is not consumed.
\* read_data turns this into 552; the command loop answers 500 and ends.
LineTooLong ==
  /\ pc = "read" /\ pos < filled
  /\ Len(line) + (TakeTo - pos) > Limit
  /\ \/ mode = "data" /\ pc' = "done" /\ result' = "toolarge"
     \/ mode = "command" /\ pc' = "closed" /\ UNCHANGED result
  /\ UNCHANGED <<stream, pos, filled, mode, line, data, torn>>

-----------------------------------------------------------------------------
(***************************************************************************)
(* read_data.                                                              *)
(***************************************************************************)
IsTerminator(l) == l \in {<<Dot, LF>>, <<Dot, CR, LF>>}

Stuffed(l) == Len(l) >= 2 /\ l[1] = Dot /\ l[2] = Dot

\* Dot-unstuffing: one leading dot of a line that begins with two.
Unstuff(l) == IF Stuffed(l) THEN Tail(l) ELSE l

\* A plausible defect: a client that closed in the middle of its message is
\* taken to have finished it.
DataEofAccepting ==
  /\ mode = "data" /\ pc = "line" /\ line = <<>>
  /\ pc' = "done" /\ result' = "accepted"
  /\ UNCHANGED <<stream, pos, filled, mode, line, data, torn>>

\* SmtpDataIncomplete: nothing was read, the client has closed.
DataEof ==
  /\ mode = "data" /\ pc = "line" /\ line = <<>>
  /\ pc' = "closed" /\ result' = "incomplete"
  /\ UNCHANGED <<stream, pos, filled, mode, line, data, torn>>

DataTerminator ==
  /\ mode = "data" /\ pc = "line" /\ IsTerminator(line)
  /\ pc' = "done" /\ result' = "accepted"
  /\ UNCHANGED <<stream, pos, filled, mode, line, data, torn>>

\* A plausible defect: the size of the message is not checked after a line.
DataLineUnchecked ==
  /\ mode = "data" /\ pc = "line" /\ line # <<>> /\ ~IsTerminator(line)
  /\ data' = data \o Unstuff(line)
  /\ line' = <<>> /\ pc' = "read"
  /\ UNCHANGED <<stream, pos, filled, mode, result, torn>>

DataLine ==
  /\ mode = "data" /\ pc = "line" /\ line # <<>> /\ ~IsTerminator(line)
  /\ \/ /\ Len(data) + Len(Unstuff(line)) > MaxSize
        /\ pc' = "done" /\ result' = "toolarge"
        /\ UNCHANGED <<line, data>>
     \/ /\ Len(data) + Len(Unstuff(line)) <= MaxSize
        /\ data' = data \o Unstuff(line)
        /\ line' = <<>> /\ pc' = "read"
        /\ UNCHANGED result
  /\ UNCHANGED <<stream, pos, filled, mode, torn>>

\* handle_connection answers 250 or 451 to the message, or 552, and reads on.
Answer ==
  /\ pc = "done"
  /\ pc' = "read" /\ mode' = "command"
  /\ line' = <<>> /\ data' = <<>>
  /\ torn' = (result = "toolarge")
  /\ UNCHANGED <<stream, pos, filled, result>>

-----------------------------------------------------------------------------
(***************************************************************************)
(* The command loop of handle_connection.                                  *)
(***************************************************************************)
\* A plausible defect: the end of the stream is taken for an empty line.
CommandEofIgnored ==
  /\ mode = "command" /\ pc = "line" /\ line = <<>>
  /\ pc' = "read"
  /\ UNCHANGED <<stream, pos, filled, mode, line, data, result, torn>>

CommandEof ==
  /\ mode = "command" /\ pc = "line" /\ line = <<>>
  /\ pc' = "closed"
  /\ UNCHANGED <<stream, pos, filled, mode, line, data, result, torn>>

\* trim_end_matches leaves nothing.
Blank(l) == \A i \in 1 .. Len(l) : l[i] \in {CR, LF}

\* An empty line is skipped, a command is carried out; QUIT, and a line that
\* is not UTF-8, end the session.
CommandLine ==
  /\ mode = "command" /\ pc = "line" /\ line # <<>>
  /\ \/ pc' = "read"
     \/ ~Blank(line) /\ pc' = "closed"
  /\ line' = <<>>
  /\ UNCHANGED <<stream, pos, filled, mode, data, result, torn>>

\* smtp.timeout expires while fill_buf waits, the session deadline expires,
\* or an answer cannot be written.
Cut ==
  /\ pc # "closed"
  /\ pc' = "closed"
  /\ UNCHANGED <<stream, pos, filled, mode, line, data, result, torn>>

Read ==
  \/ Fill \/ AtEof \/ Take \/ LineTooLong
  \/ DataEof \/ DataTerminator \/ DataLine \/ Answer
  \/ CommandEof \/ CommandLine

Next == Read \/ Cut

Spec == Init /\ [][Next]_vars

\* The client sends all it has and closes; the session's task is scheduled.
FairSpec == Spec /\ WF_vars(Read)

-----------------------------------------------------------------------------
(***************************************************************************)
(* What the bytes of the stream mean, whatever the chunks.                 *)
(***************************************************************************)
LineEnds == {i \in 1 .. Len(stream) : stream[i] = LF}

\* The line that begins after the byte at index b.
LineAfter(b) ==
  LET ends == {i \in LineEnds : i > b}
  IN  IF ends = {} THEN SubSeq(stream, b + 1, Len(stream))
      ELSE SubSeq(stream, b + 1, CHOOSE i \in ends : \A j \in ends : i <= j)

LineStarts == {0} \cup LineEnds

Terminators == {b \in LineStarts : IsTerminator(LineAfter(b))}

\* Where the message of a DATA that began with the stream stops.
MessageEnd ==
  IF Terminators = {} THEN Len(stream)
  ELSE CHOOSE b \in Terminators : \A c \in Terminators : b <= c

\* The bytes up to the n-th that belong to the message: all but the first dot of
\* a stuffed line.
Kept(i) == ~(i - 1 \in LineStarts /\ Stuffed(LineAfter(i - 1)))

KeptTo(n) == {i \in 1 .. n : Kept(i)}

\* The place of the n-th byte of the stream in the message.
Rank(n) == Cardinality(KeptTo(n))

\* The message, byte by byte.
Body ==
  [k \in 1 .. Rank(MessageEnd) |-> stream[CHOOSE i \in KeptTo(MessageEnd) : Rank(i) = k]]

-----------------------------------------------------------------------------
\* The state has its type (read_data, handle_connection).
TypeOK ==
  /\ stream \in Seq(Bytes) /\ line \in Seq(Bytes) /\ data \in Seq(Bytes)
  /\ pos \in 0 .. Len(stream) /\ filled \in pos .. Len(stream)
  /\ mode \in {"data", "command"} /\ pc \in {"read", "line", "done", "closed"}
  /\ result \in {"none", "accepted", "toolarge", "incomplete"} /\ torn \in BOOLEAN

\* However the stream was cut into chunks, the message accepted is the bytes
\* before the terminator, unstuffed, and the reader stands right behind the
\* terminator, so that pipelined commands are neither lost nor taken into the
\* message (read_data).
AcceptedIsSent ==
  pc = "done" /\ result = "accepted" =>
    /\ Terminators # {}
    /\ data = Body
    /\ pos = MessageEnd + Len(LineAfter(MessageEnd))

\* 552 is only answered to a message whose unstuffed size exceeds max_size:
\* neither the terminator nor stuffed dots nor the chunks count against the
\* client, up to the last byte (read_data's line budget).
RefusedIsTooLarge ==
  pc = "done" /\ result = "toolarge" => Len(Body) > MaxSize

\* What a session buffers is bounded whatever the client sends: the message and
\* the line being read together stay within max_size and the slack of four
\* bytes, a command within its own limit (read_line_limited_bytes).
BufferBounded ==
  /\ mode = "data" => Len(data) + Len(line) <= MaxSize + 4
  /\ mode = "command" => Len(data) = 0 /\ Len(line) <= MaxCommand

\* Unless a refused message was left half read, what the command loop carries
\* out is a whole line of the stream: it begins at a line's start and ends at a
\* line's end or where the client closed (handle_connection).
CommandsAreLines ==
  mode = "command" /\ pc = "line" /\ line # <<>> /\ ~torn =>
    /\ pos - Len(line) \in LineStarts
    /\ line = LineAfter(pos - Len(line))

\* A client that stops sending does not keep its session alive: it ends, and
\* with it the connection slot is free again (handle_connection).
SessionEnds == <>(pc = "closed")
=============================================================================
