----------------------------- MODULE DotCodec ------------------------------
(***************************************************************************)
(* The dot-stuffing transducers of internal/textproto/dot.go: dotWriter    *)
(* (what the client's Data sends through) and dotReader (what handleDATA   *)
(* hands to OnData), joined by the connection.  The writer is fed the body *)
(* in chunks of any size (io.Copy), and after Close the next command       *)
(* follows on the same connection.  The reader is called with a buffer of  *)
(* any size in ReadSizes on every call, as OnData and io.Copy may do.      *)
(* In Mode "raw" there is no writer: the connection carries any bytes a    *)
(* client may send, followed by a terminator and the next command.         *)
(***************************************************************************)
EXTENDS Naturals, Sequences, SequencesExt

CONSTANTS
  Modes,      \* "writer" and/or "raw"
  MaxBody,    \* bound: length of the body (or of the raw bytes)
  ReadSizes   \* the len(p) a caller of dotReader.Read may pass

ASSUME Modes \subseteq {"writer", "raw"}
ASSUME MaxBody \in Nat /\ ReadSizes \subseteq Nat \ {0}

\* Bytes are abstracted to the four classes the transducers tell apart.
Dot == "."
CR  == "CR"
LF  == "LF"
Chr == "a"
Bytes == {Dot, CR, LF, Chr}

\* The first byte of the command that follows the body on the connection.
NextCmd == <<Chr>>

\* dotState*: BeginLine, Line, CR, Dot, DotCR, EOF.
ReaderStates == {"Begin", "Line", "CR", "Dot", "DotCR", "EOF"}

VARIABLES
  body,      \* the message the client copies into the dotWriter
  wpos,      \* how much of it has been passed to Write
  wBegin,    \* dotWriter.beginLine
  wClosed,   \* dotWriter.closed
  wire,      \* the bytes on the connection so far
  termEnd,   \* the position just after the body's terminator on the wire
  rst,       \* dotReader.state
  rpos,      \* the bytes of the wire the bufio.Reader has handed out
  out,       \* the bytes Read has returned so far
  lastN,     \* n returned by the last Read
  lastK,     \* len(p) of the last Read
  Mode       \* who produces the bytes on the connection

vars == <<body, wpos, wBegin, wClosed, wire, termEnd, rst, rpos, out, lastN,
          lastK, Mode>>
writerVars == <<body, wpos, wBegin, wClosed, wire, termEnd>>
readerVars == <<rst, rpos, out, lastN, lastK>>

(***************************************************************************)
(* dotWriter.                                                              *)
(***************************************************************************)

LineStartsAfterCR(b) == b = CR

\* d.beginLine = (b == '\n')
LineStartsAfter(b) == b = LF

\* Write(p) from a given beginLine: a dot at the start of a line is doubled.
RECURSIVE Stuff(_, _)
Stuff(p, bl) ==
  IF p = <<>> THEN <<>>
  ELSE (IF bl /\ Head(p) = Dot THEN <<Dot, Dot>> ELSE <<Head(p)>>)
         \o Stuff(Tail(p), LineStartsAfter(Head(p)))

\* The client's io.Copy passes the next k bytes of the body to Write.
Write(k) ==
  /\ Mode = "writer"
  /\ ~wClosed
  /\ wpos + k <= Len(body)
  /\ LET chunk == SubSeq(body, wpos + 1, wpos + k)
     IN /\ wire' = wire \o Stuff(chunk, wBegin)
        /\ wBegin' = LineStartsAfter(Last(chunk))
  /\ wpos' = wpos + k
  /\ UNCHANGED <<body, wClosed, termEnd, readerVars, Mode>>

TerminatorUnflushed == <<>>

\* ".\r\n", written to the bufio.Writer and flushed to the connection.
Terminator == <<Dot, CR, LF>>

\* Close after the whole body: CRLF if the body did not end a line, then
\* the terminator.
Close ==
  /\ Mode = "writer"
  /\ ~wClosed
  /\ wpos = Len(body)
  /\ wClosed' = TRUE
  /\ wire' = wire \o (IF wBegin THEN <<>> ELSE <<CR, LF>>) \o Terminator
  /\ termEnd' = Len(wire')
  /\ UNCHANGED <<body, wpos, wBegin, readerVars, Mode>>

\* The client's next command follows the body on the connection.
SendNext ==
  /\ Mode = "writer"
  /\ wClosed
  /\ Len(wire) = termEnd
  /\ wire' = wire \o NextCmd
  /\ UNCHANGED <<body, wpos, wBegin, wClosed, termEnd, readerVars, Mode>>

(***************************************************************************)
(* dotReader.Read(p) with len(p) = k.  "room" is len(p) - n.  The loop     *)
(* blocks in ReadByte when the connection has no byte yet; the call is     *)
(* taken when it completes, which it does once enough bytes have arrived.  *)
(***************************************************************************)

\* The state after an ordinary byte, in BeginLine, Line and CR alike.
AfterByte(b) == CASE b = CR -> "CR" [] b = LF -> "Begin" [] OTHER -> "Line"

BufferHasRoomOffByOne(room) == room >= 0

\* for n < len(p)
BufferHasRoom(room) == room > 0

DestuffKeepsBoth == <<Dot, Dot>>

\* ".." at the start of a line yields one dot.
Destuff == <<Dot>>

EndsBodyOnCR(b) == b = CR

\* ".\r" followed by '\n' ends the body.
EndsBody(b) == b = LF

TerminatorLeftUnread(pos) == pos - 1

\* Read returns with the terminator's LF consumed by ReadByte.
AfterTerminator(pos) == pos

\* d.r.UnreadByte() after ReadByte: the byte will be read again.
UnreadByte(pos) == pos - 1

RoomForDotCROffByOne(room) == room >= 1

\* if n+2 <= len(p)
RoomForDotCR(room) == room >= 2

Done(st, pos, acc) == [st |-> st, pos |-> pos, acc |-> acc, blocked |-> FALSE]
Blocked == [st |-> "EOF", pos |-> 0, acc |-> <<>>, blocked |-> TRUE]

RECURSIVE ReadLoop(_, _, _, _)
ReadLoop(st, pos, acc, room) ==
  IF ~BufferHasRoom(room) THEN Done(st, pos, acc)
  ELSE IF pos = Len(wire) THEN Blocked
  ELSE LET b == wire[pos + 1] IN
   CASE st = "Begin" /\ b = Dot ->
          ReadLoop("Dot", pos + 1, acc, room)
     [] st \in {"Line", "CR"} \/ (st = "Begin" /\ b # Dot) ->
          ReadLoop(AfterByte(b), pos + 1, Append(acc, b), room - 1)
     [] st = "Dot" /\ b = CR ->
          ReadLoop("DotCR", pos + 1, acc, room)
     [] st = "Dot" /\ b = LF ->
          Done("EOF", pos + 1, acc)
     [] st = "Dot" /\ b = Dot ->
          ReadLoop("Line", pos + 1, acc \o Destuff, room - 1)
     [] st = "Dot" /\ b = Chr ->
          IF room >= 2
            THEN ReadLoop("Line", pos + 1, acc \o <<Dot, b>>, room - 2)
            ELSE ReadLoop("Line", UnreadByte(pos + 1), Append(acc, Dot), room - 1)
     [] st = "DotCR" /\ EndsBody(b) ->
          Done("EOF", AfterTerminator(pos + 1), acc)
     [] st = "DotCR" /\ ~EndsBody(b) /\ RoomForDotCR(room) ->
          IF room >= 3
            THEN ReadLoop("Line", pos + 1, acc \o <<Dot, CR, b>>, room - 3)
            ELSE ReadLoop("Line", UnreadByte(pos + 1), acc \o <<Dot, CR>>,
                          room - 2)
     [] st = "DotCR" /\ ~EndsBody(b) /\ ~RoomForDotCR(room) ->
          Done("Line", UnreadByte(pos + 1), Append(acc, Dot))

\* One call of dotReader.Read that returns.
Read(k) ==
  /\ rst # "EOF"
  /\ LET r == ReadLoop(rst, rpos, <<>>, k)
     IN /\ ~r.blocked
        /\ rst' = r.st
        /\ rpos' = r.pos
        /\ out' = out \o r.acc
        /\ lastN' = Len(r.acc)
  /\ lastK' = k
  /\ UNCHANGED <<writerVars, Mode>>

(***************************************************************************)
(* Reference: spec.md §4.1, the dot-stuffing reader as a function of the   *)
(* whole stream, with no buffer: the body it yields and the position just  *)
(* after the terminator.  At SawDotCR a byte other than LF emits ".", CR   *)
(* and that byte.                                                          *)
(***************************************************************************)
RECURSIVE SpecScan(_, _, _)
SpecScan(st, w, i) ==
  IF i = Len(w) THEN [out |-> <<>>, end |-> i]
  ELSE
    LET b == w[i + 1]
        Emit(e, st2) == LET r == SpecScan(st2, w, i + 1)
                        IN [out |-> e \o r.out, end |-> r.end]
        Stop == [out |-> <<>>, end |-> i + 1]
    IN CASE st = "Begin" /\ b = Dot -> Emit(<<>>, "Dot")
         [] st = "Dot" /\ b = Dot  -> Emit(<<Dot>>, "Line")
         [] st = "Dot" /\ b = CR   -> Emit(<<>>, "DotCR")
         [] st = "Dot" /\ b = LF   -> Stop
         [] st = "Dot"             -> Emit(<<Dot, b>>, AfterByte(b))
         [] st = "DotCR" /\ b = LF -> Stop
         [] st = "DotCR"           -> Emit(<<Dot, CR, b>>, AfterByte(b))
         [] OTHER                  -> Emit(<<b>>, AfterByte(b))

(***************************************************************************)
(* The specification.                                                      *)
(***************************************************************************)

\* The bytes of a raw client that ends its body: anything, then a
\* terminator and the next command, where the terminator (or an earlier
\* one) really ends the body (a body "." would destuff it).
RawWires ==
  {x \in {w \o Terminator \o NextCmd : w \in BoundedSeq(Bytes, MaxBody)} :
     SpecScan("Begin", x, 0).end < Len(x)}

Init ==
  /\ Mode \in Modes
  /\ \/ /\ Mode = "writer"
        /\ body \in BoundedSeq(Bytes, MaxBody)
        /\ wire = <<>>
        /\ wClosed = FALSE
        /\ termEnd = 0
     \/ /\ Mode = "raw"
        /\ body = <<>>
        /\ wire \in RawWires
        /\ wClosed = TRUE
        /\ termEnd = SpecScan("Begin", wire, 0).end
  /\ wpos = 0
  /\ wBegin = TRUE
  /\ rst = "Begin"
  /\ rpos = 0
  /\ out = <<>>
  /\ lastN = 0
  /\ lastK = 0

Writer == (\E k \in 1..MaxBody : Write(k)) \/ Close \/ SendNext

Reader == \E k \in ReadSizes : Read(k)

Next == Writer \/ Reader

\* The client's io.Copy and Close run to completion, and the server's
\* OnData keeps reading until EOF.
Spec == Init /\ [][Next]_vars /\ WF_vars(Writer) /\ WF_vars(Reader)

(***************************************************************************)
(* Properties.                                                             *)
(***************************************************************************)

\* The body as the reader must return it: the writer ends an unfinished
\* last line with CRLF (spec.md §8, dot round-trip).
Canon(b) == IF b = <<>> \/ Last(b) = LF THEN b ELSE b \o <<CR, LF>>

\* The io.Reader contract is part of the type: 0 <= n <= len(p).
TypeOK ==
  /\ body \in Seq(Bytes) /\ wire \in Seq(Bytes) /\ out \in Seq(Bytes)
  /\ wpos \in 0..Len(body) /\ termEnd \in 0..Len(wire)
  /\ {wBegin, wClosed} \subseteq BOOLEAN
  /\ rst \in ReaderStates
  /\ rpos \in 0..Len(wire)
  /\ lastN \in 0..lastK

\* Dot round-trip: whatever the write chunks and the read buffer sizes, the
\* reader returns exactly the body the writer was given, then EOF.
DotRoundTrip == Mode = "writer" /\ rst = "EOF" => out = Canon(body)

\* The reader stops exactly after the terminator: it neither leaves part
\* of it nor consumes the next command on the connection.
BodyBoundary == rst = "EOF" => rpos = termEnd

\* The reader reaches EOF once the writer has closed.
ReaderTerminates == <>(rst = "EOF")

\* On any input the body returned does not depend on the buffer sizes the
\* caller passes: it is the one spec.md §4.1 defines.
DecodeMatchesSpec == rst = "EOF" => out = SpecScan("Begin", wire, 0).out

====
