------------------------------ MODULE SmtpData ------------------------------
(***************************************************************************)
(* The end of a DATA exchange, composed from DotCodec and SmtpReply.  The  *)
(* client's Data writes the body through the dotWriter; handleDATA hands  *)
(* the dotReader to OnData, then replies with what OnData returned; Data   *)
(* reads that reply.  The client then calls Noop: its line follows the     *)
(* terminator on the connection, the command loop reads it from where the  *)
(* dot reader stopped, and Noop reads the 250.  The exchange begins after  *)
(* the 354, which Data has already read.  In Mode "raw" (any client bytes, *)
(* no Client) only the body is read.                                       *)
(***************************************************************************)
EXTENDS DotCodec

CONSTANTS
  Errors   \* the *smtp.SMTPError values OnData may return: [code, enh, msg]

VARIABLES
  s2c, meant, results,  \* of SmtpReply
  cmdRead               \* bytes after the body the command loop has read

R == INSTANCE SmtpReply

dataVars == <<s2c, meant, results, cmdRead>>
allVars  == <<vars, dataVars>>

\* Message texts are abstracted to one character.
Text == <<"a">>

\* OnData returns nil: 250 2.0.0 "Message accepted".
Accepted == [code |-> 250, enh |-> <<2, 0, 0>>, msg |-> Text]

\* OnData returns an error that is not an *smtp.SMTPError: 451 4.4.0.
Internal == [code |-> 451, enh |-> <<4, 4, 0>>, msg |-> Text]

\* handleNOOP: 250 2.0.0 "OK".
NoopOK == [code |-> 250, enh |-> <<2, 0, 0>>, msg |-> Text]

\* The default case of the command switch: 500 5.5.1.
Unrecognized == [code |-> 500, enh |-> <<5, 5, 1>>, msg |-> Text]

\* The calls of the client so far: Data, and Noop once its line is sent.
CallsMade ==
  IF Mode = "writer" THEN IF wClosed /\ Len(wire) > termEnd THEN 2 ELSE 1 ELSE 0

(***************************************************************************)
(* The client.                                                             *)
(***************************************************************************)

\* io.Copy into the dotWriter, and dw.Close.
ClientWrite == ((\E k \in 1..MaxBody : Write(k)) \/ Close) /\ UNCHANGED dataVars

\* Client.Noop writes its line once Data has returned.
ClientNoop == SendNext /\ Len(results) = 1 /\ UNCHANGED dataVars

\* Data (after dw.Close) or Noop reads its reply and returns.
ClientReadReply ==
  /\ Mode = "writer"
  /\ wClosed
  /\ Len(results) < CallsMade
  /\ R!ClientRead(250)
  /\ UNCHANGED <<vars, cmdRead>>

(***************************************************************************)
(* The server.                                                             *)
(***************************************************************************)

\* OnData reading the body through the dotReader.
ServerReadBody == Reader /\ UNCHANGED dataVars

\* handleDATA once OnData has returned and the body is drained to EOF:
\* the reply for OnData's result.
HandleDATAReply ==
  /\ Mode = "writer"
  /\ rst = "EOF"
  /\ meant = <<>>
  /\ \E m \in Errors \cup {Accepted, Internal} :
       R!Reply(m.code, m.enh, m.msg, TRUE)
  /\ UNCHANGED <<vars, cmdRead>>

\* handleConn's loop after handleDATA: ReadLine from where the dot reader
\* stopped, then the command switch.  The client's line is NOOP; any other
\* line (what the dot reader left of the body) is not a command.
HandleNextLine ==
  /\ Mode = "writer"
  /\ rst = "EOF"
  /\ meant # <<>>
  /\ LET p == rpos + cmdRead
     IN /\ p < Len(wire)
        /\ IF SubSeq(wire, p + 1, p + Len(NextCmd)) = NextCmd
             THEN /\ cmdRead' = cmdRead + Len(NextCmd)
                  /\ R!Reply(NoopOK.code, NoopOK.enh, NoopOK.msg, TRUE)
             ELSE \E q \in p + 1 .. Len(wire) :
                    /\ wire[q] = LF
                    /\ \A j \in p + 1 .. q - 1 : wire[j] # LF
                    /\ cmdRead' = q - rpos
                    /\ R!Reply(Unrecognized.code, Unrecognized.enh,
                               Unrecognized.msg, FALSE)
  /\ UNCHANGED vars

(***************************************************************************)
(* The specification.                                                      *)
(***************************************************************************)
DataInit == Init /\ R!ReplyInit /\ cmdRead = 0

DataServer == ServerReadBody \/ HandleDATAReply \/ HandleNextLine

DataNext == ClientWrite \/ ClientNoop \/ ClientReadReply \/ DataServer

\* The client's io.Copy and Close run to completion and a blocked ReadReply
\* returns once its reply has arrived; the server's OnData reads to EOF and
\* handleConn goes on with the next line.  Calling Noop is the
\* application's choice and is not assumed.
\* ClientReadReply is enabled: a call waits and the line ending its reply
\* has arrived.
ReplyWaiting ==
  /\ Mode = "writer"
  /\ wClosed
  /\ Len(results) < CallsMade
  /\ R!StopOf(R!LinesOf(s2c)) # 0

DataSpec ==
  /\ DataInit /\ [][DataNext]_allVars
  /\ WF_allVars(ClientWrite) /\ WF_allVars(DataServer)
  /\ ([]<>~ReplyWaiting \/ []<><<ClientReadReply>>_allVars)

(***************************************************************************)
(* Properties.                                                             *)
(***************************************************************************)

\* Each call of the client returns the reply the server wrote for it, in
\* order, and a one-line SMTPError of OnData with an enhanced code of a
\* valid class reaches the caller of Data with its code, enhanced code and
\* message.
CallsGetTheirReply == R!CallsGetTheirReply

\* Every call the client makes returns: Data once the server has answered
\* the body, Noop once it has answered the line.
CallsReturn ==
  \A n \in 1..2 : [](CallsMade >= n => <>(Len(results) >= n))

=============================================================================
