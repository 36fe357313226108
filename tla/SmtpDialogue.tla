---------------------------- MODULE SmtpDialogue ----------------------------
(***************************************************************************)
(* The client driver of smtpclient/client.go talking to one server session *)
(* (SmtpSession) over one connection.  The client writes a command line    *)
(* into the session's input buffer and blocks in ReadReply; the session's  *)
(* replies travel back in order on s2c.  The application makes up to      *)
(* MaxCalls calls of the Client API, one at a time, each a sequence of     *)
(* protocol operations ("cops") that stops at the first error, as the Go   *)
(* methods return on the first failed step.                                *)
(*                                                                         *)
(* s2c holds reply LINES as Conn.WriteReply writes them: a code, "-" or   *)
(* " " after it, and a text.  Every line also carries the verb of the line *)
(* the session was answering ("for"), so that a property can say which     *)
(* command a reply belongs to.                                             *)
(* The faults a run admits are chosen once: "copy", the io.Reader given to *)
(* Data fails.                                                             *)
(***************************************************************************)
EXTENDS Naturals, Sequences

CONSTANTS
  MaxRecipients, MaxInvalidCmds, Configs, MaxBdatChunks,  \* as SmtpSession
  Calls,      \* the Client methods the application may call
  Mechs,      \* the SASL mechanisms it may pass to Auth / SubmitMessage
  FaultSets,  \* the fault sets a run admits, subsets of {"copy"}
  MaxCalls    \* bound: calls the application makes on the connection

VARIABLES
  state, clientHostname, helloTLS, esmtp, tls, authenticated, invalidCmds,
  reversePath, forwardPaths, bdatBuffer, sasl, inbuf, peerClosed, open,
  reply, lastDelivered, config,
  s2c,         \* reply lines written by the server, not yet read by the client
  cops,        \* the protocol operations left of the current API call
  cwait,       \* the verb whose reply the client is reading, or "none"
  ctls,        \* Client.tls
  cexts,       \* Client.exts: NoExts (nil) or what the last EHLO advertised
  cmech,       \* the SASLMechanism of the current Auth
  cstep,       \* loginAuth.step
  cconn,       \* "dialing" (inside Dial), "up", "closed"
  ccalls,      \* API calls made so far
  caccepted,   \* Data / Bdat(last) calls that returned nil
  ndelivered,  \* messages the session accepted (250 after a body)
  faults       \* the faults of this run

sessionVars == <<state, clientHostname, helloTLS, esmtp, tls, authenticated,
                 invalidCmds, reversePath, forwardPaths, bdatBuffer, sasl, inbuf,
                 peerClosed, open, reply, lastDelivered, config>>
clientVars == <<cops, cwait, ctls, cexts, cmech, cstep, cconn, ccalls,
                caccepted>>
vars == <<sessionVars, s2c, clientVars, ndelivered, faults>>

\* Client.exts when nil; otherwise "tls" records whether the EHLO that
\* produced it went over TLS.
NoExts == [present |-> FALSE, starttls |-> FALSE, tls |-> FALSE]

\* The lines this client writes.
ClientLineSet ==
  { [verb |-> v, arg |-> a] :
      <<v, a>> \in {<<"EHLO", "name">>, <<"HELO", "name">>, <<"MAIL", "mbox">>,
                    <<"RCPT", "mbox">>, <<"BDAT", "chunk">>, <<"BDAT", "last">>,
                    <<"AUTH", "PLAIN_IR">>, <<"AUTH", "LOGIN">>,
                    <<"AUTH", "CRAM-MD5">>} }
  \cup { [verb |-> v, arg |-> ""] :
           v \in {"DATA", "BODY", "CHUNK", "RSET", "NOOP", "QUIT", "STARTTLS", "B64",
                  "*"} }

S == INSTANCE SmtpSession WITH ClientLines <- ClientLineSet, MaxPipeline <- 3

(***************************************************************************)
(* The server side: any step of the session; a reply it writes is queued.  *)
(***************************************************************************)

\* handleEHLO: STARTTLS is listed iff a TLS config is set and the session
\* is not on TLS yet.
AdvertisesSTARTTLSAlways == S!TLSConfigured

AdvertisesSTARTTLS == S!TLSConfigured /\ ~tls

\* The line a reply answers: the body while handleDATA reads one, else the
\* command line the handler consumed.
Answering == IF state = S!StateData THEN "BODY" ELSE Head(inbuf).line.verb

\* "Message accepted": 250 after a DATA body or a BDAT LAST chunk.
Accepts ==
  /\ reply'.code = 250
  /\ \/ state = S!StateData
     \/ inbuf # <<>> /\ Head(inbuf).line \in {[verb |-> "BDAT", arg |-> a] : a \in {"last", "zerolast"}}

\* Conn.WriteReply(code, texts...): one line per text, "-" after the code
\* on all but the last; no text writes one empty line.
WriteReply(code, texts, for) ==
  LET ts == IF texts = <<>> THEN <<"">> ELSE texts IN
  [i \in 1..Len(ts) |->
     [code |-> code, sep |-> IF i < Len(ts) THEN "-" ELSE " ",
      text |-> ts[i], for |-> for]]

\* The lines of handleEHLO's 250: the greeting, the fixed extensions (SIZE
\* is left out: no run sets a maximum size), then STARTTLS and AUTH when
\* offered.  Each extension line stands for its keyword.
EhloLines ==
  <<"HELLO", "PIPELINING", "8BITMIME", "ENHANCEDSTATUSCODES", "DSN",
    "SMTPUTF8", "CHUNKING">>
  \o (IF AdvertisesSTARTTLS THEN <<"STARTTLS">> ELSE <<>>)
  \o (IF S!AuthConfigured /\ ~authenticated THEN <<"AUTH">> ELSE <<>>)

\* At the invalid-command cap the line is answered 500 and the 421 that
\* follows answers no line: it is the unsolicited closing reply.
Before ==
  IF reply'.before = 0 THEN <<>> ELSE WriteReply(reply'.before, <<"TEXT">>, Answering)

LastFor == IF reply'.before = 0 THEN Answering ELSE "CLOSE"

ServerStep ==
  /\ S!Server
  /\ s2c' = CASE reply'.code = 0 -> s2c
              [] Answering = "EHLO" /\ reply'.code = 250 ->
                   s2c \o WriteReply(250, EhloLines, "EHLO")
              [] OTHER -> s2c \o Before \o WriteReply(reply'.code, <<"TEXT">>, LastFor)
  /\ ndelivered' = IF Accepts THEN ndelivered + 1 ELSE ndelivered
  /\ UNCHANGED <<clientVars, config, faults>>

(***************************************************************************)
(* The client.                                                             *)
(***************************************************************************)

\* The reply code each operation waits for (Dial's greeting, then the
\* commands; BODY is the final reply after the dot writer's terminator).
Expected ==
  [GREET |-> 220, EHLO |-> 250, HELO |-> 250, MAIL |-> 250, RCPT |-> 250,
   DATA |-> 354, BODY |-> 250, BDAT |-> 250, BDATLAST |-> 250, RSET |-> 250,
   NOOP |-> 250, STARTTLS |-> 220]

\* The command line of an operation.
OpLine(op) ==
  CASE op = "BDAT"     -> [verb |-> "BDAT", arg |-> "chunk"]
    [] op = "BDATLAST" -> [verb |-> "BDAT", arg |-> "last"]
    [] op = "AUTH"     -> [verb |-> "AUTH",
                           arg |-> IF cmech = "PLAIN" THEN "PLAIN_IR" ELSE cmech]
    [] op \in {"EHLO", "HELO"}  -> [verb |-> op, arg |-> "name"]
    [] op \in {"MAIL", "RCPT"}  -> [verb |-> op, arg |-> "mbox"]
    [] OTHER                    -> [verb |-> op, arg |-> ""]

\* The lines an operation writes before it reads: Client.Bdat writes the
\* chunk's raw bytes right after its BDAT line.
OpWrites(op) ==
  IF op \in {"BDAT", "BDATLAST"}
    THEN <<OpLine(op), [verb |-> "CHUNK", arg |-> ""]>>
    ELSE <<OpLine(op)>>

\* Conn.WriteLine (and the flush of the chunk): the lines reach the
\* session's buffer unless the server has already closed the connection.
Send(ls) ==
  inbuf' = IF open /\ ~peerClosed
             THEN inbuf \o [i \in 1..Len(ls) |-> [line |-> ls[i], tls |-> ctls]]
             ELSE inbuf

\* The call goes on with operations ops, reading the reply to verb w.
Continue(ops, w) == cops' = ops /\ cwait' = w /\ UNCHANGED <<cconn, peerClosed>>

\* The operation succeeded: go on with the next one.  Dial's last one
\* hands out the Client.
Advance ==
  /\ cops' = Tail(cops)
  /\ cwait' = "none"
  /\ cconn' = IF cconn = "dialing" /\ Tail(cops) = <<>> THEN "up" ELSE cconn
  /\ UNCHANGED peerClosed

\* The method returns an error and the rest of the call is skipped; when
\* Dial fails it closes the connection.
Fail ==
  /\ cops' = <<>>
  /\ cwait' = "none"
  /\ IF cconn = "dialing"
       THEN cconn' = "closed" /\ peerClosed' = TRUE
       ELSE UNCHANGED <<cconn, peerClosed>>

\* Close: Cmd("QUIT") whatever its outcome, then netConn.Close.
CloseConn ==
  cops' = <<>> /\ cwait' = "none" /\ cconn' = "closed" /\ peerClosed' = TRUE

\* The operations of each API call.  SubmitMessage upgrades first when the
\* session is plaintext and the last EHLO advertised STARTTLS.
CallOps(c) ==
  CASE c = "SendMail"      -> <<"MAIL", "RCPT", "DATA">>
    [] c = "SubmitMessage" ->
         (IF ~ctls /\ cexts.present /\ cexts.starttls
            THEN <<"STARTTLS">> ELSE <<>>)
         \o <<"AUTH", "MAIL", "RCPT", "DATA">>
    [] c = "Close"         -> <<"QUIT">>
    [] OTHER               -> <<c>>

AppCall ==
  /\ cconn = "up"
  /\ cops = <<>>
  /\ ccalls < MaxCalls
  /\ \E c \in Calls, m \in Mechs :
       /\ cops' = CallOps(c)
       /\ cmech' = m
  /\ ccalls' = ccalls + 1
  /\ UNCHANGED <<sessionVars, s2c, cwait, ctls, cexts, cstep, cconn,
                 caccepted, ndelivered, faults>>

\* Write the command of the next operation and wait for its reply.
StartOp ==
  /\ cops # <<>>
  /\ cwait = "none"
  /\ IF Head(cops) = "GREET" THEN UNCHANGED inbuf ELSE Send(OpWrites(Head(cops)))
  /\ cwait' = IF Head(cops) = "GREET" THEN "GREET" ELSE OpLine(Head(cops)).verb
  /\ cstep' = 0
  /\ UNCHANGED <<state, clientHostname, helloTLS, esmtp, tls, authenticated, invalidCmds,
                 reversePath, forwardPaths, bdatBuffer, sasl, peerClosed, open,
                 reply, lastDelivered, config, s2c, cops, ctls, cexts, cmech,
                 cconn, ccalls, caccepted, ndelivered, faults>>

\* Data after 354: the body and the terminator go out (dw.Close runs on
\* the error path too); the final reply is read only when io.Copy worked.
BodyWrittenNoFinalRead(copyOk) == Send(<<[verb |-> "BODY", arg |-> ""]>>) /\ Fail

BodyWritten(copyOk) ==
  /\ Send(<<[verb |-> "BODY", arg |-> ""]>>)
  /\ IF copyOk THEN Continue(<<"BODY">> \o Tail(cops), "BODY") ELSE Fail

\* Conn.ReadReply: a reply is complete at its first line with " " after
\* the code; its code is that line's, its lines the texts read so far.
HasReply == \E i \in 1..Len(s2c) : s2c[i].sep = " "

ReplyEnd == CHOOSE i \in 1..Len(s2c) :
              s2c[i].sep = " " /\ \A j \in 1..(i - 1) : s2c[j].sep = "-"

Rep == [code |-> s2c[ReplyEnd].code,
        lines |-> [i \in 1..ReplyEnd |-> s2c[i].text]]

Unread == SubSeq(s2c, ReplyEnd + 1, Len(s2c))

\* smtp.ParseEHLOResponse: every line but the greeting names an extension.
ParseEHLOResponse(lines) == {lines[i] : i \in 2..Len(lines)}

\* StartTLS after 220: the handshake succeeds iff the server's does; the
\* client's ReplaceConn drops what its reader had buffered, and ehlo runs.
Handshake ==
  IF tls /\ ~ctls
    THEN /\ ctls' = TRUE
         /\ s2c' = <<>>
         /\ Continue(<<"EHLO">> \o Tail(cops), "none")
    ELSE UNCHANGED ctls /\ s2c' = Unread /\ Fail

\* mech.Next on a 334 challenge: PLAIN has no second step, LOGIN answers
\* twice (user, password), CRAM-MD5 once.
MechNextOk == \/ cmech = "CRAM-MD5"
              \/ cmech = "LOGIN" /\ cstep < 2

\* One round of the loop of Client.Auth; after a failed mech.Next it
\* writes "*" and returns the error whatever the reply to it.
AuthReply(r) ==
  CASE cwait = "*"     -> Fail /\ UNCHANGED <<inbuf, cstep>>
    [] r.code = 235    -> Advance /\ UNCHANGED <<inbuf, cstep>>
    [] r.code # 334    -> Fail /\ UNCHANGED <<inbuf, cstep>>
    [] MechNextOk      -> /\ Send(<<[verb |-> "B64", arg |-> ""]>>)
                          /\ Continue(cops, "B64")
                          /\ cstep' = cstep + 1
    [] OTHER           -> /\ Send(<<[verb |-> "*", arg |-> ""]>>)
                          /\ Continue(cops, "*")
                          /\ UNCHANGED cstep

\* What the method waiting on operation op does with reply r.
ReplyTo(op, r) ==
  IF op = "AUTH" THEN AuthReply(r)
  ELSE /\ UNCHANGED cstep
       /\ CASE op = "EHLO" /\ r.code \in {500, 502} ->
                 Continue(<<"HELO">> \o Tail(cops), "none") /\ UNCHANGED inbuf
            [] r.code # Expected[op] -> Fail /\ UNCHANGED inbuf
            [] op = "DATA" ->
                 \E copyOk \in IF "copy" \in faults THEN BOOLEAN ELSE {TRUE} :
                   BodyWritten(copyOk)
            [] OTHER -> Advance /\ UNCHANGED inbuf

\* ReadReply returned the next reply while the client waited.
ClientRead ==
  /\ cwait # "none"
  /\ HasReply
  /\ CASE Head(cops) = "QUIT" ->
            CloseConn /\ s2c' = Unread /\ UNCHANGED <<inbuf, ctls, cstep>>
       [] Head(cops) = "STARTTLS" /\ Rep.code = 220 ->
            Handshake /\ UNCHANGED <<inbuf, cstep>>
       [] OTHER ->
            s2c' = Unread /\ UNCHANGED ctls /\ ReplyTo(Head(cops), Rep)
  /\ cexts' = CASE Head(cops) = "EHLO" /\ Rep.code = 250 ->
                     [present |-> TRUE,
                      starttls |-> "STARTTLS" \in ParseEHLOResponse(Rep.lines),
                      tls |-> ctls]
                [] Head(cops) = "HELO" /\ Rep.code = 250 -> NoExts
                [] OTHER -> cexts
  /\ caccepted' = IF Head(cops) \in {"BODY", "BDATLAST"} /\ Rep.code = 250
                    THEN caccepted + 1 ELSE caccepted
  /\ UNCHANGED <<state, clientHostname, helloTLS, esmtp, tls, authenticated, invalidCmds,
                 reversePath, forwardPaths, bdatBuffer, sasl, open, reply,
                 lastDelivered, config, cmech, ccalls, ndelivered, faults>>

ReadEOFNever == FALSE

ReadEOFEarly == ~HasReply

\* ReadReply fails: the server closed the connection and no complete reply
\* is left to read (EOF, possibly in the middle of a multi-line reply).
ReadEOF == ~HasReply /\ ~open

ClientReadFails ==
  /\ cwait # "none"
  /\ ReadEOF
  /\ IF Head(cops) = "QUIT" THEN CloseConn ELSE Fail
  /\ UNCHANGED <<state, clientHostname, helloTLS, esmtp, tls, authenticated, invalidCmds,
                 reversePath, forwardPaths, bdatBuffer, sasl, inbuf, open,
                 reply, lastDelivered, config, s2c, ctls, cexts, cmech, cstep,
                 ccalls, caccepted, ndelivered, faults>>

(***************************************************************************)
(* The specification.                                                      *)
(***************************************************************************)
Init ==
  /\ S!Init
  /\ s2c = WriteReply(220, <<"TEXT">>, "GREET")
  /\ cops = <<"GREET", "EHLO">>     \* Dial: the greeting, then ehlo
  /\ cwait = "none"
  /\ ctls = FALSE
  /\ cexts = NoExts
  /\ cmech \in Mechs
  /\ cstep = 0
  /\ cconn = "dialing"
  /\ ccalls = 0
  /\ caccepted = 0
  /\ ndelivered = 0
  /\ faults \in FaultSets

\* The steps of the client that the code takes by itself once a call is
\* made (the application's calls are not).
ClientStep == StartOp \/ ClientRead \/ ClientReadFails

Next == ServerStep \/ AppCall \/ StartOp \/ ClientRead \/ ClientReadFails

\* Both goroutines run when they can: the server's loop (its read deadline
\* included) and the client inside a call.
Spec == Init /\ [][Next]_vars /\ WF_vars(ServerStep) /\ WF_vars(ClientStep)

\* The session seen as MailTransaction: a transaction is open while a
\* reverse path is set, its recipients are the forward paths, and the last
\* delivery is the message last handed to OnData.
Txn == INSTANCE MailTransaction
         WITH submission <- config.submission, authed <- authenticated,
              open <- reversePath # "zero", rcpts <- forwardPaths,
              delivered <- lastDelivered.rcpts

(***************************************************************************)
(* Properties.                                                             *)
(***************************************************************************)

Ops == DOMAIN Expected \cup {"AUTH", "QUIT"}

TypeOK ==
  /\ S!TypeOK
  /\ s2c \in Seq([code : 0..599, sep : {"-", " "}, text : STRING, for : STRING])
  /\ cops \in Seq(Ops)
  /\ cwait \in {"none", "GREET", "B64", "*"} \cup S!KnownVerbs \cup {"BODY"}
  /\ cexts \in [present : BOOLEAN, starttls : BOOLEAN, tls : BOOLEAN]
  /\ cconn \in {"dialing", "up", "closed"}
  /\ {ccalls, caccepted, ndelivered} \subseteq 0..MaxCalls

\* Replies are read in command order (spec.md §5): every reply the client
\* reads answers the line it is waiting on, through Dial, the EHLO/HELO
\* fallback, the SASL loop, the DATA body and the re-EHLO after STARTTLS.
\* The one exception is the 421 the session sends, unasked, before it
\* closes at the invalid-command cap (RFC 5321 4.2.3 lets a server send
\* 421 at any time); the next call reads it in place of its reply.
ReplyMatches ==
  [][ClientRead => \A i \in 1..ReplyEnd : s2c[i].for \in {cwait, "CLOSE"}]_vars

\* Whenever no call is in progress, the Data and Bdat(last) calls that
\* returned nil are exactly the messages the session accepted: none was
\* reported sent without the server accepting it, and none was accepted
\* behind the back of a caller that got an error.
DeliveryAgreement == cops = <<>> => caccepted = ndelivered

\* spec.md §8, STARTTLS reset: the extension view of the client's
\* automatic re-EHLO over TLS no longer lists STARTTLS.
ExtsAfterTLS == cexts.present /\ cexts.tls => ~cexts.starttls

\* Whatever the client sends, the session only takes the steps of
\* MailTransaction: no recipient beyond the cap, no transaction before AUTH
\* in submission mode, every delivery to exactly the open transaction's
\* recipients and closing it.
TxnRefinement == Txn!Spec

\* Every call the application makes returns (Client methods block in
\* ReadReply; the server's loop and its read deadline always answer or
\* close).
CallsReturn == cops # <<>> ~> cops = <<>>

=============================================================================
