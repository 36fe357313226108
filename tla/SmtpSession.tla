---------------------------- MODULE SmtpSession ----------------------------
(***************************************************************************)
(* One SMTP server session: the command loop of Server.handleConn and the  *)
(* command handlers of smtpserver/session.go.  The peer is an arbitrary    *)
(* client: it may pipeline up to MaxPipeline lines that the server has not *)
(* read yet, send any line in any state, and close the connection.         *)
(* Application handlers (OnHelo, OnMail, OnRcpt, OnData, OnVrfy,           *)
(* Authenticate) are nondeterministic: they accept, return an SMTPError,   *)
(* or return another error.                                                *)
(*                                                                         *)
(* Data is abstracted to what the properties tell apart: a command line is *)
(* a verb and an argument class, an address is its parse outcome, a BDAT   *)
(* buffer is its number of chunks and a reply is its code together with    *)
(* the class digit of its enhanced status code (0 when there is none).     *)
(***************************************************************************)
EXTENDS Naturals, Sequences

CONSTANTS
  MaxRecipients,   \* Server.maxRecipients
  MaxInvalidCmds,  \* Server.maxInvalidCmds
  Configs,         \* the option sets the server may be built with
  ClientLines,     \* the lines the client may send (a subset of AllLines)
  MaxPipeline,     \* bound: lines sent by the client and not yet read
  MaxBdatChunks    \* bound: non-final BDAT chunks in one transaction

ASSUME MaxRecipients \in Nat \ {0}
ASSUME MaxInvalidCmds \in Nat \ {0}
ASSUME Configs \subseteq [tls : BOOLEAN, auth : BOOLEAN, vrfy : BOOLEAN,
                          submission : BOOLEAN]
ASSUME MaxPipeline \in Nat \ {0} /\ MaxBdatChunks \in Nat

\* sessionState; in stateData handleDATA is reading the body.
StateNew     == 0
StateGreeted == 1
StateMail    == 2
StateRcpt    == 3
StateData    == 4

(***************************************************************************)
(* Command lines.  "arg" is the class of the argument the handler tells    *)
(* apart: "" (none), "name" (an EHLO/HELO hostname), "bad" (a MAIL/RCPT    *)
(* argument without FROM:/TO: or with an unparsable path, or a BDAT size   *)
(* that does not scan), "null" (MAIL FROM:<>), "mbox" (a valid mailbox),   *)
(* "chunk"/"last" (BDAT n, BDAT n LAST, n > 0), "zerolast" (BDAT 0 LAST).  *)
(* AUTH arguments are mechanisms; PLAIN_IR is AUTH PLAIN with an initial   *)
(* response.  "*" and "B64" are the SASL responses a client sends after a  *)
(* 334 (cancel, a base64 string); "NUL" is a line containing a NUL byte;   *)
(* "LONG" one longer than MaxCommandLineLen, which conn.ReadLine drains    *)
(* and reports as an error.  "BODY" is a message body ended by CRLF.CRLF,  *)
(* as a DotWriter sends it;                                                *)
(* "CHUNK" the raw bytes of a BDAT chunk, as Client.Bdat writes them.      *)
(***************************************************************************)
AllLines ==
  { [verb |-> v, arg |-> a] :
      <<v, a>> \in
        {<<"EHLO", "">>, <<"EHLO", "name">>, <<"HELO", "">>, <<"HELO", "name">>,
         <<"MAIL", "bad">>, <<"MAIL", "null">>, <<"MAIL", "mbox">>,
         <<"RCPT", "bad">>, <<"RCPT", "mbox">>,
         <<"BDAT", "bad">>, <<"BDAT", "chunk">>, <<"BDAT", "last">>,
         <<"BDAT", "zerolast">>,
         <<"AUTH", "PLAIN">>, <<"AUTH", "PLAIN_IR">>, <<"AUTH", "LOGIN">>,
         <<"AUTH", "CRAM-MD5">>, <<"AUTH", "OTHER">>} }
  \cup
  { [verb |-> v, arg |-> ""] :
      v \in {"DATA", "RSET", "NOOP", "QUIT", "VRFY", "EXPN", "STARTTLS",
             "*", "B64", "NUL", "LONG", "BODY", "CHUNK"} }

ASSUME ClientLines \subseteq AllLines

\* The verbs the command switch of handleConn dispatches on.
KnownVerbs == {"EHLO", "HELO", "MAIL", "RCPT", "DATA", "RSET", "NOOP", "QUIT",
               "VRFY", "EXPN", "STARTTLS", "AUTH", "BDAT"}

\* base64Decode succeeds on a line of the base64 alphabet whose length is a
\* multiple of four: the SASL response, and bare 4- or 8-letter verbs.
Decodes(l) ==
  \/ l.verb = "B64"
  \/ l.arg = "" /\ l.verb \in {"DATA", "RSET", "NOOP", "QUIT", "STARTTLS"}

\* A reply: its code, the class digit of its enhanced code, and the code
\* of a reply the same step wrote before it (0: none).
Reply(code, enh) == [code |-> code, enh |-> enh, before |-> 0]
NoReply == Reply(0, 0)

\* Outcome of an application handler: nil, an *smtp.SMTPError, another error.
HandlerResults == {"ok", "smtpErr", "err"}
\* The SMTPError a handler returns is relayed verbatim; a well-formed one
\* (class of the enhanced code = class of the reply code) stands for all.
HandlerError == Reply(550, 5)

NoMessage == [rcpts |-> 0, sender |-> "zero", auth |-> FALSE,
              terminated |-> FALSE, chunksLost |-> 0]

VARIABLES
  state,           \* session.state
  clientHostname,  \* session.clientHostname: "" or "name"
  helloTLS,        \* history: the EHLO/HELO that set clientHostname was
                   \* sent by the client over TLS (no field of the code)
  esmtp,           \* session.esmtp
  tls,             \* session.tls
  authenticated,   \* session.authenticated
  invalidCmds,     \* session.invalidCmds
  reversePath,     \* session.reversePath: "zero" (ReversePath{}), "null", "mbox"
  forwardPaths,    \* len(session.forwardPaths)
  bdatBuffer,      \* number of chunks appended to session.bdatBuffer
  sasl,            \* the SASL exchange a handler is blocked in (ReadLine)
  inbuf,           \* lines sent by the client, not yet read by the server
  peerClosed,      \* the client has closed its end of the connection
  open,            \* handleConn's command loop is still running
  reply,           \* the reply written by the last server step
  lastDelivered,   \* the last message handed to OnData
  config           \* the server's options, fixed for the session

vars == <<state, clientHostname, helloTLS, esmtp, tls, authenticated, invalidCmds,
          reversePath, forwardPaths, bdatBuffer, sasl, inbuf, peerClosed,
          open, reply, lastDelivered, config>>

\* The options NewServer was given (WithTLS, WithAuthHandler,
\* WithVrfyHandler, WithSubmissionMode).
TLSConfigured  == config.tls
AuthConfigured == config.auth
VrfyConfigured == config.vrfy
SubmissionMode == config.submission

txnVars  == <<reversePath, forwardPaths, bdatBuffer>>
\* Everything a step that only writes a reply leaves alone.
restVars == <<state, clientHostname, helloTLS, esmtp, tls, authenticated, invalidCmds,
              reversePath, forwardPaths, bdatBuffer, sasl, peerClosed, open,
              lastDelivered>>

Line == Head(inbuf).line
Arg  == Line.arg

\* handleConn's loop is about to read a command line: no SASL exchange and
\* no message body is being read.
CommandLoop == open /\ sasl = "none" /\ state # StateData

\* A server step reads the next buffered line, whose verb is v, from the
\* command loop.
Recv(v) ==
  /\ CommandLoop
  /\ inbuf # <<>>
  /\ Line.verb = v

Consume == inbuf' = Tail(inbuf)

\* A handler that only writes a reply.
Answer(r) == reply' = r /\ UNCHANGED restVars

\* The reply written when a handler returns err (non-SMTPError: generic).
HandlerReply(r, generic) == IF r = "smtpErr" THEN HandlerError ELSE generic

(***************************************************************************)
(* Helpers translated from the code.  Each is preceded by a mutation: the  *)
(* same helper with a plausible bug, which some property must detect.      *)
(***************************************************************************)

ResetTransactionKeepsRcpts ==
  /\ reversePath' = "zero"
  /\ forwardPaths' = forwardPaths
  /\ bdatBuffer' = 0

\* resetTransaction (the OnReset callback changes no session state).
ResetTransaction ==
  /\ reversePath' = "zero"
  /\ forwardPaths' = 0
  /\ bdatBuffer' = 0

\* After the body of DATA or BDAT LAST, whatever OnData returned.
FinishMessage == ResetTransaction /\ state' = StateGreeted

ReplaceConnKeepsBuffer == inbuf' = Tail(inbuf)

\* Conn.ReplaceConn: the new bufio.Reader drops what the old one buffered.
ReplaceConn == inbuf' = <<>>

\* The session reset of handleSTARTTLS after the upgrade.
StartTLSResetToGreeted ==
  /\ ResetTransaction
  /\ state' = StateGreeted
  /\ clientHostname' = ""
  /\ helloTLS' = FALSE
  /\ esmtp' = FALSE

StartTLSReset ==
  /\ ResetTransaction
  /\ state' = StateNew
  /\ clientHostname' = ""
  /\ helloTLS' = FALSE
  /\ esmtp' = FALSE

RecipientsFullOffByOne == forwardPaths > MaxRecipients

\* The recipient cap test of handleRCPT.
RecipientsFull == forwardPaths >= MaxRecipients

TooManyInvalidOffByOne(n) == MaxInvalidCmds > 0 /\ n > MaxInvalidCmds

\* The invalid-command cap test of handleConn.
TooManyInvalid(n) == MaxInvalidCmds > 0 /\ n >= MaxInvalidCmds

SubmissionBlocksDropped == FALSE

\* The submission-mode gate of handleMAIL.
SubmissionBlocks == SubmissionMode /\ ~authenticated

\* The message record handed to OnData.
Deliver(chunks, terminated) ==
  lastDelivered' = [rcpts |-> forwardPaths, sender |-> reversePath,
                    auth |-> authenticated, terminated |-> terminated,
                    chunksLost |-> chunks]

(***************************************************************************)
(* The client.                                                             *)
(***************************************************************************)

\* The client writes one more line; it is tagged with whether TLS was up
\* when it was sent.
ClientSend(l) ==
  /\ open
  /\ ~peerClosed
  /\ Len(inbuf) < MaxPipeline
  /\ inbuf' = Append(inbuf, [line |-> l, tls |-> tls])
  /\ UNCHANGED restVars /\ UNCHANGED reply

ClientClose ==
  /\ open
  /\ ~peerClosed
  /\ peerClosed' = TRUE
  /\ UNCHANGED <<state, clientHostname, helloTLS, esmtp, tls, authenticated, invalidCmds,
                 reversePath, forwardPaths, bdatBuffer, sasl, inbuf, open,
                 reply, lastDelivered>>

(***************************************************************************)
(* The command loop of handleConn.                                         *)
(***************************************************************************)

\* conn.ReadLine fails: the client closed or the read deadline fired while
\* it was silent, or the line was too long (drained, then an error).  The
\* loop returns without a reply and the connection is closed.
ReadFails ==
  /\ CommandLoop
  /\ \/ inbuf = <<>> /\ UNCHANGED inbuf
     \/ inbuf # <<>> /\ Line.verb = "LONG" /\ Consume
  /\ open' = FALSE
  /\ reply' = NoReply
  /\ UNCHANGED <<state, clientHostname, helloTLS, esmtp, tls, authenticated, invalidCmds,
                 txnVars, sasl, peerClosed, lastDelivered>>

\* A rejected line is answered 500 and counts toward the cap; at the cap
\* the 421 follows the 500 and the loop returns.
CountInvalid ==
  /\ invalidCmds' = invalidCmds + 1
  /\ IF TooManyInvalid(invalidCmds + 1)
       THEN reply' = [Reply(421, 4) EXCEPT !.before = 500] /\ open' = FALSE
       ELSE reply' = Reply(500, 5) /\ open' = open
  /\ UNCHANGED <<state, clientHostname, helloTLS, esmtp, tls, authenticated, txnVars,
                 sasl, peerClosed, lastDelivered>>

\* A line containing NUL is rejected before it is parsed.
RejectNUL ==
  /\ Recv("NUL")
  /\ Consume
  /\ CountInvalid

\* The default case of the command switch.
HandleUnknown ==
  /\ CommandLoop
  /\ inbuf # <<>>
  /\ Line.verb \notin KnownVerbs \cup {"NUL", "LONG"}
  /\ Consume
  /\ CountInvalid

(***************************************************************************)
(* The command handlers.                                                   *)
(***************************************************************************)

\* handleEHLO / handleHELO: on success reset the transaction, record the
\* client name and enter Greeted from any state.
Greet(isEsmtp) ==
  /\ Consume
  /\ \/ /\ Arg = ""
        /\ Answer(Reply(501, 5))
     \/ /\ Arg # ""
        /\ \E r \in HandlerResults \ {"ok"} :
             Answer(HandlerReply(r, Reply(451, 4)))
     \/ /\ Arg # ""
        /\ ResetTransaction
        /\ clientHostname' = Arg
        /\ helloTLS' = Head(inbuf).tls
        /\ esmtp' = isEsmtp
        /\ state' = StateGreeted
        /\ reply' = Reply(250, IF isEsmtp THEN 0 ELSE 2)
        /\ UNCHANGED <<tls, authenticated, invalidCmds, sasl, peerClosed, open,
                       lastDelivered>>

HandleEHLO == Recv("EHLO") /\ Greet(TRUE)

HandleHELO == Recv("HELO") /\ Greet(FALSE)

HandleMAIL ==
  /\ Recv("MAIL")
  /\ Consume
  /\ CASE state < StateGreeted -> Answer(Reply(503, 5))
       [] state >= StateMail   -> Answer(Reply(503, 5))
       [] SubmissionBlocks     -> Answer(Reply(530, 5))
       [] Arg = "bad"          -> Answer(Reply(501, 5))
       [] OTHER ->
            \/ \E r \in HandlerResults \ {"ok"} :
                 Answer(HandlerReply(r, Reply(451, 4)))
            \/ /\ reversePath' = Arg
               /\ forwardPaths' = 0
               /\ state' = StateMail
               /\ reply' = Reply(250, 2)
               /\ UNCHANGED <<clientHostname, helloTLS, esmtp, tls, authenticated,
                              invalidCmds, bdatBuffer, sasl, peerClosed, open,
                              lastDelivered>>

HandleRCPT ==
  /\ Recv("RCPT")
  /\ Consume
  /\ CASE state < StateMail -> Answer(Reply(503, 5))
       [] RecipientsFull    -> Answer(Reply(452, 5))
       [] Arg = "bad"       -> Answer(Reply(501, 5))
       [] OTHER ->
            \/ \E r \in HandlerResults \ {"ok"} :
                 Answer(HandlerReply(r, Reply(451, 4)))
            \/ /\ forwardPaths' = forwardPaths + 1
               /\ state' = IF state < StateRcpt THEN StateRcpt ELSE state
               /\ reply' = Reply(250, 2)
               /\ UNCHANGED <<clientHostname, helloTLS, esmtp, tls, authenticated,
                              invalidCmds, reversePath, bdatBuffer, sasl,
                              peerClosed, open, lastDelivered>>

(***************************************************************************)
(* handleDATA: 354, then the body through the dot reader into OnData.      *)
(***************************************************************************)
HandleDATA ==
  /\ Recv("DATA")
  /\ Consume
  /\ IF state < StateRcpt
       THEN Answer(Reply(503, 5))
       ELSE /\ state' = StateData
            /\ reply' = Reply(354, 0)
            /\ UNCHANGED <<clientHostname, helloTLS, esmtp, tls, authenticated,
                           invalidCmds, txnVars, sasl, peerClosed, open,
                           lastDelivered>>

\* The body read by OnData and the drain after it.  A body line ends the
\* message; a line the client pipelined behind DATA is read as body text;
\* when nothing more arrives (the client closed, or the read deadline
\* fired) the dot reader returns an error, which OnData cannot tell from
\* the end of the body.  Whatever OnData returns, the transaction is reset
\* and the session is back in Greeted.
HandleDATABody ==
  /\ open
  /\ state = StateData
  /\ \/ /\ inbuf # <<>>
        /\ Line.verb # "BODY"
        /\ Consume
        /\ reply' = NoReply
        /\ UNCHANGED restVars
     \/ \E terminated \in BOOLEAN, r \in HandlerResults :
          /\ IF terminated
               THEN inbuf # <<>> /\ Line.verb = "BODY" /\ Consume
                    /\ UNCHANGED peerClosed
               ELSE inbuf = <<>> /\ peerClosed' = TRUE /\ UNCHANGED inbuf
          /\ IF r = "ok"
               THEN Deliver(bdatBuffer, terminated) /\ reply' = Reply(250, 2)
               ELSE UNCHANGED lastDelivered
                    /\ reply' = HandlerReply(r, Reply(451, 4))
          /\ FinishMessage
          /\ UNCHANGED <<clientHostname, helloTLS, esmtp, tls, authenticated,
                         invalidCmds, sasl, open>>

(***************************************************************************)
(* handleBDAT: the checks that answer 503 or 501 return at once; then      *)
(* io.ReadFull takes the chunk, the next element of inbuf whatever it      *)
(* holds, into bdatBuffer, and LAST hands the whole buffer to OnData.  A   *)
(* rejected BDAT leaves its chunk to the command loop.  When the chunk has *)
(* not arrived, ReadFull fails at EOF or at the read deadline and the      *)
(* handler returns without a reply.                                        *)
(***************************************************************************)
\* The BDAT line, then io.ReadFull of the chunk unless the size is 0.
ReadChunk ==
  IF Arg = "zerolast" THEN Consume
  ELSE Len(inbuf) >= 2 /\ inbuf' = Tail(Tail(inbuf))

HandleBDAT ==
  /\ Recv("BDAT")
  /\ CASE state < StateRcpt -> Consume /\ Answer(Reply(503, 5))
       [] Arg = "bad"       -> Consume /\ Answer(Reply(501, 5))
       [] OTHER ->
            \/ /\ Arg # "zerolast"
               /\ Len(inbuf) = 1
               /\ Consume
               /\ reply' = NoReply
               /\ UNCHANGED <<state, clientHostname, helloTLS, esmtp, tls, authenticated,
                              invalidCmds, txnVars, sasl, peerClosed, open,
                              lastDelivered>>
            \/ /\ Arg = "chunk"
               /\ bdatBuffer < MaxBdatChunks
               /\ ReadChunk
               /\ bdatBuffer' = bdatBuffer + 1
               /\ reply' = Reply(250, 2)
               /\ UNCHANGED <<state, clientHostname, helloTLS, esmtp, tls, authenticated,
                              invalidCmds, reversePath, forwardPaths, sasl,
                              peerClosed, open, lastDelivered>>
            \/ /\ Arg \in {"last", "zerolast"}
               /\ ReadChunk
               /\ \E r \in HandlerResults :
                    IF r = "ok"
                      THEN Deliver(0, TRUE) /\ reply' = Reply(250, 2)
                      ELSE UNCHANGED lastDelivered
                           /\ reply' = HandlerReply(r, Reply(451, 4))
               /\ FinishMessage
               /\ UNCHANGED <<clientHostname, helloTLS, esmtp, tls, authenticated,
                              invalidCmds, sasl, peerClosed, open>>

HandleRSET ==
  /\ Recv("RSET")
  /\ Consume
  /\ ResetTransaction
  /\ state' = IF state > StateGreeted THEN StateGreeted ELSE state
  /\ reply' = Reply(250, 2)
  /\ UNCHANGED <<clientHostname, helloTLS, esmtp, tls, authenticated, invalidCmds, sasl,
                 peerClosed, open, lastDelivered>>

HandleNOOP == Recv("NOOP") /\ Consume /\ Answer(Reply(250, 2))

\* handleQUIT writes 221 and the loop returns.
HandleQUIT ==
  /\ Recv("QUIT")
  /\ Consume
  /\ open' = FALSE
  /\ reply' = Reply(221, 2)
  /\ UNCHANGED <<state, clientHostname, helloTLS, esmtp, tls, authenticated, invalidCmds,
                 txnVars, sasl, peerClosed, lastDelivered>>

HandleVRFY ==
  /\ Recv("VRFY")
  /\ Consume
  /\ IF VrfyConfigured
       THEN \E r \in HandlerResults :
              Answer(IF r = "ok" THEN Reply(250, 2)
                                 ELSE HandlerReply(r, Reply(451, 4)))
       ELSE Answer(Reply(252, 2))

HandleEXPN == Recv("EXPN") /\ Consume /\ Answer(Reply(502, 5))

(***************************************************************************)
(* handleSTARTTLS: 220, then the TLS handshake on the raw connection.  On  *)
(* failure the loop goes on with the plaintext reader.  On success the     *)
(* reader is rebuilt (ReplaceConn) and the session is reset to New.        *)
(***************************************************************************)
HandleSTARTTLS ==
  /\ Recv("STARTTLS")
  /\ CASE ~TLSConfigured -> Consume /\ Answer(Reply(502, 5))
       [] tls            -> Consume /\ Answer(Reply(503, 5))
       [] OTHER ->
            \/ Consume /\ Answer(Reply(220, 0))
            \/ /\ ReplaceConn
               /\ tls' = TRUE
               /\ StartTLSReset
               /\ reply' = Reply(220, 0)
               /\ UNCHANGED <<authenticated, invalidCmds, sasl, peerClosed, open,
                              lastDelivered>>

(***************************************************************************)
(* handleAUTH and the SASL exchanges of authPLAIN, authLOGIN, authCRAMMD5. *)
(* A 334 challenge leaves the handler blocked in conn.ReadLine: "sasl"     *)
(* names the line it waits for, and the next buffered line, whatever the   *)
(* client meant by it, is read as that response.                           *)
(***************************************************************************)
SaslFirst == [PLAIN |-> "PLAIN", LOGIN |-> "LOGIN_USER", CRAM |-> "CRAM-MD5"]

\* The call to authHandler.Authenticate and the reply to it.
Authenticate ==
  /\ sasl' = "none"
  /\ \E r \in HandlerResults :
       IF r = "ok"
         THEN authenticated' = TRUE /\ reply' = Reply(235, 2)
         ELSE UNCHANGED authenticated
              /\ reply' = HandlerReply(r, Reply(535, 5))
  /\ UNCHANGED <<state, clientHostname, helloTLS, esmtp, tls, invalidCmds, txnVars,
                 peerClosed, open, lastDelivered>>

\* The exchange ends with a reply and no authentication.
EndSasl(r) ==
  /\ sasl' = "none"
  /\ reply' = r
  /\ UNCHANGED <<state, clientHostname, helloTLS, esmtp, tls, authenticated, invalidCmds,
                 txnVars, peerClosed, open, lastDelivered>>

HandleAUTH ==
  /\ Recv("AUTH")
  /\ Consume
  /\ CASE ~AuthConfigured     -> Answer(Reply(502, 5))
       [] state < StateGreeted -> Answer(Reply(503, 5))
       [] state >= StateMail   -> Answer(Reply(503, 5))
       [] authenticated        -> Answer(Reply(503, 5))
       [] Arg = "OTHER"        -> Answer(Reply(501, 5))
       \* Initial response: bad base64 / not three NUL-separated fields, or
       \* credentials for the handler.
       [] Arg = "PLAIN_IR"     -> EndSasl(Reply(501, 5)) \/ Authenticate
       [] OTHER ->
            /\ sasl' = CASE Arg = "PLAIN" -> SaslFirst.PLAIN
                         [] Arg = "LOGIN" -> SaslFirst.LOGIN
                         [] OTHER         -> SaslFirst.CRAM
            /\ reply' = Reply(334, 0)
            /\ UNCHANGED <<state, clientHostname, helloTLS, esmtp, tls, authenticated,
                           invalidCmds, txnVars, peerClosed, open,
                           lastDelivered>>

\* authPLAIN after its 334: the decoded response must split on NUL into
\* three fields (authzid, authcid, password) before Authenticate.
PlainResponse == EndSasl(Reply(501, 5)) \/ Authenticate

\* authLOGIN: the user name is answered with the password challenge, the
\* password goes to Authenticate.
LoginResponse ==
  IF sasl = "LOGIN_USER"
    THEN /\ sasl' = "LOGIN_PASS"
         /\ reply' = Reply(334, 0)
         /\ UNCHANGED <<state, clientHostname, helloTLS, esmtp, tls, authenticated,
                        invalidCmds, txnVars, peerClosed, open, lastDelivered>>
    ELSE Authenticate

\* authCRAMMD5: the decoded response must hold a space between user name
\* and digest before Authenticate.
CramResponse == EndSasl(Reply(501, 5)) \/ Authenticate

\* The line read inside an exchange, steps common to the three mechanisms:
\* a failed ReadLine (too long) returns to the command loop without a
\* reply, "*" cancels, an undecodable line is "Invalid base64"; the rest
\* is the mechanism's.
SaslRespond ==
  /\ open
  /\ sasl # "none"
  /\ inbuf # <<>>
  /\ Consume
  /\ CASE Line.verb = "LONG" -> EndSasl(NoReply)
       [] Line.verb = "*"    -> EndSasl(Reply(501, 5))
       [] ~Decodes(Line)     -> EndSasl(Reply(501, 5))
       [] sasl = "PLAIN"     -> PlainResponse
       [] sasl = "CRAM-MD5"  -> CramResponse
       [] OTHER              -> LoginResponse

\* The ReadLine inside an exchange fails: the handler returns, no reply.
SaslReadFails ==
  /\ open
  /\ sasl # "none"
  /\ inbuf = <<>>
  /\ EndSasl(NoReply)
  /\ UNCHANGED inbuf

(***************************************************************************)
(* The specification.                                                      *)
(***************************************************************************)
Init ==
  /\ state = StateNew
  /\ clientHostname = ""
  /\ helloTLS = FALSE
  /\ esmtp = FALSE
  /\ tls = FALSE
  /\ authenticated = FALSE
  /\ invalidCmds = 0
  /\ reversePath = "zero"
  /\ forwardPaths = 0
  /\ bdatBuffer = 0
  /\ sasl = "none"
  /\ inbuf = <<>>
  /\ peerClosed = FALSE
  /\ open = TRUE
  /\ reply = Reply(220, 0)     \* the greeting banner
  /\ lastDelivered = NoMessage
  /\ config \in Configs

Server ==
  \/ ReadFails \/ RejectNUL \/ HandleUnknown
  \/ HandleEHLO \/ HandleHELO \/ HandleMAIL \/ HandleRCPT
  \/ HandleDATA \/ HandleDATABody \/ HandleBDAT \/ HandleRSET \/ HandleNOOP \/ HandleQUIT
  \/ HandleVRFY \/ HandleEXPN \/ HandleSTARTTLS
  \/ HandleAUTH \/ SaslRespond \/ SaslReadFails

Client == (\E l \in ClientLines : ClientSend(l)) \/ ClientClose

Next == (Client \/ Server) /\ UNCHANGED config

Spec == Init /\ [][Next]_vars

(***************************************************************************)
(* Properties.                                                             *)
(***************************************************************************)

TypeOK ==
  /\ state \in {StateNew, StateGreeted, StateMail, StateRcpt, StateData}
  /\ clientHostname \in {"", "name"}
  /\ helloTLS \in BOOLEAN
  /\ {esmtp, tls, authenticated, peerClosed, open} \subseteq BOOLEAN
  /\ invalidCmds \in 0..MaxInvalidCmds
  /\ reversePath \in {"zero", "null", "mbox"}
  /\ forwardPaths \in 0..MaxRecipients
  /\ bdatBuffer \in 0..MaxBdatChunks
  /\ sasl \in {"none", "PLAIN", "LOGIN_USER", "LOGIN_PASS", "CRAM-MD5"}
  /\ inbuf \in Seq([line : ClientLines, tls : BOOLEAN])
  /\ Len(inbuf) <= MaxPipeline
  /\ reply \in [code : 0..599, enh : 0..5, before : {0, 500}]
  /\ lastDelivered.rcpts \in Nat

\* The transaction sub-state agrees with the session state after every
\* handler: a reverse path exactly while a transaction is open, recipients
\* from the first accepted RCPT on, BDAT chunks only there.  Every exit of a
\* transaction (DATA, BDAT LAST, RSET, EHLO/HELO, STARTTLS) must call
\* resetTransaction.
TxnConsistent ==
  /\ (state \in {StateMail, StateRcpt, StateData}) = (reversePath # "zero")
  /\ (state \in {StateRcpt, StateData}) = (forwardPaths > 0)
  /\ bdatBuffer > 0 => state \in {StateRcpt, StateData}

\* Every message handed to OnData has a sender, between one and
\* MaxRecipients recipients and, in submission mode, an authenticated
\* client (handleMAIL's gate, handleRCPT's cap and the resets together).
DeliveryIntegrity ==
  lastDelivered # NoMessage =>
    /\ lastDelivered.sender # "zero"
    /\ lastDelivered.rcpts \in 1..MaxRecipients
    /\ SubmissionMode => lastDelivered.auth

\* STARTTLS command injection: once TLS is up, the server never acts on a
\* line the client sent in plaintext (pipelined behind STARTTLS).
NoPlaintextAfterTLS ==
  [][Len(inbuf') < Len(inbuf) /\ tls => Head(inbuf).tls]_vars

\* STARTTLS leaves nothing of the plaintext greeting: on a TLS session,
\* the client name the session holds, and the Greeted state every
\* transaction starts from, come from an EHLO/HELO the client sent after
\* the upgrade.  It takes both handleSTARTTLS's reset to New and
\* ReplaceConn dropping a greeting pipelined behind STARTTLS.  (The reset
\* keeps authenticated, session.go:721-725; no property claims otherwise.)
HelloOverTLS ==
  tls => /\ clientHostname # "" => helloTLS
         /\ state >= StateGreeted => helloTLS

(***************************************************************************)
(* Statements of the spec (spec.md) that the code does not meet; each is   *)
(* checked by a run that expects a violation.                              *)
(***************************************************************************)

\* A message reaches OnData only once the client ended it with CRLF.CRLF.
DeliveredOnlyTerminated ==
  lastDelivered # NoMessage => lastDelivered.terminated

=============================================================================
