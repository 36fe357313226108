# TLA+ models of smtp.go

These modules model the SMTP server of this repository, its wire codec and
its client driver, so that TLC can check them. Each module is translated from the Go source.
`PROJECT.json` maps every definition to the lines it models. It also lists
the runs, the mutants that show each property can fail, the findings and
the hazards.

## The system and its parts

| Part | Source | Module | Status |
|---|---|---|---|
| Line reader and dot-stuffing codec | `src/internal/textproto/conn.go`, `dot.go` | `DotCodec`, `SmtpSession`, `SmtpReply`, `SmtpData` | partly |
| Server session: command loop, handlers, SASL, STARTTLS | `src/smtpserver/session.go` | `SmtpSession`, `SmtpServer` | modelled |
| Server life cycle: Serve, connection limit, Shutdown, Close | `src/unnamed/part_011` (server.go) | `SmtpServer` | modelled |
| Handler interfaces | `src/smtpserver/handler.go` | nondeterministic outcomes in `SmtpSession` | not modelled |
| Addresses, reply and enhanced codes, SMTPError, extensions | `src/address.go`, `src/enhancedcode.go`, `part_000`, `part_006`, `part_008` | `SmtpText` (paths), `SmtpReply` (enhanced codes, reply text, `replyToError`); elsewhere abstracted to argument classes | partly |
| SASL client mechanisms | `part_015` | `SmtpDialogue` | modelled |
| Client driver | `src/smtpclient/client.go`, `options.go` | `SmtpDialogue`, `SmtpData` | partly |
| What a session promises: mail transactions | spec.md §4 | `MailTransaction` | abstract spec |
| Tests, examples, docs | `part_001…014`, `*_test.go`, `doc.go` | – | read for intent |

How the parts interact:
- `Server.Serve` accepts a connection and takes a slot of the connection
  semaphore (`connSem`) when a limit is set. It then adds 1 to the
  WaitGroup and starts `handleConn` in a goroutine.
- `handleConn` starts a watcher goroutine. When `quit` is closed, the
  watcher cancels the session's context and closes the connection.
- The session then sends the banner and loops:
  1. It checks `ctx.Done()` and replies 421 when it is set.
  2. It sets the read deadline.
  3. It calls `Conn.ReadLine` and dispatches the command to a handler.
- DATA replies 354 and then reads the body through `dotReader`. The
  client's `Data` writes it through `dotWriter` and reads the final reply.
- Each client method writes one command (`Conn.Cmd`) and reads its reply
  (`Conn.ReadReply`); `SendMail` and `SubmitMessage` chain them.
- STARTTLS swaps the connection with `ReplaceConn` and resets the session.
- `Shutdown` closes `quit`, closes the listener and waits on the WaitGroup
  or its context. `Close` closes `quit` and the listener without waiting.

## Modules

### `SmtpSession` (MC: `MCSmtpSession`)

One session of `handleConn` against an arbitrary client.

**State.** The `session` struct fields, each kept under its own name:
`state`, `clientHostname`, `esmtp`, `tls`, `authenticated`,
`invalidCmds`, `reversePath`, `forwardPaths` and `bdatBuffer`. The
model adds:
- `inbuf`, the lines the client has sent and the server has not read.
  Each line is tagged with whether it was sent under TLS.
- `sasl`, the SASL exchange a handler is blocked in.
- `peerClosed` and `open`.
- `reply`, holding the reply code, the class of its enhanced code and the
  code of a reply the same step wrote before it (the 500 before the 421 at
  the invalid-command cap).
- `helloTLS`, a history variable: the EHLO/HELO that set `clientHostname`
  was sent over TLS. It has no field in the code and is only read by
  `HelloOverTLS`.
- `lastDelivered`, what `OnData` was last given.
- `config`, the options the server was built with (`WithTLSConfig`,
  `WithAuthHandler`, `WithVrfyHandler`, `WithSubmissionMode`). It is
  chosen in `Init` from `Configs` and never changes.

**Actions.**
- One action per `case` of the command switch (`HandleEHLO` … `HandleBDAT`).
  `HandleBDAT` takes the next element of `inbuf` as the chunk's bytes, and
  only after its 503/501 checks (`ReadChunk`), as `io.ReadFull` does; a
  `BDAT 0 LAST` (`zerolast`) reads no chunk (session.go:423).
  DATA takes two steps: `HandleDATA` replies 354 and enters `StateData`;
  `HandleDATABody` reads the body (one `BODY` line ended by CRLF.CRLF, or
  the connection ending first), calls `OnData` and replies.
- `CommandLoop` is the condition under which the loop reads a command: the
  connection is open, no SASL exchange and no body is being read.
- `RejectNUL` and `HandleUnknown` (the `default` case). Both answer 500
  and count the line (`CountInvalid`); at the cap the same step writes 500
  and then 421 and the loop returns.
- `ReadFails`, the `ReadLine` error: EOF, or a line longer than
  `MaxCommandLineLen`.
- The SASL continuation reads, `SaslRespond` and `SaslReadFails`.
  `SaslRespond` handles the steps the mechanisms share; `PlainResponse`,
  `LoginResponse` and `CramResponse` are the rest of `authPLAIN`,
  `authLOGIN` and `authCRAMMD5`.
- The client's `ClientSend` and `ClientClose`.

Each handler action covers the whole Go handler: its guards and early
returns, the application handler's three outcomes (nil, `*SMTPError`,
another error), and the trailing `resetTransaction` and state change.
The helpers that more than one handler calls are their own definitions:
`ResetTransaction`, `FinishMessage`, `StartTLSReset`, `ReplaceConn`,
`RecipientsFull`, `TooManyInvalid` and `SubmissionBlocks`.

**Abstractions.**
- A command line is a verb plus an argument class: none, a hostname, a
  malformed argument, a null or a real mailbox, a BDAT chunk or last
  chunk, a SASL mechanism, a base64 or a `*` response.
- A BDAT buffer is its number of chunks.

### `SmtpServer` (MC: `MCSmtpServer`)

Serve, the sessions and the application run as separate processes.

**The Serve goroutine.** Its actions are `ServeStart`, `Accept`,
`AcceptFails`, `Limit` and `Spawn`. `Limit` has three disjuncts: no limit,
room left, and full (the connection gets 421).

**Per connection.**
- The client's `Dial`.
- The session goroutine, at the granularity where it interacts with
  shutdown:
  - `SessGreet`: the ConnectionHandler and the banner.
  - `SessTop`: the `ctx.Done()` select.
  - `SessRead`: blocked in `ReadLine`.
  - `SessCmd`: a command keeps the session going or ends it. What the
    command does is `SmtpSession`'s business.
- `Exit` runs the deferred calls in order: `conn.Close`, `cancel`, the
  semaphore release and `wg.Done`.
- The watcher goroutine: `Watch` and `WatchClose`.

**The application goroutine.** `ShutdownBegin` closes `quit` and then the
listener. `ShutdownDone` runs when `wg.Wait` returns, and
`ShutdownDeadline` when the context expires. `Close` is its own action.
Closing an already closed `quit` sets `panicked`.

`MaxConnections` and `DeadlineFires` are chosen in `Init` and then fixed.
`Fixed` keeps them unchanged.

### `SmtpDialogue` (MC: `MCSmtpDialogue`)

The client driver and one server session over one connection. The
session is `SmtpSession` through `INSTANCE`; `ServerStep` is any of its
steps, and a reply it writes is queued on `s2c` (server to client) as
the lines `Conn.WriteReply` writes (`WriteReply`: a code, `-` on every line
but the last, a text), each tagged with the line it answers. An EHLO's 250
carries the lines of `handleEHLO` (`EhloLines`: greeting, the fixed
extensions, STARTTLS and AUTH when offered).

**Client state.** `cops`, the operations left in the current API call;
`cwait`, the verb whose reply the client is reading; `ctls` and `cexts`
(the `Client`'s TLS flag and the extensions of the last EHLO); `cmech` and
`cstep`, the SASL mechanism and its step; `cconn` (dialing, up, closed);
`ccalls`, the calls made; `caccepted` and `ndelivered`, the messages the
client saw accepted and the session handed to `OnData`.

**Actions.**
- `AppCall`: the application calls a method; `CallOps` lists its
  operations (`SendMail` is MAIL, RCPT, DATA; `SubmitMessage` adds
  STARTTLS when advertised on plaintext, and AUTH).
- `StartOp` is `Conn.Cmd`'s write (`OpWrites`: `Bdat` writes its line
  and then the chunk's bytes before reading); `Send` drops the line if the server
  has closed the connection.
- `ClientRead` is `ReadReply` returning a reply: the lines up to the
  first with a space after the code (`HasReply`, `ReplyEnd`, `Rep`); the
  client's extensions come from `ParseEHLOResponse` of those lines. `ReplyTo` is what the
  method does with it: the EHLO-to-HELO fallback, the code check
  (`Expected`), `Data`'s body (`BodyWritten`), STARTTLS's handshake,
  `ReplaceConn` and fresh EHLO (`Handshake`), and the `Auth` loop
  (`AuthReply`, with the steps of PLAIN, LOGIN and CRAM-MD5 in `MechNextOk`).
- `ClientReadFails`: `ReadReply` hits EOF after the server closed, with no
  complete reply left (a partial multi-line reply included).
- `Dial` is `Init`'s greeting and EHLO; `Close` is QUIT then close.

`faults` holds the client-side faults of a run: `"copy"` makes `io.Copy`
of the body fail. No client deadlines are modelled.

### `MailTransaction`

What a session promises about mail, from spec.md §4: a transaction opens
(in submission mode only after authentication), gains up to
`MaxRecipients` recipients, and is abandoned or delivers its recipients.
`SmtpDialogue` instantiates it with a refinement mapping
(`open <- reversePath # "zero"`, `rcpts <- forwardPaths`,
`delivered <- lastDelivered.rcpts`) and checks `Txn!Spec` as the property
`TxnRefinement`.

### `DotCodec` (MC: `MCDotCodec`; composed in `SmtpData`)

`dotWriter.Write` and `Close`, joined through the connection to
`dotReader.Read`.

Bytes are abstracted to the classes the two state machines tell apart:
`.`, CR, LF and any other byte.

`Read(k)` is one call with `len(p) = k`:
- `ReadLoop` is a RECURSIVE operator translating the loop of
  `dotReader.Read` case by case.
- It includes the `UnreadByte` paths and the room checks against `len(p)`.
- A call that would block in `ReadByte` is not taken until more bytes
  have arrived.

In mode `raw` there is no writer. The connection carries any bytes a
client may send, then a terminator and the next command.

`SpecScan` is the reference: the decoder of spec.md §4.1 as a function of
the whole stream, with no buffer.

### `SmtpReply`

Replies on the server-to-client direction, character by character:
`session.reply` (`ReplyText`: `"X.Y.Z msg"` or `msg`), `Conn.WriteReply`,
`Conn.ReadReply` and what a client method makes of the reply
(`CallResult`, with `replyToError` and `ParseEnhancedCode`). Numbers are
written and parsed digit by digit (`Itoa`, `Atoi`).

- Variables: `s2c` (bytes written and not yet read), `meant` (the
  replies written for the client's calls), `results` (what each call
  returned).
- `Reply(code, enh, msg, forCall)` is one `session.reply`.
- `ClientRead(expect)` is one `ReadReply` and the method's return:
  `LinesOf` splits the bytes at each LF as `ReadLine` does, `StopOf` is
  the first line that does not continue the reply (code, then `-`), and
  `ReplyOf` is the reply, an error or a blocked read. The three are bound
  with `\E x \in {...}` so that each is computed once per step.

It has no specification of its own; `SmtpData` instantiates it.

### `SmtpData` (MC: `MCSmtpData`)

The end of a DATA exchange: `DotCodec` and `SmtpReply` composed, with the
client's `Data` and then `Noop`.
- `ClientWrite` is `io.Copy` into the dot writer and `Close`.
- `ServerReadBody` is `OnData` reading the body.
- `HandleDATAReply` is `handleDATA` replying for what `OnData` returned:
  nil (250 2.0.0), a non-SMTP error (451 4.4.0), or any SMTPError of the
  constant `Errors`.
- `ClientReadReply` is `Data`'s final `ReadReply`, or `Noop`'s.
- `ClientNoop` is `Noop` writing its line.
- `HandleNextLine` is `handleConn` reading the next line from where the
  dot reader stopped, and replying to NOOP or to a line that is not a
  command (500 5.5.1, not for a call).

`CallsMade` is the number of calls the client has made: `Data`, and
`Noop` once its line is on the wire.

### `SmtpText` (MC: `MCSmtpText`)

The text of a MAIL or RCPT path, from the client to the path the session
records. A string is a sequence of one-character strings over the
alphabet `Chars`; the fixed words of a line (`MAIL`, `FROM:`, a parameter)
are single tokens, since the code only compares them whole.

**Operators.** `address.go` one function per operator, under the Go names:
`ParseMailbox` (split at the last `@`), `validateLocalPart`,
`validateDotAtom`, `validateQuotedLocalPart` (the escape loop, RECURSIVE),
`validateDomain` with `SplitDots` for `strings.Split`, `ParseReversePath`,
`ParseForwardPath` (with `TrimSpace` and `Unbracket`) and `MailboxString`.
`CommandLine` is the line `Client.Mail` / `Client.Rcpt` format;
`parseCommand`, `Cut` and `ArgPath` are the session's split of the verb and
the path extraction of `handleMAIL` / `handleRCPT` (prefix, cut at the
first space, trim).

**Actions.** `Init` picks the verb and an address string of up to
`MaxLen` characters. `ClientSend` is `Client.Mail` / `Client.Rcpt` writing
its line, with or without an option; `RawSend` is any other client writing
its own text after the keyword; `SessionRead` is the session handling the
line and recording `parsed`.

**Reference.** `SpecMailbox` is the Mailbox of spec.md §3 written as a
grammar (atoms joined by single dots, quoted strings with backslash
pairs, labels joined by single dots, `[...]` literals), independent of the
validators' loop structure.

## Runs

| Run | Expect | What it shows |
|---|---|---|
| `Session` | pass | Two servers, a submission server and a plain relay, against any client. `TxnConsistent`: every way out of a transaction resets it. `DeliveryIntegrity`: every delivered message has a sender, 1..MaxRecipients recipients and, in submission mode, an authenticated client. `NoPlaintextAfterTLS`: no line the client sent in plaintext is read after the upgrade. `HelloOverTLS`: on a TLS session the client name, and the Greeted state transactions start from, come from an EHLO/HELO sent over TLS; it takes both the reset to New and `ReplaceConn` dropping a greeting pipelined behind STARTTLS. The reset keeps `authenticated` (see below), and no property claims otherwise. |
| `Server` | pass | Limit 1 or unlimited; Shutdown with or without an expiring deadline, or Close. `ConnectionCap`: live sessions never exceed the limit. `SlotsAccounted`: the semaphore counts exactly the live sessions on every exit path. `ShutdownTerminates`: Shutdown returns. |
| `Dialogue` | pass | Client and session over one connection, a submission server and a relay, three SASL mechanisms, up to five API calls of every method but `Bdat`. `ReplyMatches`: every reply is read by the operation it answers, except the unsolicited 421 written after the 500 at the invalid-command cap, which the next call reads in place of its reply (RFC 5321 lets a server send 421 at any time). `DeliveryAgreement`: when a call returns, the client has seen as many messages accepted as the server delivered. `ExtsAfterTLS`: extensions learned over TLS never list STARTTLS. `CallsReturn`: every call returns. `TxnRefinement`: the session's transaction implements `MailTransaction`. |
| `Dot` | pass | Module `MCSmtpData`, writer mode and raw mode. `DotRoundTrip`: any body of up to 4 bytes, written in any chunks and read with any buffer sizes, comes back unchanged (plus a final CRLF if the body lacks one). `BodyBoundary`: the reader stops exactly after the terminator. `TypeOK`: the reader keeps `0 <= n <= len(p)`. `ReaderTerminates`: the reader reaches EOF. `CallsGetTheirReply`: for every `OnData` result in `MCErrors`, `Data` and then `Noop` each return the reply written for them, in order, a one-line SMTPError has the code and text written on the wire, and when its enhanced code has a valid class (2 to 5) the caller gets exactly that enhanced code and the handler's message: `replyToError` strips the `X.Y.Z ` prefix and nothing else. `CallsReturn`: both calls return. |
| `SessionTruncatedBody` | violation | A connection that fails mid-body ends the body as a clean EOF, so a truncated message reaches `OnData` and gets 250. |
| `ServerShutdownRace` | violation | `wg.Add(1)` runs after Accept, so Shutdown's `wg.Wait` can return nil just before a session starts. |
| `ServerServeStops` | violation | If Shutdown runs before Serve stores its listener, nothing closes that listener, and Serve accepts forever. |
| `DialogueCopyFailure` | violation | When `io.Copy` of the body fails, `Data` still writes the terminator and returns an error without reading the reply: the server delivers a message the caller was told failed, and the unread 250 answers the next command. |
| `DialogueBdatReject` | violation | The application calls `Bdat` before a recipient is accepted. `handleBDAT` answers 503 without reading the chunk that `Client.Bdat` wrote after the BDAT line, so the command loop parses the message data as a command, and its 500 is read by the next call (whose own reply is read by the one after). |
| `Text` | pass | Every address string of up to 5 characters over 12 characters, sent by this client or written raw by any client. `AcceptedPathSpecValid`: every mailbox the session records is a Mailbox of spec §3. `RelayRoundTrip`: a recorded path, handed on by a relay through `Mailbox.String` and `Client.Mail` / `Rcpt`, is recorded identically by the next session. |
| `ReplyMultilineError` | violation | `CallsGetTheirReply`: `OnData` returns an SMTPError whose message is `"a\na"`. `session.reply` writes `550 5.1.1 a`, LF, `a`, CRLF as one reply line. `Data` returns 550 with the message `a`; `Noop` then reads the line `a` and fails with "reply line too short", and the 250 meant for `Noop` is left for the next call. |
| `DotRawDecode` | violation | In state DotCR, when only 1 byte of `p` is left, Read emits `.` and drops the CR. The decoded body therefore depends on the caller's buffer size, unlike the §4.1 decoder. |

Each property of a passing run has a mutant in `PROJECT.json`. The mutant
is a plausible bug in a mapped helper, and TLC finds the property violated
under that run's cfg. Examples:
- a missing `resetTransaction`;
- `>` in place of `>=` at a cap;
- a missing semaphore release or `wg.Done`;
- `beginLine` set after CR rather than LF;
- a `Close` that does not flush the terminator.

## Bounds and why they suffice

**`Session`.**
- One recipient, two invalid commands, one non-final BDAT chunk and a
  pipeline of two lines.
- Every cap can therefore be reached and exceeded by one. With a pipeline
  of two, a line can be pipelined behind STARTTLS or behind an AUTH that
  then reads it as a SASL response.
- Lines that a handler treats exactly like another listed line are
  dropped from the client's alphabet (`MCClientLines`).
- About 2.1M distinct states.

**`Server`.**
- Three connections, so limit 1 sees both a full and a spare slot, and
  two sessions can be live while a third waits in the backlog.
- About 275k states.

**`Dot`.**
- Bodies of up to 4 bytes over 4 byte classes, and read sizes 1..3.
- These bytes reach every reader state: `..`, `.CR` followed by a byte
  other than LF, a terminator split across calls, and every room
  boundary (0, 1 or 2 bytes left).
- `MCErrors`: codes 550 and 452; enhanced codes zero, 5.1.1, 5.7.11 (a
  two-digit detail) and 1.0.0 (not zero, but no valid class); messages
  empty, one word, two words and `5.5.5 a` (text that itself starts like
  an enhanced code). These reach every branch of `ParseEnhancedCode` and
  `replyToError`.
- About 362k states, 55 s.

**`Text`.**
- Strings of up to 5 characters over a letter, a non-ASCII code point,
  `-`, `.`, `@`, `"`, `\`, space, `<`, `>`, `[` and `]`: one of each class
  the validators tell apart. 5 characters hold `a@a.a`, `"."@a`, `a@[@]`,
  `<a@a>` and a leading space before a path.
- About 3.8M states, 25 s.

**`Dialogue`.**
- Two recipients, five API calls, MaxBdatChunks 1: enough for a dial, a
  STARTTLS upgrade, an AUTH and two whole SendMails, and for a
  transaction whose recipients reach the session's cap.
- Both configs, so SubmitMessage meets STARTTLS and auth on one server
  and a relay without them on the other.
- About 83k states.

## Fairness

**`SmtpServer`.**
- Each goroutine is weakly fair. This covers Serve, each session and each
  watcher separately, because the Go scheduler runs every runnable
  goroutine. A session blocked in `ReadLine` returns at its read deadline,
  or when the watcher closes its connection.
- `wg.Wait` returns once the counter is zero, even if a late `wg.Add`
  raises it again afterwards. `ShutdownDone` is therefore strongly fair.
- Clients dialing and the application's calls are not forced.

**`DotCodec` and `SmtpData`.** The writer (io.Copy, then Close) and the
reader (OnData reading until EOF) are weakly fair, and so is the server's
next step (`handleDATA`'s reply, `handleConn` reading the next line). A
client blocked in `ReadReply` returns once its reply has arrived: this is
weak fairness of `ClientReadReply`, written out as
`[]<>~ReplyWaiting \/ []<><<ClientReadReply>>_allVars`. `ReplyWaiting` is
the state in which the action is enabled; stating it directly keeps TLC
from evaluating the reply parser under `ENABLED` for every state.
Calling `Noop` is the application's choice and is not forced.

**`SmtpDialogue`.** The server loop is weakly fair (its read deadline
ends any wait), and so are the client's steps inside a call, which run
without the application. The application's calls are not forced.

**`SmtpSession`** and **`SmtpText`** check safety only.

## Not modelled, and why

- **Reply text.** In `SmtpSession` and `SmtpDialogue`, `WriteReply`,
  `ReadReply` and `ParseEHLOResponse` are modelled line by line (code,
  separator, one token per line). `SmtpReply` models them character by
  character, with `ParseEnhancedCode`, but only for the end of DATA
  (`SmtpData`). The EHLO parameters (SIZE, the AUTH mechanism list) and
  logging are left out.
- **Address parsing inside the session and the MAIL/RCPT parameters**
  (`SIZE`, `BODY`, `SMTPUTF8`). `SmtpSession` and `SmtpDialogue` reduce
  paths to parse outcomes; `SmtpText` checks the parsing itself. Length
  limits (64, 63, 255) are beyond the 5-character bound.
- **Enhanced codes outside DATA.** `SmtpSession` and `SmtpDialogue` carry
  reply text as tokens; `EnhancedCode.String`, `ParseEnhancedCode` and
  `replyToError` are modelled in `SmtpReply`. The `ReplyCode` and
  `EnhancedCode` constants are numbers in the models.
- **Message sizes.** `maxMessageSize` is never enforced for BDAT
  (`bdatBuffer` is unbounded); this is listed as a hazard.
- **TLS handshake.** Its failure only leaves the session to die on its
  next read.
- **Client deadlines.** `SetDeadlineFromContext` is not modelled; a read
  that gives up early is the mutant `ReadEOFEarly`, caught by
  `ReplyMatches`.
- **Oversized command lines.** `ReadLine` fails and the session ends
  silently, while spec §7 asks for 500; the model keeps the code's
  behaviour and no run checks the spec's wording.
- **Session details seen while modelling, with no run spent on them:**
  - STARTTLS keeps `authenticated` (session.go:721), while spec §4.4
    says the upgrade wipes everything but the TLS flag.
  - `handleBDAT` allocates `make([]byte, size)` for any size the client
    names; a huge size panics, and with no `recover` the server exits.
  - The recipient-cap reply pairs 452 with the permanent enhanced code
    5.5.3, against spec §7.
  - `Close` after `Shutdown` closes `quit` twice and panics. The model
    has this path: set `CallSeqs` to `<<"Shutdown", "Close">>` to see it.
  - `Client.Mail("\" \"@a")` writes `MAIL FROM:<" "@a>`. The session cuts
    the path at the space and answers 501 (session.go:286, :333), though
    `ParseMailbox` and spec §3 accept the address. Spec §4.4 also says
    the path ends at the first space, so the spec contradicts itself.
    The `Text` run's alphabet holds both characters.
  - A handler message that starts with `X.Y.Z ` under a zero enhanced
    code (`MCErrors` has `5.5.5 a`) reaches the caller as enhanced code
    5.5.5 with the message `a` (client.go:512). The text on the wire is
    the same either way, and neither spec.md nor a test says which
    reading is right.
  - Commands outside the state table of spec §4.4 get 503 without
    counting toward the invalid-command cap (session.go:264), and
    STARTTLS, VRFY and EXPN run in any state (session.go:698).
  - The shutdown watcher closes the connection of a session idle in
    `ReadLine`, so it exits without the 421 that spec §9 promises
    (session.go:60). `SmtpServer` records this as `exitCause = "dropped"`.
  - `MAIL FROM: <a@b>`, with a space after the colon, records the null
    reverse path: the cut at the first space leaves an empty path, and
    `ParseReversePath("")` is the null path (session.go:286, address.go:100).
    The `Text` run reaches the line.
  - A unit test reaches each of them directly.

## Plan for later sittings

1. The BDAT size limit, with byte counts kept.
2. Client deadlines racing late replies in `SmtpDialogue`.
