------------------------------ MODULE SmtpReply ------------------------------
(***************************************************************************)
(* SMTP replies on the server-to-client direction of one connection: the  *)
(* line session.reply builds from a reply code, an enhanced status code    *)
(* and a message (smtpserver/session.go), Conn.WriteReply and              *)
(* Conn.ReadReply (internal/textproto/conn.go), and the SMTPError the      *)
(* client's replyToError makes of what it read (smtpclient/client.go).     *)
(*                                                                         *)
(* Text is a sequence of one-character strings; CR and LF are named.       *)
(* Numbers are rendered and parsed digit by digit, as fmt's %d and         *)
(* strconv.Atoi do.  The module is a component: a specification that      *)
(* instantiates it supplies the commands the replies answer.              *)
(***************************************************************************)
EXTENDS Integers, Sequences, SequencesExt, FiniteSets

VARIABLES
  s2c,      \* bytes written by the server and not yet read by the client
  meant,    \* the replies the server wrote in answer to the client's calls
  results   \* what each of the client's calls returned, in call order

replyVars == <<s2c, meant, results>>

CR == "CR"
LF == "LF"
SP == " "

DigitChar(d) == <<"0", "1", "2", "3", "4", "5", "6", "7", "8", "9">>[d + 1]

IsDigit(c) == \E d \in 0..9 : DigitChar(d) = c

\* fmt's %d of a non-negative int.
RECURSIVE Itoa(_)
Itoa(n) == IF n < 10 THEN <<DigitChar(n)>>
           ELSE Itoa(n \div 10) \o <<DigitChar(n % 10)>>

\* The value of a run of decimal digits.
RECURSIVE DecimalValue(_)
DecimalValue(ds) ==
  IF ds = <<>> THEN 0
  ELSE 10 * DecimalValue(Front(ds)) + (CHOOSE d \in 0..9 : DigitChar(d) = Last(ds))

\* strconv.Atoi: an optional sign, then one or more decimal digits.
Atoi(s) ==
  LET signed == s # <<>> /\ s[1] \in {"+", "-"}
      ds     == IF signed THEN Tail(s) ELSE s
  IN IF ds # <<>> /\ \A i \in 1..Len(ds) : IsDigit(ds[i])
       THEN [ok |-> TRUE,
             n  |-> IF signed /\ s[1] = "-" THEN -DecimalValue(ds) ELSE DecimalValue(ds)]
       ELSE [ok |-> FALSE, n |-> 0]

(***************************************************************************)
(* Enhanced status codes (enhancedcode.go) are triples <<class, subject,   *)
(* detail>>; the zero triple means "none".                                 *)
(***************************************************************************)
ZeroCode == <<0, 0, 0>>

IsZero(e) == e = ZeroCode

\* EnhancedCode.String: "X.Y.Z".
EnhString(e) == Itoa(e[1]) \o <<".">> \o Itoa(e[2]) \o <<".">> \o Itoa(e[3])

\* The text session.reply writes under the code: "X.Y.Z msg", or msg.
ReplyText(enh, msg) ==
  IF ~IsZero(enh) THEN EnhString(enh) \o <<SP>> \o msg ELSE msg

(***************************************************************************)
(* The wire.                                                               *)
(***************************************************************************)

WriteReplyAllDash(code, lines) ==
  LET ls == IF lines = <<>> THEN <<<<>>>> ELSE lines
  IN FlattenSeq([i \in 1..Len(ls) |-> Itoa(code) \o <<"-">> \o ls[i] \o <<CR, LF>>])

\* Conn.WriteReply: "code-text" on every line but the last, "code text" on
\* the last, each ended by CRLF; no lines is one empty line.
WriteReply(code, lines) ==
  LET ls == IF lines = <<>> THEN <<<<>>>> ELSE lines
      Sep(i) == IF i < Len(ls) THEN "-" ELSE SP
  IN FlattenSeq([i \in 1..Len(ls) |-> Itoa(code) \o <<Sep(i)>> \o ls[i] \o <<CR, LF>>])

\* Conn.ReadLine over bufio.Reader.ReadLine: the bytes before the first LF,
\* without a CR just before it; while no LF has arrived the read blocks.
ReadLine(w) ==
  LET i   == SelectInSeq(w, LAMBDA c : c = LF)
      raw == SubSeq(w, 1, i - 1)
  IN IF i = 0
       THEN [blocked |-> TRUE, line |-> <<>>, rest |-> w]
       ELSE [blocked |-> FALSE,
             line |-> IF raw # <<>> /\ Last(raw) = CR THEN Front(raw) ELSE raw,
             rest |-> SubSeq(w, i + 1, Len(w))]

\* A line that Conn.ReadReply's loop reads past: a code, then "-".
Continues(line) ==
  Len(line) > 3 /\ line[4] = "-" /\ Atoi(SubSeq(line, 1, 3)).ok

\* The positions of the LFs in the bytes w, in order.
LineEnds(w) == SetToSortSeq({i \in 1..Len(w) : w[i] = LF}, <)

\* The lines Conn.ReadLine returns from the bytes w, one per LF in w.
LinesOf(w) ==
  LET ends == LineEnds(w)
      From(k) == IF k = 1 THEN 1 ELSE ends[k - 1] + 1
  IN [k \in 1..Len(ends) |-> ReadLine(SubSeq(w, From(k), Len(w))).line]

\* The number of the line that ends Conn.ReadReply's loop, or 0 while it
\* has not arrived.
StopOf(L) == SelectInSeq(L, LAMBDA l : ~Continues(l))

\* Conn.ReadReply, given the lines L of w and the line stop that ends its
\* loop: that line's code is the reply's, or it is an error (too short,
\* not a number, a bad separator); the rest is what is left unread.  While
\* no line ends the loop, the read blocks.
ReplyOf(w, L, stop) ==
  LET last  == L[stop]
      code  == Atoi(SubSeq(last, 1, 3))
      rest  == SubSeq(w, LineEnds(w)[stop] + 1, Len(w))
  IN CASE stop = 0 ->
            [kind |-> "blocked", code |-> 0, lines |-> <<>>, rest |-> w]
       [] Len(last) < 3 \/ ~code.ok \/ (Len(last) > 3 /\ last[4] # SP) ->
            [kind |-> "error", code |-> 0, lines |-> <<>>, rest |-> rest]
       [] OTHER ->
            [kind |-> "reply", code |-> code.n,
             lines |-> [k \in 1..stop |-> SubSeq(L[k], 5, Len(L[k]))],
             rest |-> rest]

(***************************************************************************)
(* The client's view of a reply.                                           *)
(***************************************************************************)

\* textproto.ParseEnhancedCode: the text up to the first space must split
\* on "." into three integers with a class from 2 to 5.
ParseEnhancedCode(text) ==
  LET sp   == SelectInSeq(text, LAMBDA c : c = SP)
      code == IF sp = 0 THEN text ELSE SubSeq(text, 1, sp - 1)
      rest == IF sp = 0 THEN <<>> ELSE SubSeq(text, sp + 1, Len(text))
      dots == {i \in 1..Len(code) : code[i] = "."}
      seg  == <<SubSeq(code, 1, Min(dots) - 1),
                SubSeq(code, Min(dots) + 1, Max(dots) - 1),
                SubSeq(code, Max(dots) + 1, Len(code))>>
      n    == [k \in 1..3 |-> Atoi(seg[k])]
      None == [enh |-> ZeroCode, rest |-> text]
  IN CASE Cardinality(dots) # 2        -> None
       [] \E k \in 1..3 : ~n[k].ok     -> None
       [] n[1].n < 2 \/ n[1].n > 5     -> None
       [] OTHER -> [enh |-> <<n[1].n, n[2].n, n[3].n>>, rest |-> rest]

\* strings.Join(lines, "\n")
JoinLines(ls) ==
  FlattenSeq([i \in 1..Len(ls) |-> IF i = 1 THEN ls[i] ELSE <<LF>> \o ls[i]])

ReplyToErrorKeepPrefix(reply) ==
  LET p == ParseEnhancedCode(reply.lines[1])
  IN [code |-> reply.code,
      enh  |-> IF p.enh[1] # 0 THEN p.enh ELSE ZeroCode,
      msg  |-> JoinLines(reply.lines)]

\* replyToError: the enhanced code of the first line, if any; the message
\* is all lines joined, or the first line's rest when it is the only one.
replyToError(reply) ==
  LET p     == ParseEnhancedCode(reply.lines[1])
      found == p.enh[1] # 0
  IN [code |-> reply.code,
      enh  |-> IF found THEN p.enh ELSE ZeroCode,
      msg  |-> IF found /\ Len(reply.lines) = 1 THEN p.rest
               ELSE JoinLines(reply.lines)]

\* What a client method returns for the outcome r of its ReadReply: the
\* read error, nil on the code it expects, else the SMTPError.
CallResult(r, expect) ==
  CASE r.kind = "error" ->
         [kind |-> "io", code |-> 0, enh |-> ZeroCode, msg |-> <<>>]
    [] r.code = expect ->
         [kind |-> "nil", code |-> r.code, enh |-> ZeroCode, msg |-> <<>>]
    [] OTHER ->
         LET e == replyToError(r)
         IN [kind |-> "smtp", code |-> e.code, enh |-> e.enh, msg |-> e.msg]

(***************************************************************************)
(* Actions.                                                                *)
(***************************************************************************)

\* session.reply(code, enhanced, msg): one WriteReply line.  forCall tells
\* whether the line answers a call of the client or a line the client did
\* not send as a command.
Reply(code, enh, msg, forCall) ==
  /\ s2c' = s2c \o WriteReply(code, <<ReplyText(enh, msg)>>)
  /\ meant' = IF forCall
                THEN Append(meant, [code |-> code, enh |-> enh, msg |-> msg])
                ELSE meant
  /\ UNCHANGED results

\* The client's ReadReply for its pending call returns, and so does the
\* method, with CallResult.  The lines, the line that ends the loop and the
\* reply are bound one after the other so that each is computed once.
ClientRead(expect) ==
  \E L \in {LinesOf(s2c)} : \E stop \in {StopOf(L)} :
  \E r \in {ReplyOf(s2c, L, stop)} :
     /\ r.kind # "blocked"
     /\ s2c' = r.rest
     /\ results' = Append(results, CallResult(r, expect))
     /\ UNCHANGED meant

ReplyInit == s2c = <<>> /\ meant = <<>> /\ results = <<>>

(***************************************************************************)
(* Properties, for the specifications that instantiate this module.       *)
(***************************************************************************)

\* What a call expecting 250 should return for the reply m meant for it,
\* and what it did return, both seen as the code and the text on the wire.
Outcome(m) ==
  IF m.code = 250 THEN [kind |-> "nil"]
  ELSE [kind |-> "smtp", code |-> m.code, text |-> ReplyText(m.enh, m.msg)]

Observed(res) ==
  IF res.kind = "smtp"
    THEN [kind |-> "smtp", code |-> res.code, text |-> ReplyText(res.enh, res.msg)]
    ELSE [kind |-> res.kind]

\* Every call returns the reply the server wrote for it, in call order: a
\* reply with the code meant for that call (WriteReply and ReadReply keep
\* the two directions in step); for a message of one line, the same code
\* and text on the wire; and when the handler gave an enhanced code of a
\* valid class, the SMTPError carries that enhanced code and the handler's
\* own message: replyToError takes off the "X.Y.Z " prefix session.reply
\* put on, and nothing else.
CallsGetTheirReply ==
  \A i \in 1..Len(results) :
    /\ i <= Len(meant)
    /\ results[i].code = meant[i].code
    /\ LF \notin ToSet(meant[i].msg) =>
         /\ Observed(results[i]) = Outcome(meant[i])
         /\ results[i].kind = "smtp" /\ meant[i].enh[1] \in 2..5 =>
              results[i].enh = meant[i].enh /\ results[i].msg = meant[i].msg

=============================================================================
