------------------------------ MODULE SmtpText ------------------------------
(***************************************************************************)
(* The text of the MAIL and RCPT paths, from the client's line to the path *)
(* the session records: Client.Mail / Client.Rcpt format the line, the     *)
(* session's parseCommand splits off the verb, handleMAIL / handleRCPT cut *)
(* the path out of the arguments, and smtp.ParseReversePath /              *)
(* ParseForwardPath / ParseMailbox (address.go) parse it.                  *)
(*                                                                         *)
(* A string is a sequence of characters, each a one-character string of   *)
(* the small alphabet Chars.  The fixed words of a line ("MAIL", "FROM:",  *)
(* a parameter such as "SIZE=10") are single tokens outside Chars: the     *)
(* code only compares them, upper-cased, as a whole.                       *)
(***************************************************************************)
EXTENDS Naturals, Sequences, SequencesExt

CONSTANTS
  Chars,     \* the characters an address string may hold
  Alnum,     \* those of them that are ASCII letters or digits
  NonASCII,  \* those of them that stand for code points above 127
  MaxLen     \* bound: the length of the address string

ASSUME Alnum \cup NonASCII \subseteq Chars

VARIABLES
  verb,    \* "MAIL" or "RCPT": the command sent
  from,    \* the address string: Client.Mail's from, Client.Rcpt's to
  wire,    \* the command line the session reads; <<>> until it is written
  read,    \* the session has handled the line
  parsed   \* the path the session recorded (meaningful once read)

vars == <<verb, from, wire, read, parsed>>

(***************************************************************************)
(* address.go                                                              *)
(***************************************************************************)

\* isAtext, isDotAtomChar, isDomainChar.  The backquote, also an atext
\* special, cannot be written in a TLA+ string and no run uses it.
AtextSpecials ==
  {"!", "#", "$", "%", "&", "'", "*", "+", "-", "/", "=", "?", "^", "_",
   "{", "|", "}", "~"}
isAtext(c) == c \in Alnum \/ c \in AtextSpecials
isDotAtomChar(c) == c = "." \/ isAtext(c)
isDomainChar(c) == c \in Alnum \/ c = "-" \/ c \in NonASCII

validateDotAtomNoEdgeDots(s) ==
  /\ s # <<>>
  /\ ~\E i \in 1..(Len(s) - 1) : s[i] = "." /\ s[i + 1] = "."
  /\ \A i \in 1..Len(s) : isDotAtomChar(s[i])

validateDotAtom(s) ==
  /\ s # <<>>
  /\ s[1] # "." /\ Last(s) # "."
  /\ ~\E i \in 1..(Len(s) - 1) : s[i] = "." /\ s[i + 1] = "."
  /\ \A i \in 1..Len(s) : isDotAtomChar(s[i])

\* The loop over the quoted content: a backslash escapes the next
\* character and must not be last; an unescaped quote is an error.
RECURSIVE validateQuotedLocalPart(_)
validateQuotedLocalPart(s) ==
  \/ s = <<>>
  \/ /\ Head(s) = "\\"
     /\ Len(s) >= 2
     /\ validateQuotedLocalPart(Tail(Tail(s)))
  \/ /\ Head(s) \notin {"\\", "\""}
     /\ validateQuotedLocalPart(Tail(s))

validateLocalPart(l) ==
  /\ l # <<>>
  /\ Len(l) <= 64
  /\ IF Len(l) >= 2 /\ l[1] = "\"" /\ Last(l) = "\""
       THEN validateQuotedLocalPart(SubSeq(l, 2, Len(l) - 1))
       ELSE validateDotAtom(l)

\* strings.Split(s, ".").
RECURSIVE SplitDots(_)
SplitDots(s) ==
  LET i == SelectInSeq(s, LAMBDA x : x = ".") IN
  IF i = 0 THEN <<s>>
  ELSE <<SubSeq(s, 1, i - 1)>> \o SplitDots(SubSeq(s, i + 1, Len(s)))

\* An address literal is accepted with anything between the brackets;
\* utf8.ValidString holds of every model string.
validateDomain(d) ==
  /\ d # <<>>
  /\ Len(d) <= 255
  /\ IF d[1] = "["
       THEN Last(d) = "]"
       ELSE /\ d[1] # "." /\ Last(d) # "."
            /\ \A label \in ToSet(SplitDots(d)) :
                 /\ label # <<>>
                 /\ Len(label) <= 63
                 /\ label[1] # "-" /\ Last(label) # "-"
                 /\ \A i \in 1..Len(label) : isDomainChar(label[i])

\* A path: the null path, a mailbox, or a parse error (ok = FALSE).
Path(ok, null, local, domain) ==
  [ok |-> ok, null |-> null, local |-> local, domain |-> domain]
BadPath  == Path(FALSE, FALSE, <<>>, <<>>)
NullPath == Path(TRUE, TRUE, <<>>, <<>>)

\* ParseMailbox: split at the LAST "@"; neither side may be empty.
ParseMailbox(s) ==
  LET at     == SelectLastInSeq(s, LAMBDA x : x = "@")
      local  == SubSeq(s, 1, at - 1)
      domain == SubSeq(s, at + 1, Len(s))
  IN IF /\ s # <<>>
        /\ at > 1 /\ at < Len(s)
        /\ validateLocalPart(local)
        /\ validateDomain(domain)
       THEN Path(TRUE, FALSE, local, domain)
       ELSE BadPath

\* strings.TrimSpace (the space is the only white space of Chars).
TrimSpace(s) ==
  LET kept == {i \in 1..Len(s) : s[i] # " "} IN
  IF kept = {} THEN <<>> ELSE SubSeq(s, Min(kept), Max(kept))

\* The angle brackets are stripped when the string starts with "<" and
\* ends with ">".
UnbracketKeepClose(t) ==
  IF Len(t) >= 1 /\ t[1] = "<" /\ Last(t) = ">"
    THEN SubSeq(t, 2, Len(t)) ELSE t

Unbracket(t) ==
  IF Len(t) >= 1 /\ t[1] = "<" /\ Last(t) = ">"
    THEN SubSeq(t, 2, Len(t) - 1) ELSE t

\* ParseReversePath: "<>", and an empty string inside or without
\* brackets, are the null path.
ParseReversePath(s) ==
  LET t == TrimSpace(s) IN
  CASE t = <<"<", ">">>      -> NullPath
    [] Unbracket(t) = <<>>   -> NullPath
    [] OTHER                 -> ParseMailbox(Unbracket(t))

ParseForwardPath(s) ==
  LET inner == Unbracket(TrimSpace(s)) IN
  IF inner = <<>> THEN BadPath ELSE ParseMailbox(inner)

\* Mailbox.String: local "@" domain; the zero mailbox prints as "".
MailboxString(p) ==
  IF p.local = <<>> /\ p.domain = <<>> THEN <<>>
  ELSE p.local \o <<"@">> \o p.domain

(***************************************************************************)
(* The command line, from the client to the session.                       *)
(***************************************************************************)

Keyword == [MAIL |-> "FROM:", RCPT |-> "TO:"]

\* Client.Mail: "MAIL FROM:<%s>", then each option after a space;
\* Client.Rcpt: "RCPT TO:<%s>" and its options.  One option stands for all.
CommandLine(v, addr, withOpt) ==
  <<v, " ", Keyword[v], "<">> \o addr \o <<">">>
  \o (IF withOpt THEN <<" ", "PARAM">> ELSE <<>>)

\* strings.Cut(s, sep).
Cut(s, sep) ==
  LET i == SelectInSeq(s, LAMBDA x : x = sep) IN
  IF i = 0 THEN [before |-> s, after |-> <<>>]
  ELSE [before |-> SubSeq(s, 1, i - 1), after |-> SubSeq(s, i + 1, Len(s))]

\* parseCommand: the verb is the text before the first space.
parseCommand(line) == Cut(line, " ")

\* handleMAIL / handleRCPT past their state checks: the arguments must
\* start with FROM: / TO: (else 501), the path is what follows up to the
\* first space, trimmed, and a parse error is 501 too.
ArgPath(v, args) ==
  IF args = <<>> \/ args[1] # Keyword[v] THEN BadPath
  ELSE LET pathStr == TrimSpace(Cut(Tail(args), " ").before) IN
       IF v = "MAIL" THEN ParseReversePath(pathStr)
                     ELSE ParseForwardPath(pathStr)

\* The path a session records for a command line.
SessionPath(line) ==
  LET c == parseCommand(line) IN ArgPath(Head(c.before), c.after)

(***************************************************************************)
(* Actions.                                                                *)
(***************************************************************************)

Init ==
  /\ verb \in {"MAIL", "RCPT"}
  /\ from \in BoundedSeq(Chars, MaxLen)
  /\ wire = <<>>
  /\ read = FALSE
  /\ parsed = BadPath

\* Client.Mail(from, opts...) / Client.Rcpt(to, opts...) writes its line;
\* the address string is not checked.
ClientSend ==
  /\ wire = <<>>
  /\ \E withOpt \in BOOLEAN : wire' = CommandLine(verb, from, withOpt)
  /\ UNCHANGED <<verb, from, read, parsed>>

\* Another client writes the verb, the keyword and its own text after it.
RawSend ==
  /\ wire = <<>>
  /\ wire' = <<verb, " ", Keyword[verb]>> \o from
  /\ UNCHANGED <<verb, from, read, parsed>>

\* The session reads the line and handles it.
SessionRead ==
  /\ wire # <<>>
  /\ ~read
  /\ read' = TRUE
  /\ parsed' = SessionPath(wire)
  /\ UNCHANGED <<verb, from, wire>>

Next == ClientSend \/ RawSend \/ SessionRead

Spec == Init /\ [][Next]_vars

(***************************************************************************)
(* Properties.                                                             *)
(***************************************************************************)

\* The Mailbox of spec.md §3 as a grammar: a dot-atom is atoms joined by
\* single dots, a quoted string holds characters other than quote and
\* backslash or backslash pairs, a DNS name is labels joined by single
\* dots, a literal is "[...]".
RECURSIVE SpecDotAtom(_)
SpecDotAtom(s) ==
  \E k \in 1..Len(s) :
    /\ \A i \in 1..k : isAtext(s[i])
    /\ \/ k = Len(s)
       \/ s[k + 1] = "." /\ SpecDotAtom(SubSeq(s, k + 2, Len(s)))

RECURSIVE SpecQuoted(_)
SpecQuoted(s) ==
  \/ s = <<>>
  \/ Head(s) \notin {"\"", "\\"} /\ SpecQuoted(Tail(s))
  \/ Len(s) >= 2 /\ Head(s) = "\\" /\ SpecQuoted(Tail(Tail(s)))

SpecLabel(l) ==
  /\ \A i \in 1..Len(l) : l[i] \in Alnum \cup {"-"} \cup NonASCII
  /\ 1 <= Len(l) /\ Len(l) <= 63
  /\ l[1] # "-" /\ Last(l) # "-"

RECURSIVE SpecDNSName(_)
SpecDNSName(d) ==
  \E k \in 1..Len(d) :
    /\ SpecLabel(SubSeq(d, 1, k))
    /\ \/ k = Len(d)
       \/ d[k + 1] = "." /\ SpecDNSName(SubSeq(d, k + 2, Len(d)))

SpecMailbox(l, d) ==
  /\ \/ SpecDotAtom(l) /\ Len(l) <= 64
     \/ Len(l) >= 2 /\ l[1] = "\"" /\ Last(l) = "\""
        /\ SpecQuoted(SubSeq(l, 2, Len(l) - 1))
  /\ \/ SpecDNSName(d) /\ Len(d) <= 255
     \/ Len(d) >= 2 /\ d[1] = "[" /\ Last(d) = "]"

\* Whatever line a client writes, a mailbox the session records (for
\* OnMail / OnRcpt and the transaction) is a Mailbox of spec.md §3: the
\* validators of address.go reject every string outside the grammar.
AcceptedPathSpecValid ==
  read /\ parsed.ok /\ ~parsed.null => SpecMailbox(parsed.local, parsed.domain)

\* A path the session recorded, handed on as a relay does (its
\* Mailbox.String() given to Client.Mail / Client.Rcpt, with or without
\* options), is recorded identically by the next session: the wire form
\* and the parser agree on every path the parser produces.
RelayRoundTrip ==
  read /\ parsed.ok =>
    \A withOpt \in BOOLEAN :
      SessionPath(CommandLine(verb, MailboxString(parsed), withOpt)) = parsed

=============================================================================
