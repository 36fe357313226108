--------------------------- MODULE MCSmtpSession ---------------------------
(***************************************************************************)
(* Model-checking instance of SmtpSession.                                 *)
(***************************************************************************)
EXTENDS SmtpSession

\* Lines that a handler treats exactly like another line of the set are
\* left out: HELO without a name (as EHLO without one), MAIL FROM:<> (as a
\* mailbox), an unknown mechanism (as a malformed PLAIN initial response),
\* chunk bytes read as a command (as any other unknown verb, B64).
MCClientLines ==
  AllLines \ {[verb |-> "HELO", arg |-> ""], [verb |-> "MAIL", arg |-> "null"],
               [verb |-> "AUTH", arg |-> "OTHER"],
               [verb |-> "CHUNK", arg |-> ""]}

\* A submission server (RFC 6409): STARTTLS, AUTH and a VRFY handler
\* configured, MAIL refused before AUTH; and a relay with none of them, on
\* which every extension command takes its "not available" path.
MCSubmission == [tls |-> TRUE, auth |-> TRUE, vrfy |-> TRUE, submission |-> TRUE]
MCRelay == [tls |-> FALSE, auth |-> FALSE, vrfy |-> FALSE, submission |-> FALSE]
MCConfigs == {MCSubmission, MCRelay}
\* STARTTLS and AUTH without VRFY or submission mode.
MCTLSAuth == {[tls |-> TRUE, auth |-> TRUE, vrfy |-> FALSE, submission |-> FALSE]}

=============================================================================
