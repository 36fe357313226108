--------------------------- MODULE MCSmtpDialogue ---------------------------
(***************************************************************************)
(* Model-checking instance of SmtpDialogue.                                *)
(***************************************************************************)
EXTENDS SmtpDialogue

\* A submission server (STARTTLS, AUTH, MAIL refused before AUTH) and a
\* relay with none of these options.
MCConfigs ==
  {[tls |-> TRUE, auth |-> TRUE, vrfy |-> FALSE, submission |-> TRUE],
   [tls |-> FALSE, auth |-> FALSE, vrfy |-> FALSE, submission |-> FALSE]}

\* The Client methods: an operation name stands for the method that runs
\* only it (Mail, Rcpt, Data, Bdat, Bdat(last), Reset, Noop, StartTLS, Auth).
MCCalls == {"MAIL", "RCPT", "DATA", "BDAT", "BDATLAST", "RSET", "NOOP",
            "STARTTLS", "AUTH", "SendMail", "SubmitMessage", "Close"}

\* The same without Bdat: a rejected BDAT leaves its chunk to the server's
\* command loop (run DialogueBdatReject), which every later call then sees.
MCCallsNoBdat == MCCalls \ {"BDAT", "BDATLAST"}

MCMechs == {"PLAIN", "LOGIN", "CRAM-MD5"}

\* No fault, the message reader of Data failing.
MCNoFaults == {{}}
MCCopyFaults == {{"copy"}}

=============================================================================
