--------------------------- MODULE MailTransaction ---------------------------
(***************************************************************************)
(* What a server session promises about mail transactions (spec.md §4.4),  *)
(* without commands, replies or buffers: a transaction is opened (MAIL),   *)
(* collects recipients up to MaxRecipients (RCPT), and ends either by      *)
(* being abandoned (RSET, EHLO/HELO, STARTTLS, a failed body) or by the    *)
(* delivery of a message to exactly its recipients.  In submission mode a  *)
(* transaction opens only after authentication, which is never taken back  *)
(* by this implementation.                                                 *)
(***************************************************************************)
EXTENDS Naturals

CONSTANT MaxRecipients

VARIABLES
  submission,  \* the server requires AUTH before MAIL (fixed)
  authed,      \* the client has authenticated
  open,        \* a mail transaction is open
  rcpts,       \* recipients of the open transaction
  delivered    \* recipients of the last delivered message (0: none yet)

vars == <<submission, authed, open, rcpts, delivered>>

Init ==
  /\ submission \in BOOLEAN
  /\ authed = FALSE
  /\ open = FALSE
  /\ rcpts = 0
  /\ delivered = 0

Authenticate ==
  /\ ~open
  /\ authed' = TRUE
  /\ UNCHANGED <<submission, open, rcpts, delivered>>

Open ==
  /\ ~open
  /\ submission => authed
  /\ open' = TRUE
  /\ rcpts' = 0
  /\ UNCHANGED <<submission, authed, delivered>>

AddRecipient ==
  /\ open
  /\ rcpts < MaxRecipients
  /\ rcpts' = rcpts + 1
  /\ UNCHANGED <<submission, authed, open, delivered>>

Abandon ==
  /\ open
  /\ open' = FALSE
  /\ rcpts' = 0
  /\ UNCHANGED <<submission, authed, delivered>>

Deliver ==
  /\ open
  /\ rcpts > 0
  /\ delivered' = rcpts
  /\ open' = FALSE
  /\ rcpts' = 0
  /\ UNCHANGED <<submission, authed>>

Next == Authenticate \/ Open \/ AddRecipient \/ Abandon \/ Deliver

Spec == Init /\ [][Next]_vars

=============================================================================
