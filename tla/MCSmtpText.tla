----------------------------- MODULE MCSmtpText -----------------------------
(***************************************************************************)
(* SmtpText for TLC: every address string up to MaxLen over an alphabet    *)
(* holding one character of each class the parsers tell apart.            *)
(***************************************************************************)
EXTENDS SmtpText

\* A letter, a code point above 127 ("U+00E9" stands for it), an atext
\* special that is also a domain character, and each separator the
\* parsers look for.
MCChars == {"a", "U+00E9", "-", ".", "@", "\"", "\\", " ", "<", ">", "[", "]"}
MCAlnum == {"a"}
MCNonASCII == {"U+00E9"}

=============================================================================
