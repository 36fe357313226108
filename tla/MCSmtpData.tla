------------------------------ MODULE MCSmtpData ------------------------------
EXTENDS SmtpData

\* SMTPErrors an OnData handler may return: a permanent and a transient code;
\* no enhanced code, the library's 5.1.1 and 5.7.11 (a two-digit detail),
\* and 1.0.0, which is not zero but has no valid class; an empty message,
\* a word, two words, and a text that itself starts with an enhanced code.
MCErrors ==
  [code : {550, 452},
   enh  : {<<0, 0, 0>>, <<5, 1, 1>>, <<5, 7, 11>>, <<1, 0, 0>>},
   msg  : {<<>>, <<"a">>, <<"a", " ", "a">>,
           <<"5", ".", "5", ".", "5", " ", "a">>}]

\* A handler message of two lines.
MCMultiline == {[code |-> 550, enh |-> <<5, 1, 1>>, msg |-> <<"a", "LF", "a">>]}

\* A caller may read one byte at a time, or through small buffers.
MCReadSizes == {1, 2, 3}
====
