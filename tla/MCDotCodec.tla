----------------------------- MODULE MCDotCodec -----------------------------
EXTENDS DotCodec

\* A caller may read one byte at a time, or through small buffers.
MCReadSizes == {1, 2, 3}
====
