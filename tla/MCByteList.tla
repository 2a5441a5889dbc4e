---------------------------- MODULE MCByteList ----------------------------
\* Two lists in a memory of four nodes; one chunk, which may be set to zero.
EXTENDS ByteList

MCAppended == {<<1>>}
=============================================================================
