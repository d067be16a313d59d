------------------------ MODULE MCByteArrayProvider ------------------------
(* ByteArrayProvider for TLC: two-byte calls and an int that wraps at 8.    *)
EXTENDS ByteArrayProvider

MCOffsets == {-3, -1, 0, 2, 7}
=============================================================================
