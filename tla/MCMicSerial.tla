----------------------------- MODULE MCMicSerial -----------------------------
(* Frames of four bytes; a wrong length is by chance right, one too long,  *)
(* or too long for the buffer.                                             *)
EXTENDS MicSerial

MCLengths == {4, 5, 10}
=============================================================================
