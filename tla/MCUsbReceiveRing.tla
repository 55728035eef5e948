-------------------------- MODULE MCUsbReceiveRing --------------------------
(* A buffer of five bytes, packets of up to three: packets start and end   *)
(* at every place of the buffer, cross its end, and may overrun the task.  *)
EXTENDS UsbReceiveRing
=============================================================================
