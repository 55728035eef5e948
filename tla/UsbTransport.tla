---------------------------- MODULE UsbTransport -----------------------------
(***************************************************************************)
(* Both halves of usb_cdc_transport.c behind the micro-ROS library: the    *)
(* one task that runs the library is inside transport_read or inside       *)
(* transport_write or in neither, and the interrupts of both halves come   *)
(* at any time.  While a write waits for its completion nobody empties the *)
(* receive buffer.                                                         *)
(***************************************************************************)
EXTENDS Integers, Sequences

CONSTANTS
  Size, MaxPacket, MaxRead, Byte,  \* see UsbReceiveRing
  ReadTimeout,                     \* ticks transport_read waits
  WriteTimeout                     \* ticks transport_write waits (100)

VARIABLES
  storage_buffer, it_head, it_tail, rpc, len, readed, relapsed,
  rsent, overrun, ended,
  TxState, g_write_complete, wpc, welapsed, writed, wsent, late

Receive == INSTANCE UsbReceiveRing
             WITH Timeout <- ReadTimeout, pc <- rpc, elapsed <- relapsed,
                  sent <- rsent
Transmit == INSTANCE UsbTransmit
             WITH Timeout <- WriteTimeout, pc <- wpc, elapsed <- welapsed,
                  sent <- wsent

ASSUME TransportAssumption ==
  /\ Receive!SizeAssumption
  /\ Transmit!TimeoutAssumption

rvars == <<storage_buffer, it_head, it_tail, rpc, len, readed, relapsed,
           rsent, overrun, ended>>
wvars == <<TxState, g_write_complete, wpc, welapsed, writed, wsent, late>>
vars  == <<rvars, wvars>>

Init == Receive!Init /\ Transmit!Init

(* The library calls one of the two functions.                             *)
Call ==
  /\ rpc = "idle" /\ wpc = "idle"
  /\ \/ (\E l \in 1 .. MaxRead : Receive!ReadBegin(l)) /\ UNCHANGED wvars
     \/ Transmit!Write /\ UNCHANGED rvars

InRead  == Receive!Read /\ UNCHANGED wvars
InWrite == Transmit!Task /\ UNCHANGED rvars

Interrupt ==
  \/ /\ \E packet \in Receive!Packet : Receive!CDC_Receive_FS(packet)
     /\ UNCHANGED wvars
  \/ /\ Transmit!CDC_TransmitCplt_FS \/ Transmit!UsbReset
     /\ UNCHANGED rvars

Next == Call \/ InRead \/ InWrite \/ Interrupt

Spec == Init /\ [][Next]_vars

(* The task runs; the agent and the host owe nothing.                      *)
FairSpec == Spec /\ WF_vars(InRead) /\ WF_vars(InWrite)

-----------------------------------------------------------------------------
(* Types of both halves, and the one task is in at most one of the calls.  *)
TypeOK ==
  /\ Receive!TypeOK
  /\ Transmit!TypeOK
  /\ rpc = "idle" \/ wpc = "idle"

(* However long writes keep the task from the buffer: see UsbReceiveRing   *)
(* (usb_cdc_transport.c:80-94, 146-152).                                   *)
UnsplicedContent == Receive!UnsplicedContent

(* However the two halves' interrupts interleave: see UsbTransmit          *)
(* (usb_cdc_transport.c:119-137).                                          *)
SuccessMeansSent == Transmit!SuccessMeansSent

(* Every call of the library returns, whatever agent and host do           *)
(* (usb_cdc_transport.c:128, 158).                                         *)
CallReturns == (rpc # "idle" \/ wpc # "idle") ~> (rpc = "idle" /\ wpc = "idle")
=============================================================================
