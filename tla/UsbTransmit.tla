---------------------------- MODULE UsbTransmit -----------------------------
(***************************************************************************)
(* The transmit half of the micro-ROS transport (usb_cdc_transport.c):     *)
(* transport_write hands the caller's buffer to the USB stack and waits    *)
(* for the completion interrupt to set g_write_complete, at most           *)
(* WRITE_TIMEOUT_MS.  The flag is cleared only after the wait, so that a   *)
(* completion that comes after a timeout is found by the next write.       *)
(***************************************************************************)
EXTENDS Naturals

CONSTANT Timeout   \* WRITE_TIMEOUT_MS in ticks (100)

TimeoutAssumption == Timeout \in Nat

VARIABLES
  TxState,           \* hcdc->TxState # 0: the stack holds a buffer
  g_write_complete,
  pc,                \* "idle", "wait", "result", "clear"
  elapsed,           \* uxr_millis() - start
  writed,            \* "len" or "0": the value transport_write returns
  sent,              \* history: the current write's buffer was sent
  late               \* history: a write returned with its buffer still held

vars == <<TxState, g_write_complete, pc, elapsed, writed, sent, late>>

Init ==
  /\ TxState = FALSE
  /\ g_write_complete = FALSE
  /\ pc = "idle"
  /\ elapsed = 0
  /\ writed = "0"
  /\ sent = FALSE
  /\ late = FALSE

(* CDC_Transmit_FS: refused while the stack still holds a buffer.          *)
Write ==
  /\ pc = "idle"
  /\ IF TxState
       THEN /\ writed' = "0"
            /\ UNCHANGED <<TxState, sent, elapsed, pc>>
       ELSE /\ TxState' = TRUE
            /\ sent' = FALSE
            /\ elapsed' = 0
            /\ pc' = "wait"
            /\ UNCHANGED writed
  /\ UNCHANGED <<g_write_complete, late>>

(* Seeded fault: the loop goes on one delay too long.                      *)
DelayOnceMore ==
  /\ pc = "wait"
  /\ ~g_write_complete
  /\ elapsed <= Timeout
  /\ elapsed' = elapsed + 1
  /\ UNCHANGED <<TxState, g_write_complete, pc, writed, sent, late>>

(* Seeded fault: the start of the wait is taken anew on every pass.        *)
DelayRestarts ==
  /\ pc = "wait"
  /\ ~g_write_complete
  /\ elapsed < Timeout
  /\ elapsed' = 0
  /\ UNCHANGED <<TxState, g_write_complete, pc, writed, sent, late>>

(* One pass of the waiting loop, with its delay of a millisecond.          *)
Delay ==
  /\ pc = "wait"
  /\ ~g_write_complete
  /\ elapsed < Timeout
  /\ elapsed' = elapsed + 1
  /\ UNCHANGED <<TxState, g_write_complete, pc, writed, sent, late>>

LeaveLoop ==
  /\ pc = "wait"
  /\ g_write_complete \/ elapsed >= Timeout
  /\ pc' = "result"
  /\ UNCHANGED <<TxState, g_write_complete, elapsed, writed, sent, late>>

Result ==
  /\ pc = "result"
  /\ writed' = IF g_write_complete THEN "len" ELSE "0"
  /\ pc' = "clear"
  /\ UNCHANGED <<TxState, g_write_complete, elapsed, sent, late>>

(* Seeded fault: the flag is not cleared.                                  *)
ReturnUncleared ==
  /\ pc = "clear"
  /\ late' = (late \/ TxState)
  /\ pc' = "idle"
  /\ UNCHANGED <<TxState, g_write_complete, elapsed, writed, sent>>

Return ==
  /\ pc = "clear"
  /\ g_write_complete' = FALSE
  /\ late' = (late \/ TxState)
  /\ pc' = "idle"
  /\ UNCHANGED <<TxState, elapsed, writed, sent>>

Task == Delay \/ LeaveLoop \/ Result \/ Return

(* The stack's DataIn handler: TxState first, then CDC_TransmitCplt_FS.    *)
CDC_TransmitCplt_FS ==
  /\ TxState
  /\ TxState' = FALSE
  /\ g_write_complete' = TRUE
  /\ sent' = TRUE
  /\ UNCHANGED <<pc, elapsed, writed, late>>

(* The host resets the device: the buffer is let go, no completion comes.  *)
UsbReset ==
  /\ TxState
  /\ TxState' = FALSE
  /\ UNCHANGED <<g_write_complete, pc, elapsed, writed, sent, late>>

Next == Write \/ Task \/ CDC_TransmitCplt_FS \/ UsbReset

Spec == Init /\ [][Next]_vars

-----------------------------------------------------------------------------
(* Types; the time waited never exceeds the limit of the loop.             *)
TypeOK ==
  /\ TxState \in BOOLEAN
  /\ g_write_complete \in BOOLEAN
  /\ pc \in {"idle", "wait", "result", "clear"}
  /\ elapsed \in 0 .. Timeout
  /\ writed \in {"0", "len"}
  /\ sent \in BOOLEAN
  /\ late \in BOOLEAN

(* While no write has returned with its buffer still in the stack, a write *)
(* that reports len has sent its own buffer, and the caller may reuse it   *)
(* (usb_cdc_transport.c:119-137).  One late completion is enough to make   *)
(* later writes report success at once.                                    *)
SuccessMeansSent ==
  ~late /\ pc = "clear" /\ writed = "len" => sent
=============================================================================
