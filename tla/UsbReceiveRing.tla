--------------------------- MODULE UsbReceiveRing ---------------------------
(***************************************************************************)
(* The receive half of the micro-ROS transport (usb_cdc_transport.c): the  *)
(* USB interrupt copies each packet of the agent into storage_buffer at    *)
(* it_tail, the task's transport_read takes bytes from it_head.  The two   *)
(* share the buffer and the indices with no lock, and the interrupt never  *)
(* looks at it_head.                                                       *)
(*                                                                         *)
(* it_head is reduced modulo the size; it_tail is not: a packet that ends  *)
(* exactly at the end of the buffer leaves it_tail = Size, a value it_head *)
(* never takes.  A packet that crosses the end is copied in two sections,  *)
(* both from the START of the packet.                                      *)
(***************************************************************************)
EXTENDS Integers, Sequences

CONSTANTS
  Size,            \* USB_BUFFER_SIZE (2048)
  MaxPacket,       \* bytes in a full-speed bulk packet (64)
  MaxRead,         \* the largest len transport_read is called with
  Timeout,         \* ticks transport_read waits for a byte
  Byte             \* the values of a byte

SizeAssumption ==
  /\ Size \in Nat
  /\ MaxPacket \in Nat \ {0}
  /\ MaxPacket < Size
  /\ MaxRead \in Nat \ {0}
  /\ Timeout \in Nat
  /\ 0 \in Byte

Index  == 0 .. Size - 1
Packet == UNION {[1 .. n -> Byte] : n \in 1 .. MaxPacket}

VARIABLES
  storage_buffer,
  it_head,
  it_tail,
  pc,       \* transport_read: "idle", "look", "drain", "sleep"
  len,      \* the length transport_read was asked for
  readed,   \* the bytes it has taken so far
  elapsed,  \* uxr_millis() - start
  sent,     \* history: bytes received and not taken, with whether the byte
            \* belongs to the second section of a packet copied in two
  overrun,  \* history: the agent has left no place of the buffer free;
            \* sent is not kept any more
  ended     \* history: a packet has ended exactly at the end of the buffer

readVars == <<pc, len, readed, elapsed>>
history  == <<overrun, ended>>
vars == <<storage_buffer, it_head, it_tail, readVars, sent, history>>

Init ==
  /\ storage_buffer = [i \in Index |-> 0]
  /\ it_head = 0
  /\ it_tail = 0
  /\ pc = "idle"
  /\ len = 0
  /\ readed = 0
  /\ elapsed = 0
  /\ sent = <<>>
  /\ overrun = FALSE
  /\ ended = FALSE

(* (i + n) % Size for i + n < 2 * Size                                     *)
Wrap(i) == IF i < Size THEN i ELSE i - Size

(* Seeded fault: the tail is reduced one place too early.                  *)
CDC_Receive_EarlyWrap(packet) ==
  LET n     == Len(packet)
      first == Size - 1 - it_tail
  IN IF n > first
       THEN /\ storage_buffer' =
                 [i \in Index |->
                    IF i < n - first THEN packet[i + 1]
                    ELSE IF i >= it_tail THEN packet[i - it_tail + 1]
                    ELSE storage_buffer[i]]
            /\ it_tail' = n - first
       ELSE /\ storage_buffer' =
                 [i \in Index |->
                    IF i \in it_tail .. it_tail + n - 1
                      THEN packet[i - it_tail + 1] ELSE storage_buffer[i]]
            /\ it_tail' = it_tail + n

(* The two memcpy of the interrupt and its update of it_tail.              *)
CopyIn(packet) ==
  LET n     == Len(packet)
      first == Size - it_tail       \* first_section
  IN IF n > first
       THEN /\ storage_buffer' =
                 [i \in Index |->
                    IF i < n - first THEN packet[i + 1]
                    ELSE IF i >= it_tail THEN packet[i - it_tail + 1]
                    ELSE storage_buffer[i]]
            /\ it_tail' = n - first
       ELSE /\ storage_buffer' =
                 [i \in Index |->
                    IF i \in it_tail .. it_tail + n - 1
                      THEN packet[i - it_tail + 1] ELSE storage_buffer[i]]
            /\ it_tail' = it_tail + n

(* The interrupt, which compares it_tail with nothing: the agent decides   *)
(* how much is unread.                                                     *)
CDC_Receive_FS(packet) ==
  LET n == Len(packet)
  IN /\ CopyIn(packet)
     /\ overrun' = (overrun \/ Len(sent) + n >= Size)
     /\ ended' = (ended \/ it_tail + n = Size)
     /\ sent' = IF overrun' THEN <<>>
                ELSE sent \o [k \in 1 .. n |->
                                [byte    |-> packet[k],
                                 spliced |-> k > Size - it_tail]]
     /\ UNCHANGED <<it_head, readVars>>

-----------------------------------------------------------------------------
(* cubemx_transport_read, called with a length and a timeout.              *)
ReadBegin(l) ==
  /\ pc = "idle"
  /\ len' = l
  /\ readed' = 0
  /\ elapsed' = 0
  /\ pc' = "look"
  /\ UNCHANGED <<storage_buffer, it_head, it_tail, sent, history>>

Look ==
  /\ pc = "look"
  /\ pc' = IF it_head # it_tail THEN "drain" ELSE "sleep"
  /\ UNCHANGED <<storage_buffer, it_head, it_tail, len, readed, elapsed, sent, history>>

(* Seeded fault: the head is advanced without being reduced.               *)
DrainByteNoWrap ==
  /\ pc = "drain"
  /\ it_head # it_tail
  /\ readed < len
  /\ it_head' = it_head + 1
  /\ readed' = readed + 1
  /\ sent' = IF sent = <<>> THEN sent ELSE Tail(sent)
  /\ UNCHANGED <<storage_buffer, it_tail, pc, len, elapsed, history>>

(* One turn of the inner loop: buf[readed] = storage_buffer[it_head].      *)
DrainByte ==
  /\ pc = "drain"
  /\ it_head # it_tail
  /\ readed < len
  /\ it_head' = Wrap(it_head + 1)
  /\ readed' = readed + 1
  /\ sent' = IF sent = <<>> THEN sent ELSE Tail(sent)
  /\ UNCHANGED <<storage_buffer, it_tail, pc, len, elapsed, history>>

DrainEnd ==
  /\ pc = "drain"
  /\ it_head = it_tail \/ readed >= len
  /\ pc' = "idle"
  /\ UNCHANGED <<storage_buffer, it_head, it_tail, len, readed, elapsed, sent, history>>

(* Seeded fault: the time waited is not counted.                           *)
SleepForgets ==
  /\ pc = "sleep"
  /\ pc' = "look"
  /\ UNCHANGED <<storage_buffer, it_head, it_tail, len, readed, elapsed, sent, history>>

(* vTaskDelay, then the condition of the outer loop.                       *)
Sleep ==
  /\ pc = "sleep"
  /\ elapsed' = elapsed + 1
  /\ pc' = IF elapsed' < Timeout THEN "look" ELSE "idle"
  /\ UNCHANGED <<storage_buffer, it_head, it_tail, len, readed, sent, history>>

Read == Look \/ DrainByte \/ DrainEnd \/ Sleep

Next ==
  \/ \E packet \in Packet : CDC_Receive_FS(packet)
  \/ \E l \in 1 .. MaxRead : ReadBegin(l)
  \/ Read

Spec == Init /\ [][Next]_vars

-----------------------------------------------------------------------------
(* Properties.                                                             *)

(* Neither memcpy nor the reading index leaves storage_buffer, and         *)
(* transport_read never stores past the len bytes its caller provides,     *)
(* even when packets overrun the buffer or end at its end.                 *)
TypeOK ==
  /\ storage_buffer \in [Index -> Byte]
  /\ it_head \in Index
  /\ it_tail \in 0 .. Size
  /\ pc \in {"idle", "look", "drain", "sleep"}
  /\ len \in 0 .. MaxRead
  /\ readed \in 0 .. len
  /\ elapsed \in Nat
  /\ sent \in Seq([byte : Byte, spliced : BOOLEAN])
  /\ Len(sent) < Size
  /\ overrun \in BOOLEAN
  /\ ended \in BOOLEAN

(* What transport_read takes for the number of unread bytes, and for the   *)
(* bytes themselves.                                                       *)
Used == IF it_head <= it_tail THEN it_tail - it_head
                              ELSE it_tail + Size - it_head
Content(k) == storage_buffer[Wrap(it_head + k - 1)]

(* As long as the agent leaves one place free and no packet ends exactly   *)
(* at the end of the buffer, no byte is lost, invented, repeated or        *)
(* reordered, except that the second section of a packet copied in two may *)
(* hold other bytes of that packet (usb_cdc_transport.c:80-94, 146-152).   *)
UnsplicedContent == ~overrun /\ ~ended =>
  /\ Len(sent) = Used
  /\ \A k \in 1 .. Used : sent[k].spliced \/ sent[k].byte = Content(k)

(* "Circular buffer" (usb_cdc_transport.c:80): the task is never offered a *)
(* byte that was not received.  it_tail = Size breaks it.                  *)
NothingInvented == ~overrun => Used <= Len(sent)
=============================================================================
