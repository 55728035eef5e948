------------------------- MODULE UsbTransportProofs -------------------------
(***************************************************************************)
(* Proofs about both halves of the transport as the one task runs them,    *)
(* for every size of buffer and packet, every set of bytes and every       *)
(* timeout.                                                                *)
(***************************************************************************)
EXTENDS UsbTransport, SequenceTheorems, TLAPS

USE TransportAssumption DEF Receive!SizeAssumption, Transmit!TimeoutAssumption

-----------------------------------------------------------------------------
(* The transmit half.  As long as no buffer was left behind, the flag is   *)
(* down between writes, and up during one only when its buffer went.       *)
SentInv ==
  /\ Transmit!TypeOK
  /\ ~late =>
       /\ wpc = "idle" => ~TxState /\ ~g_write_complete
       /\ g_write_complete => wsent
       /\ wpc = "clear" /\ writed = "len" => wsent

LEMMA SentInit == Transmit!Init => SentInv
<1>1. 0 \in 0 .. WriteTimeout
  OBVIOUS
<1> QED
  BY <1>1, Zenon DEF Transmit!Init, SentInv, Transmit!TypeOK

LEMMA SentStep == SentInv /\ [Transmit!Next]_wvars => SentInv'
<1> SUFFICES ASSUME SentInv, [Transmit!Next]_wvars PROVE SentInv'
  OBVIOUS
<1> USE DEF SentInv, Transmit!TypeOK
<1>1. CASE Transmit!Write
  <2>1. welapsed' \in 0 .. WriteTimeout
    BY <1>1 DEF Transmit!Write
  <2> QED
    BY <1>1, <2>1, Zenon DEF Transmit!Write
<1>2. CASE Transmit!Delay
  BY <1>2 DEF Transmit!Delay
<1>3. CASE Transmit!LeaveLoop
  BY <1>3 DEF Transmit!LeaveLoop
<1>4. CASE Transmit!Result
  BY <1>4 DEF Transmit!Result
<1>5. CASE Transmit!Return
  BY <1>5 DEF Transmit!Return
<1>6. CASE Transmit!CDC_TransmitCplt_FS
  BY <1>6 DEF Transmit!CDC_TransmitCplt_FS
<1>7. CASE Transmit!UsbReset
  BY <1>7 DEF Transmit!UsbReset
<1>8. CASE UNCHANGED wvars
  BY <1>8 DEF wvars
<1> QED
  BY <1>1, <1>2, <1>3, <1>4, <1>5, <1>6, <1>7, <1>8
  DEF Transmit!Next, Transmit!Task

-----------------------------------------------------------------------------
(* The receive half.  Besides its types: until a packet leaves no place    *)
(* free or ends at the end of the buffer, the tail is an index, and the    *)
(* bytes from the head to the tail are the ones received.                  *)
InOrder ==
  /\ it_tail < Size
  /\ Len(rsent) = Receive!Used
  /\ \A k \in 1 .. Len(rsent) :
       rsent[k].spliced \/ rsent[k].byte = Receive!Content(k)

RingInv == Receive!TypeOK /\ (~overrun /\ ~ended => InOrder)

LEMMA RingInit == Receive!Init => RingInv
<1> SUFFICES ASSUME Receive!Init PROVE RingInv
  OBVIOUS
<1> USE DEF Receive!Init, Receive!Index
<1>1. Receive!TypeOK
  <2>1. storage_buffer \in [Receive!Index -> Byte]
    OBVIOUS
  <2>2. /\ it_head \in Receive!Index /\ it_tail \in 0 .. Size
        /\ len \in 0 .. MaxRead /\ readed \in 0 .. len /\ relapsed \in Nat
        /\ rpc \in {"idle", "look", "drain", "sleep"}
    OBVIOUS
  <2>3. /\ rsent \in Seq([byte : Byte, spliced : BOOLEAN])
        /\ Len(rsent) < Size
    OBVIOUS
  <2>4. overrun \in BOOLEAN /\ ended \in BOOLEAN
    BY Zenon
  <2> QED
    BY <2>1, <2>2, <2>3, <2>4 DEF Receive!TypeOK
<1>2. InOrder
  BY DEF InOrder, Receive!Used
<1> QED
  BY <1>1, <1>2 DEF RingInv

(* What the interrupt appends to the history.                              *)
Entries(packet) == [k \in 1 .. Len(packet) |->
                      [byte |-> packet[k], spliced |-> k > Size - it_tail]]

LEMMA PacketFacts ==
  ASSUME NEW packet \in Receive!Packet
  PROVE  /\ Len(packet) \in 1 .. MaxPacket
         /\ \A k \in 1 .. Len(packet) : packet[k] \in Byte
         /\ packet \in Seq(Byte)
<1>1. PICK n \in 1 .. MaxPacket : packet \in [1 .. n -> Byte]
  BY DEF Receive!Packet
<1> QED
  BY <1>1

LEMMA EntriesFacts ==
  ASSUME RingInv, NEW packet \in Receive!Packet
  PROVE  /\ Entries(packet) \in Seq([byte : Byte, spliced : BOOLEAN])
         /\ Len(Entries(packet)) = Len(packet)
         /\ rsent \o Entries(packet) \in Seq([byte : Byte, spliced : BOOLEAN])
         /\ Len(rsent \o Entries(packet)) = Len(rsent) + Len(packet)
         /\ \A k \in 1 .. Len(rsent) + Len(packet) :
              (rsent \o Entries(packet))[k] =
                 IF k <= Len(rsent) THEN rsent[k]
                 ELSE Entries(packet)[k - Len(rsent)]
<1> DEFINE E == Entries(packet)
<1>1. Len(packet) \in Nat /\ \A k \in 1 .. Len(packet) : packet[k] \in Byte
  BY PacketFacts
<1>2. E \in [1 .. Len(packet) -> [byte : Byte, spliced : BOOLEAN]]
  BY <1>1 DEF Entries
<1> HIDE DEF E
<1>3. E \in Seq([byte : Byte, spliced : BOOLEAN]) /\ Len(E) = Len(packet)
  <2>1. E \in Seq([byte : Byte, spliced : BOOLEAN])
    BY <1>1, <1>2, SeqDef
  <2>2. DOMAIN E = 1 .. Len(packet)
    BY <1>2
  <2> QED
    BY <1>1, <2>1, <2>2, LenProperties
<1>4. rsent \in Seq([byte : Byte, spliced : BOOLEAN])
  BY DEF RingInv, Receive!TypeOK
<1>5. QED
  BY <1>1, <1>3, <1>4, ConcatProperties DEF E

LEMMA CopyTypes ==
  ASSUME RingInv, NEW packet \in Receive!Packet, Receive!CopyIn(packet)
  PROVE  storage_buffer' \in [Receive!Index -> Byte] /\ it_tail' \in 0 .. Size
<1> USE PacketFacts DEF RingInv, Receive!TypeOK, Receive!Index
<1> DEFINE n == Len(packet)
           first == Size - it_tail
<1>1. CASE n > first
  <2>1. it_tail' \in 0 .. Size
    BY <1>1 DEF Receive!CopyIn
  <2>2. storage_buffer' =
          [i \in Receive!Index |->
             IF i < n - first THEN packet[i + 1]
             ELSE IF i >= it_tail THEN packet[i - it_tail + 1]
             ELSE storage_buffer[i]]
    BY <1>1 DEF Receive!CopyIn
  <2>3. ASSUME NEW i \in Receive!Index
        PROVE  (IF i < n - first THEN packet[i + 1]
                ELSE IF i >= it_tail THEN packet[i - it_tail + 1]
                ELSE storage_buffer[i]) \in Byte
    BY <1>1
  <2> QED
    BY <2>1, <2>2, <2>3
<1>2. CASE ~(n > first)
  <2>1. it_tail' \in 0 .. Size
    BY <1>2 DEF Receive!CopyIn
  <2>2. storage_buffer' =
          [i \in Receive!Index |->
             IF i \in it_tail .. it_tail + n - 1
               THEN packet[i - it_tail + 1] ELSE storage_buffer[i]]
    BY <1>2 DEF Receive!CopyIn
  <2>3. ASSUME NEW i \in Receive!Index
        PROVE  (IF i \in it_tail .. it_tail + n - 1
                  THEN packet[i - it_tail + 1] ELSE storage_buffer[i]) \in Byte
    BY <1>2
  <2> QED
    BY <2>1, <2>2, <2>3
<1> QED
  BY <1>1, <1>2

(* What the copy does to the unread bytes when it leaves a place free and  *)
(* does not end at the end of the buffer.                                  *)
LEMMA CopyContent ==
  ASSUME RingInv, NEW packet \in Receive!Packet, Receive!CopyIn(packet),
         InOrder, Len(rsent) + Len(packet) < Size,
         it_tail + Len(packet) # Size, it_head' = it_head
  PROVE  /\ it_tail' < Size
         /\ Receive!Used' = Len(rsent) + Len(packet)
         /\ \A k \in 1 .. Len(rsent) :
              storage_buffer'[Receive!Wrap(it_head + k - 1)] = Receive!Content(k)
         /\ \A k \in 1 .. Len(packet) :
              \/ k > Size - it_tail
              \/ storage_buffer'[Receive!Wrap(it_head + (Len(rsent) + k) - 1)]
                 = packet[k]
<1> DEFINE n == Len(packet)
           first == Size - it_tail
<1>1. /\ n \in 1 .. MaxPacket /\ Len(rsent) \in Nat
      /\ it_head \in 0 .. Size - 1 /\ it_tail \in 0 .. Size - 1
      /\ Len(rsent) = IF it_head <= it_tail THEN it_tail - it_head
                                            ELSE it_tail + Size - it_head
      /\ Len(rsent) + n < Size /\ it_tail + n # Size
  BY PacketFacts
  DEF RingInv, Receive!TypeOK, Receive!Index, InOrder, Receive!Used
<1> HIDE DEF n
<1>2. CASE n > first
  <2>1. it_tail' = n - first
    BY <1>2 DEF Receive!CopyIn, n
  <2>2. storage_buffer' =
          [i \in 0 .. Size - 1 |->
             IF i < n - first THEN packet[i + 1]
             ELSE IF i >= it_tail THEN packet[i - it_tail + 1]
             ELSE storage_buffer[i]]
    BY <1>2 DEF Receive!CopyIn, Receive!Index, n
  <2>3. it_head <= it_tail /\ n - first < it_head
    BY <1>1, <1>2
  <2>4. it_tail' < Size /\ Receive!Used' = Len(rsent) + n
    BY <1>1, <1>2, <2>1, <2>3 DEF Receive!Used
  <2>5. ASSUME NEW k \in 1 .. Len(rsent)
        PROVE  storage_buffer'[Receive!Wrap(it_head + k - 1)] = Receive!Content(k)
    <3>1. /\ it_head + k - 1 \in 0 .. Size - 1
          /\ it_head + k - 1 < it_tail /\ ~(it_head + k - 1 < n - first)
          /\ ~(it_head + k - 1 >= it_tail)
          /\ Receive!Wrap(it_head + k - 1) = it_head + k - 1
      BY <1>1, <1>2, <2>3 DEF Receive!Wrap
    <3> QED
      BY <2>2, <3>1, Zenon DEF Receive!Content
  <2>6. ASSUME NEW k \in 1 .. n, k <= first
        PROVE  storage_buffer'[Receive!Wrap(it_head + (Len(rsent) + k) - 1)]
                 = packet[k]
    <3>1. Receive!Wrap(it_head + (Len(rsent) + k) - 1) = it_tail + k - 1
      BY <1>1, <2>3, <2>6 DEF Receive!Wrap
    <3>2. /\ it_tail + k - 1 \in 0 .. Size - 1 /\ ~(it_tail + k - 1 < n - first)
          /\ it_tail + k - 1 >= it_tail
          /\ (it_tail + k - 1) - it_tail + 1 = k
      BY <1>1, <1>2, <2>3, <2>6
    <3> QED
      BY <2>2, <3>1, <3>2, Zenon
  <2> QED
    BY <1>1, <2>4, <2>5, <2>6 DEF n
<1>3. CASE ~(n > first)
  <2>1. it_tail' = it_tail + n
    BY <1>3 DEF Receive!CopyIn, n
  <2>2. storage_buffer' =
          [i \in 0 .. Size - 1 |->
             IF i \in it_tail .. it_tail + n - 1
               THEN packet[i - it_tail + 1] ELSE storage_buffer[i]]
    BY <1>3 DEF Receive!CopyIn, Receive!Index, n
  <2>3. it_tail' < Size /\ Receive!Used' = Len(rsent) + n
    BY <1>1, <1>3, <2>1 DEF Receive!Used
  <2>4. ASSUME NEW k \in 1 .. Len(rsent)
        PROVE  storage_buffer'[Receive!Wrap(it_head + k - 1)] = Receive!Content(k)
    <3>1. /\ Receive!Wrap(it_head + k - 1) \in 0 .. Size - 1
          /\ Receive!Wrap(it_head + k - 1) \notin it_tail .. it_tail + n - 1
      BY <1>1, <1>3 DEF Receive!Wrap
    <3> QED
      BY <2>2, <3>1 DEF Receive!Content
  <2>5. ASSUME NEW k \in 1 .. n
        PROVE  storage_buffer'[Receive!Wrap(it_head + (Len(rsent) + k) - 1)]
                 = packet[k]
    <3>1. Receive!Wrap(it_head + (Len(rsent) + k) - 1) = it_tail + k - 1
      BY <1>1, <1>3 DEF Receive!Wrap
    <3>2. /\ it_tail + k - 1 \in 0 .. Size - 1
          /\ it_tail + k - 1 \in it_tail .. it_tail + n - 1
          /\ (it_tail + k - 1) - it_tail + 1 = k
      BY <1>1, <1>3
    <3> QED
      BY <2>2, <3>1, <3>2
  <2> QED
    BY <1>1, <2>3, <2>4, <2>5 DEF n
<1> QED
  BY <1>2, <1>3

LEMMA ReceiveKeepsRing ==
  ASSUME RingInv, NEW packet \in Receive!Packet, Receive!CDC_Receive_FS(packet)
  PROVE  RingInv'
<1> USE DEF Receive!CDC_Receive_FS
<1> DEFINE appended == rsent \o Entries(packet)
<1>1. /\ overrun' = (overrun \/ Len(rsent) + Len(packet) >= Size)
      /\ ended' = (ended \/ it_tail + Len(packet) = Size)
      /\ rsent' = IF overrun' THEN <<>> ELSE appended
      /\ UNCHANGED <<it_head, rpc, len, readed, relapsed>>
      /\ Receive!CopyIn(packet)
  BY DEF Entries, Receive!readVars
<1>2. /\ appended \in Seq([byte : Byte, spliced : BOOLEAN])
      /\ Len(appended) = Len(rsent) + Len(packet)
      /\ \A k \in 1 .. Len(rsent) + Len(packet) :
           appended[k] = IF k <= Len(rsent) THEN rsent[k]
                         ELSE Entries(packet)[k - Len(rsent)]
  BY EntriesFacts
<1> HIDE DEF appended, Receive!CDC_Receive_FS
<1>3. overrun' \in BOOLEAN /\ ended' \in BOOLEAN
  BY <1>1, Zenon
<1>4. Len(rsent) \in Nat /\ Len(packet) \in Nat
  BY PacketFacts DEF RingInv, Receive!TypeOK
<1>B. ASSUME ~overrun', ~ended'
      PROVE  ~overrun /\ ~ended /\ it_tail + Len(packet) # Size
  BY <1>B, <1>1, Zenon
<1>A. ~overrun' => ~(Len(rsent) + Len(packet) >= Size)
  BY <1>1, Zenon
<1>5. rsent' \in Seq([byte : Byte, spliced : BOOLEAN]) /\ Len(rsent') < Size
  <2>1. CASE overrun'
    BY <1>1, <2>1
  <2>2. CASE ~overrun'
    BY <1>A, <1>1, <1>2, <1>4, <2>2
  <2> QED
    BY <2>1, <2>2
<1>6. Receive!TypeOK'
  BY <1>1, <1>3, <1>5, CopyTypes, Zenon DEF RingInv, Receive!TypeOK, Receive!Index
<1>7. ASSUME ~overrun', ~ended' PROVE InOrder'
  <2>1. /\ ~overrun /\ ~ended /\ Len(rsent) + Len(packet) < Size
        /\ it_tail + Len(packet) # Size
    BY <1>B, <1>A, <1>4, <1>7
  <2>2. InOrder /\ rsent' = appended /\ it_head' = it_head
    BY <1>1, <1>7, <2>1 DEF RingInv
  <2>3. /\ it_tail' < Size
        /\ Receive!Used' = Len(rsent')
        /\ \A k \in 1 .. Len(rsent) :
             storage_buffer'[Receive!Wrap(it_head + k - 1)] = Receive!Content(k)
        /\ \A k \in 1 .. Len(packet) :
             \/ k > Size - it_tail
             \/ storage_buffer'[Receive!Wrap(it_head + (Len(rsent) + k) - 1)]
                 = packet[k]
    BY <1>1, <1>2, <2>1, <2>2, CopyContent
  <2>4. ASSUME NEW k \in 1 .. Len(rsent')
        PROVE  rsent'[k].spliced \/ rsent'[k].byte = Receive!Content(k)'
    <3>1. CASE k <= Len(rsent)
      <4>1. k \in 1 .. Len(rsent) /\ rsent'[k] = rsent[k]
        BY <1>2, <1>4, <2>2, <3>1
      <4>2. Receive!Content(k)' = Receive!Content(k)
        BY <2>2, <2>3, <4>1, Zenon DEF Receive!Content
      <4> QED
        BY <2>2, <4>1, <4>2, Zenon DEF InOrder
    <3>2. CASE k > Len(rsent)
      <4> DEFINE j == k - Len(rsent)
      <4>1. j \in 1 .. Len(packet) /\ k = Len(rsent) + j
        BY <1>2, <1>4, <2>2, <3>2
      <4>A. rsent'[k] = Entries(packet)[j]
        BY <1>2, <1>4, <2>2, <3>2, <4>1
      <4> HIDE DEF j
      <4>2. Entries(packet)[j] =
              [byte |-> packet[j], spliced |-> j > Size - it_tail]
        BY <4>1, Zenon DEF Entries
      <4>3. Receive!Content(k)' =
              storage_buffer'[Receive!Wrap(it_head + (Len(rsent) + j) - 1)]
        BY <2>2, <4>1, Zenon DEF Receive!Content
      <4>4. CASE j > Size - it_tail
        <5>1. rsent'[k] = [byte |-> packet[j], spliced |-> TRUE]
          BY <4>A, <4>2, <4>4, Zenon
        <5> QED
          BY <5>1
      <4>5. CASE ~(j > Size - it_tail)
        BY <2>3, <4>A, <4>1, <4>2, <4>3, <4>5
      <4> QED
        BY <4>4, <4>5
    <3> QED
      BY <1>2, <1>4, <2>2, <3>1, <3>2
  <2> QED
    BY <2>3, <2>4 DEF InOrder
<1> QED
  BY <1>6, <1>7 DEF RingInv

LEMMA DrainKeepsRing ==
  ASSUME RingInv, Receive!DrainByte
  PROVE  RingInv'
<1> USE DEF Receive!DrainByte, Receive!history
<1>1. /\ it_head \in 0 .. Size - 1 /\ it_tail \in 0 .. Size
      /\ len \in 0 .. MaxRead /\ readed \in 0 .. len
      /\ rsent \in Seq([byte : Byte, spliced : BOOLEAN]) /\ Len(rsent) < Size
  BY DEF RingInv, Receive!TypeOK, Receive!Index
<1>2. it_head' \in 0 .. Size - 1
  BY <1>1 DEF Receive!Wrap
<1>3. readed' \in 0 .. len
  BY <1>1
<1>4. rsent' \in Seq([byte : Byte, spliced : BOOLEAN]) /\ Len(rsent') < Size
  BY <1>1, HeadTailProperties
<1>5. Receive!TypeOK'
  BY <1>2, <1>3, <1>4, Zenon DEF RingInv, Receive!TypeOK, Receive!Index
<1>6. ASSUME ~overrun', ~ended' PROVE InOrder'
  <2>1. InOrder
    BY <1>6 DEF RingInv
  <2>2. rsent # <<>> /\ rsent' = Tail(rsent) /\ Len(rsent') = Len(rsent) - 1
    BY <1>1, <2>1, HeadTailProperties DEF InOrder, Receive!Used
  <2>3. it_tail' < Size /\ Len(rsent') = Receive!Used'
    BY <1>1, <2>1, <2>2 DEF InOrder, Receive!Used, Receive!Wrap
  <2>4. ASSUME NEW k \in 1 .. Len(rsent')
        PROVE  rsent'[k].spliced \/ rsent'[k].byte = Receive!Content(k)'
    <3>1. /\ k + 1 \in 1 .. Len(rsent)
          /\ rsent'[k] = rsent[k + 1]
          /\ Receive!Wrap(it_head' + k - 1)
               = Receive!Wrap(it_head + (k + 1) - 1)
      BY <1>1, <2>2, HeadTailProperties DEF Receive!Wrap
    <3>2. Receive!Content(k)' = Receive!Content(k + 1)
      BY <3>1, Zenon DEF Receive!Content
    <3> QED
      BY <2>1, <3>1, <3>2, Zenon DEF InOrder
  <2> QED
    BY <2>3, <2>4 DEF InOrder
<1> QED
  BY <1>5, <1>6 DEF RingInv

LEMMA RingStep == RingInv /\ [Receive!Next]_rvars => RingInv'
<1> SUFFICES ASSUME RingInv, [Receive!Next]_rvars PROVE RingInv'
  OBVIOUS
<1>1. ASSUME NEW packet \in Receive!Packet, Receive!CDC_Receive_FS(packet)
      PROVE  RingInv'
  BY <1>1, ReceiveKeepsRing
<1>2. ASSUME UNCHANGED <<storage_buffer, it_head, it_tail, rsent, overrun, ended>>,
             rpc' \in {"idle", "look", "drain", "sleep"},
             len' \in 0 .. MaxRead, readed' \in 0 .. len', relapsed' \in Nat
      PROVE  RingInv'
  BY <1>2, Zenon DEF RingInv, InOrder, Receive!TypeOK, Receive!Used,
                     Receive!Content
<1>3. /\ len \in 0 .. MaxRead /\ readed \in 0 .. len /\ relapsed \in Nat
      /\ rpc \in {"idle", "look", "drain", "sleep"}
  BY DEF RingInv, Receive!TypeOK
<1> USE DEF Receive!history
<1>4. ASSUME NEW l \in 1 .. MaxRead, Receive!ReadBegin(l) PROVE RingInv'
  BY <1>2, <1>4 DEF Receive!ReadBegin
<1>5. CASE Receive!Look
  BY <1>2, <1>3, <1>5 DEF Receive!Look
<1>6. CASE Receive!DrainByte
  BY <1>6, DrainKeepsRing
<1>7. CASE Receive!DrainEnd
  BY <1>2, <1>3, <1>7 DEF Receive!DrainEnd
<1>8. CASE Receive!Sleep
  BY <1>2, <1>3, <1>8 DEF Receive!Sleep
<1>9. CASE UNCHANGED rvars
  BY <1>2, <1>3, <1>9 DEF rvars
<1> QED
  BY <1>1, <1>4, <1>5, <1>6, <1>7, <1>8, <1>9 DEF Receive!Next, Receive!Read

-----------------------------------------------------------------------------
(* The composition: a step of it is a step of one half and none of the     *)
(* other, and the task is in at most one of the two calls.                 *)
OneCall == rpc = "idle" \/ wpc = "idle"

TransportInv == SentInv /\ RingInv /\ OneCall

LEMMA StepOfHalves ==
  ASSUME [Next]_vars
  PROVE  /\ [Receive!Next]_rvars /\ [Transmit!Next]_wvars
         /\ OneCall => OneCall'
<1>1. CASE Call
  BY <1>1 DEF Call, Receive!Next, Transmit!Next, Receive!ReadBegin,
              Transmit!Write, OneCall, rvars, wvars
<1>2. CASE InRead
  BY <1>2 DEF InRead, Receive!Next, OneCall, wvars, Receive!Read,
              Receive!Look, Receive!DrainByte, Receive!DrainEnd, Receive!Sleep
<1>3. CASE InWrite
  BY <1>3 DEF InWrite, Transmit!Next, OneCall, rvars, Transmit!Task,
              Transmit!Delay, Transmit!LeaveLoop, Transmit!Result,
              Transmit!Return
<1>4. CASE Interrupt
  BY <1>4 DEF Interrupt, Receive!Next, Transmit!Next, OneCall, rvars, wvars,
              Receive!CDC_Receive_FS, Receive!readVars,
              Transmit!CDC_TransmitCplt_FS, Transmit!UsbReset
<1>5. CASE UNCHANGED vars
  BY <1>5 DEF vars, rvars, wvars, OneCall
<1> QED
  BY <1>1, <1>2, <1>3, <1>4, <1>5 DEF Next

THEOREM TransportInvariant == Spec => []TransportInv
<1>1. Init => TransportInv
  BY SentInit, RingInit DEF Init, TransportInv, OneCall, Receive!Init
<1>2. TransportInv /\ [Next]_vars => TransportInv'
  BY SentStep, RingStep, StepOfHalves DEF TransportInv
<1> QED
  BY <1>1, <1>2, PTL DEF Spec

(* No index leaves its buffer, no wait exceeds its limit, and the task is  *)
(* in one call at a time (usb_cdc_transport.c:76-161).                     *)
THEOREM TypesCorrect == Spec => []TypeOK
<1>1. TransportInv => TypeOK
  BY DEF TransportInv, SentInv, RingInv, OneCall, TypeOK
<1> QED
  BY <1>1, TransportInvariant, PTL

(* For every size and every packet, as long as a place stays free and no   *)
(* packet ends at the buffer's end, the bytes the task will read are the   *)
(* bytes received, second sections excepted (usb_cdc_transport.c:80-94).   *)
THEOREM ContentCorrect == Spec => []UnsplicedContent
<1>1. TransportInv => UnsplicedContent
  BY DEF TransportInv, RingInv, InOrder, UnsplicedContent,
         Receive!UnsplicedContent
<1> QED
  BY <1>1, TransportInvariant, PTL

(* For every timeout, and however completions, resets, timeouts and reads  *)
(* meet, a write that reports success has sent its own buffer until one    *)
(* returned with its buffer still held (usb_cdc_transport.c:119-137).      *)
THEOREM SuccessIsSent == Spec => []SuccessMeansSent
<1>1. TransportInv => SuccessMeansSent
  BY DEF TransportInv, SentInv, SuccessMeansSent, Transmit!SuccessMeansSent
<1> QED
  BY <1>1, TransportInvariant, PTL

-----------------------------------------------------------------------------
(* Each half beside the other is what it is alone: whatever holds of       *)
(* UsbReceiveRing or of UsbTransmit holds of it while the task serves both *)
(* and the other half's interrupts come (usb_cdc_transport.c:76-161).      *)
THEOREM HalvesImplemented == Spec => Receive!Spec /\ Transmit!Spec
<1>1. Init => Receive!Init /\ Transmit!Init
  BY DEF Init
<1>2. [Next]_vars => [Receive!Next]_(Receive!vars) /\ [Transmit!Next]_(Transmit!vars)
  <2>1. UNCHANGED rvars => UNCHANGED Receive!vars
    BY DEF rvars, Receive!vars, Receive!readVars, Receive!history
  <2>2. UNCHANGED wvars => UNCHANGED Transmit!vars
    BY DEF wvars, Transmit!vars
  <2> QED
    BY <2>1, <2>2, StepOfHalves
<1> QED
  BY <1>1, <1>2, PTL DEF Spec, Receive!Spec, Transmit!Spec

(* The steps a call has left at most.  A pass of the reading loop is a     *)
(* look and a sleep; what arrives meanwhile cannot lengthen the copying,   *)
(* which ends at the length asked for.                                     *)
Waits == ReadTimeout + 1 - relapsed

ReadLeft ==
  CASE rpc = "look"  -> 2 * Waits + len + 1
    [] rpc = "sleep" -> 2 * Waits + len
    [] rpc = "drain" -> len - readed + 1
    [] OTHER         -> 0

WriteLeft ==
  CASE wpc = "wait"   -> WriteTimeout - welapsed + 3
    [] wpc = "result" -> 2
    [] wpc = "clear"  -> 1
    [] OTHER          -> 0

StepsLeft == ReadLeft + WriteLeft

LongestCall == 2 * ReadTimeout + MaxRead + 3 + WriteTimeout + 3

WithinTimeout == rpc \in {"look", "sleep"} => relapsed <= ReadTimeout

(* The task's steps use the bound up, and nobody else's extend it.         *)
CallRuns ==
  /\ InRead \/ InWrite => StepsLeft' < StepsLeft
  /\ Interrupt => StepsLeft' = StepsLeft

CallBounded ==
  /\ StepsLeft \in 0 .. LongestCall
  /\ StepsLeft = 0 => rpc = "idle" /\ wpc = "idle"

LEMMA CallTypes ==
  TransportInv => /\ rpc \in {"idle", "look", "drain", "sleep"}
                  /\ wpc \in {"idle", "wait", "result", "clear"}
                  /\ len \in 0 .. MaxRead /\ readed \in 0 .. len
                  /\ relapsed \in Nat /\ welapsed \in 0 .. WriteTimeout
BY DEF TransportInv, SentInv, RingInv, Receive!TypeOK, Transmit!TypeOK

LEMMA WithinStep == TransportInv /\ WithinTimeout /\ [Receive!Next]_rvars => WithinTimeout'
<1> SUFFICES ASSUME TransportInv, WithinTimeout, [Receive!Next]_rvars PROVE WithinTimeout'
  OBVIOUS
<1> USE DEF WithinTimeout
<1>1. ASSUME NEW packet \in Receive!Packet, Receive!CDC_Receive_FS(packet)
      PROVE  WithinTimeout'
  <2>1. UNCHANGED <<rpc, relapsed>>
    BY <1>1, Zenon DEF Receive!CDC_Receive_FS, Receive!readVars
  <2> QED
    BY <2>1
<1>2. ASSUME NEW l \in 1 .. MaxRead, Receive!ReadBegin(l) PROVE WithinTimeout'
  BY <1>2 DEF Receive!ReadBegin
<1>3. CASE Receive!Read
  BY <1>3, CallTypes DEF Receive!Read, Receive!Look, Receive!DrainByte, Receive!DrainEnd,
              Receive!Sleep
<1>4. CASE UNCHANGED rvars
  BY <1>4 DEF rvars
<1> QED
  BY <1>1, <1>2, <1>3, <1>4 DEF Receive!Next

LEMMA LeftTypes ==
  ASSUME TransportInv, WithinTimeout
  PROVE  /\ ReadLeft \in 0 .. 2 * ReadTimeout + MaxRead + 3
         /\ WriteLeft \in 0 .. WriteTimeout + 3
         /\ (ReadLeft = 0) <=> (rpc = "idle")
         /\ (WriteLeft = 0) <=> (wpc = "idle")
<1>1. WriteLeft \in 0 .. WriteTimeout + 3 /\ ((WriteLeft = 0) <=> (wpc = "idle"))
  BY CallTypes DEF WriteLeft
<1>2. CASE rpc \in {"look", "sleep"}
  <2>1. Waits \in 1 .. ReadTimeout + 1
    BY <1>2, CallTypes DEF WithinTimeout, Waits
  <2> QED
    BY <1>1, <1>2, <2>1, CallTypes DEF ReadLeft
<1>3. CASE rpc \in {"drain", "idle"}
  BY <1>1, <1>3, CallTypes DEF ReadLeft
<1> QED
  BY <1>2, <1>3, CallTypes

LEMMA SmallerSum ==
  ASSUME NEW a \in Int, NEW b \in Int, NEW c \in Int, a < b
  PROVE  a + c < b + c /\ c + a < c + b
OBVIOUS

LEMMA CallStep ==
  ASSUME TransportInv, WithinTimeout
  PROVE  CallRuns
<1>1. ReadLeft \in Int /\ WriteLeft \in Int
  BY LeftTypes
<1>2. ASSUME Interrupt PROVE StepsLeft' = StepsLeft
  <2>1. UNCHANGED <<rpc, len, readed, relapsed, wpc, welapsed>>
    BY <1>2 DEF Interrupt, rvars, wvars, Receive!CDC_Receive_FS, Receive!readVars,
                Transmit!CDC_TransmitCplt_FS, Transmit!UsbReset
  <2> QED
    BY <2>1 DEF StepsLeft, ReadLeft, WriteLeft, Waits
<1>3. ASSUME InRead PROVE StepsLeft' < StepsLeft
  <2>1. WriteLeft' = WriteLeft
    BY <1>3 DEF InRead, wvars, WriteLeft
  <2>2. CASE Receive!Look
    <3>1. /\ rpc = "look" /\ rpc' \in {"drain", "sleep"}
          /\ UNCHANGED <<len, readed, relapsed>>
      BY <2>2 DEF Receive!Look
    <3>2. Waits \in 1 .. ReadTimeout + 1
      BY <3>1, CallTypes DEF WithinTimeout, Waits
    <3>3. ReadLeft' < ReadLeft /\ ReadLeft' \in Int
      BY <3>1, <3>2, CallTypes DEF ReadLeft, Waits
    <3> QED
      BY <1>1, <2>1, <3>3, SmallerSum, Zenon DEF StepsLeft
  <2>3. CASE Receive!DrainByte
    <3>1. rpc = "drain" /\ rpc' = "drain" /\ len' = len /\ readed' = readed + 1
      BY <2>3 DEF Receive!DrainByte
    <3>2. ReadLeft' < ReadLeft /\ ReadLeft' \in Int
      BY <3>1, CallTypes DEF ReadLeft
    <3> QED
      BY <1>1, <2>1, <3>2, SmallerSum, Zenon DEF StepsLeft
  <2>4. CASE Receive!DrainEnd
    <3>1. rpc = "drain" /\ rpc' = "idle"
      BY <2>4 DEF Receive!DrainEnd
    <3>2. ReadLeft' < ReadLeft /\ ReadLeft' \in Int
      BY <3>1, CallTypes DEF ReadLeft
    <3> QED
      BY <1>1, <2>1, <3>2, SmallerSum, Zenon DEF StepsLeft
  <2>5. CASE Receive!Sleep
    <3>1. /\ rpc = "sleep" /\ rpc' \in {"look", "idle"}
          /\ len' = len /\ relapsed' = relapsed + 1
      BY <2>5 DEF Receive!Sleep
    <3>2. Waits \in 1 .. ReadTimeout + 1 /\ Waits' = Waits - 1
      BY <3>1, CallTypes DEF WithinTimeout, Waits
    <3>3. ReadLeft' < ReadLeft /\ ReadLeft' \in Int
      BY <3>1, <3>2, CallTypes DEF ReadLeft
    <3> QED
      BY <1>1, <2>1, <3>3, SmallerSum, Zenon DEF StepsLeft
  <2> QED
    BY <1>3, <2>2, <2>3, <2>4, <2>5 DEF InRead, Receive!Read
<1>4. ASSUME InWrite PROVE StepsLeft' < StepsLeft
  <2>1. ReadLeft' = ReadLeft
    BY <1>4 DEF InWrite, rvars, ReadLeft, Waits
  <2>2. WriteLeft' < WriteLeft /\ WriteLeft' \in Int
    BY <1>4, CallTypes DEF InWrite, WriteLeft, Transmit!Task, Transmit!Delay,
                           Transmit!LeaveLoop, Transmit!Result, Transmit!Return
  <2> QED
    BY <1>1, <2>1, <2>2, SmallerSum, Zenon DEF StepsLeft
<1> QED
  BY <1>2, <1>3, <1>4 DEF CallRuns

(* Every call is over after a bounded number of the task's own steps, for  *)
(* every timeout and length and whatever agent and host send meanwhile     *)
(* (usb_cdc_transport.c:119-161).  CallReturns adds that the task runs.    *)
THEOREM CallsAreBounded == Spec => []CallBounded /\ [][CallRuns]_vars
<1>1. Init => WithinTimeout
  BY DEF Init, Receive!Init, WithinTimeout
<1>2. TransportInv /\ WithinTimeout /\ [Next]_vars => WithinTimeout'
  BY WithinStep, StepOfHalves
<1>3. TransportInv /\ WithinTimeout => CallBounded
  <2> SUFFICES ASSUME TransportInv, WithinTimeout PROVE CallBounded
    OBVIOUS
  <2>1. /\ ReadLeft \in 0 .. 2 * ReadTimeout + MaxRead + 3
        /\ WriteLeft \in 0 .. WriteTimeout + 3
        /\ (ReadLeft = 0) <=> (rpc = "idle")
        /\ (WriteLeft = 0) <=> (wpc = "idle")
    BY LeftTypes
  <2> QED
    BY <2>1 DEF CallBounded, StepsLeft, LongestCall
<1>4. TransportInv /\ WithinTimeout /\ [Next]_vars => [CallRuns]_vars
  BY CallStep
<1> QED
  BY <1>1, <1>2, <1>3, <1>4, TransportInvariant, PTL DEF Spec
=============================================================================
