--------------------------- MODULE MicSerialProofs ---------------------------
(***************************************************************************)
(* Proofs about the driver of the microphone array, for every length of    *)
(* frame and buffer, any number of calls, wake words and faults of the     *)
(* line: types, that a clean line loses nothing, and whose reply a call is *)
(* given.                                                                  *)
(***************************************************************************)
EXTENDS MicSerial, SequenceTheorems, TLAPS

Bytes == [v : {"head", "uid", "len", "body"}, of : Nat, at : 0 .. Size]
Message == Call \cup {Wake}

(* TypeOK, and what the sequences hold.                                    *)
TypeInv ==
  /\ TypeOK
  /\ Receive_Data \in Seq(Bytes) /\ port \in Seq(Bytes)
  /\ commands \in Seq(Call) /\ sent \in Seq(Message)
  /\ taken \in Nat /\ calls \in Nat /\ noise \in Nat
  /\ skipped \in BOOLEAN /\ timedOut \in BOOLEAN

(* A wrong byte is of no frame.                                            *)
Real(b) == b.of # 0

(* A byte that may be received after frame t was taken: it is of a later   *)
(* one, or a copy of the last byte of t, which came twice.                 *)
Fresh(t, b) == Real(b) => b.of > t \/ (b.of = t /\ b.at = Size)

Before(a, b) ==
  Real(a) /\ Real(b) => a.of < b.of \/ (a.of = b.of /\ a.at <= b.at)

(* Whatever the line does to single bytes, it does not change their order: *)
(* no frame is taken twice.                                                *)
StreamInv ==
  /\ \A i \in 1 .. Len(Receive_Data) : Fresh(taken, Receive_Data[i])
  /\ \A i \in 1 .. Len(port) : Fresh(taken, port[i]) /\ port[i].of <= Len(sent)
  /\ \A i, j \in 1 .. Len(port) : i < j => Before(port[i], port[j])

(* On a clean line the bytes are those of the frames not yet taken, one    *)
(* after the other, the first of them being received.                      *)
Follows(a, b) ==
  IF a.at < Size THEN b.of = a.of /\ b.at = a.at + 1
                 ELSE b.of = a.of + 1 /\ b.at = 1

CleanInv ==
  noise = 0 =>
    /\ ~skipped /\ ~damaged /\ node # "crashed"
    /\ Len(Receive_Data) < Size
    /\ \A i \in 1 .. Len(Receive_Data) : Receive_Data[i] = Frame(taken + 1)[i]
    /\ frame_len = IF Len(Receive_Data) >= 3 THEN Size ELSE 0
    /\ port = <<>> => Receive_Data = <<>> /\ taken = Len(sent)
    /\ \A i \in 1 .. Len(port) :
         /\ port[i].of \in Nat \ {0} /\ port[i].at \in 1 .. Size
         /\ port[i] = Frame(port[i].of)[port[i].at]
    /\ port # <<>> =>
         /\ port[1].of = taken + 1 /\ port[1].at = Len(Receive_Data) + 1
         /\ port[Len(port)].of = Len(sent) /\ port[Len(port)].at = Size
    /\ \A i \in 1 .. Len(port) - 1 : Follows(port[i], port[i + 1])

(* Frames sent and not taken.                                              *)
Untaken == taken + 1 .. Len(sent)
NoReply == \A k \in Untaken : sent[k] = Wake

(* Every command, reply and result is of a call that was made, and none is *)
(* given to an earlier call than its own.                                  *)
NamesInv ==
  /\ node = "wait" => calls > 0
  /\ \A i \in 1 .. Len(commands) : commands[i] <= calls
  /\ \A k \in 1 .. Len(sent) : sent[k] <= calls
  /\ process_result => device_message \in 1 .. calls
  /\ OwnReply

(* As long as no call ran out of time, the only command, reply or result   *)
(* under way is the one of the call that waits.                            *)
OneInv ==
  ~timedOut =>
    /\ node \in {"run", "exited"} => commands = <<>> /\ NoReply
    /\ node = "wait" =>
         /\ commands # <<>> => commands = <<calls>> /\ NoReply /\ ~process_result
         /\ process_result => device_message = calls /\ NoReply
         /\ \A k \in Untaken : sent[k] \in {Wake, calls}
         /\ \A k, l \in Untaken : sent[k] = calls /\ sent[l] = calls => k = l

MicInv == TypeInv /\ StreamInv /\ CleanInv /\ NamesInv /\ OneInv

-----------------------------------------------------------------------------
LEMMA Constants ==
  /\ Size \in Nat /\ Buffer \in Nat /\ MaxCalls \in Nat /\ MaxWakes \in Nat /\ MaxNoise \in Nat
  /\ 3 < Size /\ Size <= Buffer
  /\ \A n \in Lengths : n \in Nat /\ 3 < n
<1>1. Lengths \subseteq Nat \ (0 .. 3)
  BY MicAssumption
<1> QED
  BY <1>1, MicAssumption

(* A frame of the array.                                                   *)
LEMMA FrameFacts ==
  ASSUME NEW k \in Nat
  PROVE  /\ Frame(k) \in Seq(Bytes) /\ Len(Frame(k)) = Size
         /\ \A i \in 1 .. Size :
              /\ Frame(k)[i].of = k /\ Frame(k)[i].at = i
              /\ (i = 1 => Frame(k)[i].v = "head")
              /\ (i = 2 => Frame(k)[i].v = "uid")
              /\ (i = 3 => Frame(k)[i].v = "len")
<1> DEFINE F == Frame(k)
<1>1. \A i \in 1 .. Size : F[i] = Byte(CASE i = 1 -> "head" [] i = 2 -> "uid"
                                        [] i = 3 -> "len" [] OTHER -> "body", k, i)
  BY DEF Frame
<1>2. \A i \in 1 .. Size :
        /\ F[i] \in Bytes /\ F[i].of = k /\ F[i].at = i
        /\ (i = 1 => F[i].v = "head")
        /\ (i = 2 => F[i].v = "uid")
        /\ (i = 3 => F[i].v = "len")
  <2> SUFFICES ASSUME NEW i \in 1 .. Size
               PROVE  /\ F[i] \in Bytes /\ F[i].of = k /\ F[i].at = i
                      /\ (i = 1 => F[i].v = "head")
                      /\ (i = 2 => F[i].v = "uid")
                      /\ (i = 3 => F[i].v = "len")
    OBVIOUS
  <2>1. i \in 0 .. Size /\ i \in Int
    BY Constants
  <2>2. \E v \in {"head", "uid", "len", "body"} :
          /\ F[i] = Byte(v, k, i)
          /\ (i = 1 => v = "head") /\ (i = 2 => v = "uid") /\ (i = 3 => v = "len")
    <3> HIDE DEF F
    <3>1. CASE i = 1
      BY <1>1, <3>1
    <3>2. CASE i = 2
      BY <1>1, <3>2
    <3>3. CASE i = 3
      BY <1>1, <3>3
    <3>4. CASE i \notin {1, 2, 3}
      BY <1>1, <3>4
    <3> QED
      BY <3>1, <3>2, <3>3, <3>4
  <2> HIDE DEF F
  <2> QED
    BY <2>1, <2>2 DEF Byte, Bytes
<1>3. F \in [1 .. Size -> Bytes]
  <2>1. F = [i \in 1 .. Size |-> F[i]]
    BY DEF Frame
  <2> HIDE DEF F
  <2> QED
    BY <1>2, <2>1
<1>4. F \in Seq(Bytes) /\ Len(F) = Size
  <2> HIDE DEF F
  <2> QED
    BY <1>3, Constants
<1> QED
  BY <1>2, <1>4

(* What the driver has when one byte more is read.                         *)
LEMMA Got ==
  ASSUME NEW r \in Seq(Bytes), NEW p \in Seq(Bytes), p # <<>>
  PROVE  LET got == Append(r, Head(p))
         IN /\ got \in Seq(Bytes) /\ Len(got) = Len(r) + 1 /\ Len(r) \in Nat
            /\ \A i \in 1 .. Len(r) : got[i] = r[i]
            /\ got[Len(r) + 1] = p[1] /\ Head(p) = p[1]
            /\ Tail(p) \in Seq(Bytes) /\ Len(Tail(p)) = Len(p) - 1
            /\ Len(p) \in Nat \ {0}
            /\ \A i \in 1 .. Len(p) - 1 : Tail(p)[i] = p[i + 1]
<1>1. Head(p) = p[1] /\ p[1] \in Bytes /\ Len(p) \in Nat \ {0}
  BY EmptySeq
<1>2. /\ Tail(p) \in Seq(Bytes) /\ Len(Tail(p)) = Len(p) - 1
      /\ \A i \in 1 .. Len(p) - 1 : Tail(p)[i] = p[i + 1]
  BY HeadTailProperties
<1> QED
  BY <1>1, <1>2, AppendProperties

(* What the line does to a byte, by position.                              *)
LEMMA Removed ==
  ASSUME NEW S, NEW s \in Seq(S), NEW i \in 1 .. Len(s)
  PROVE  LET t == RemoveAt(s, i)
         IN /\ t \in Seq(S) /\ Len(t) = Len(s) - 1
            /\ \A j \in 1 .. Len(t) : t[j] = IF j < i THEN s[j] ELSE s[j + 1]
<1> DEFINE a == SubSeq(s, 1, i - 1)
           b == SubSeq(s, i + 1, Len(s))
<1>1. Len(s) \in Nat /\ \A j \in 1 .. Len(s) : s[j] \in S
  OBVIOUS
<1>2. /\ a \in Seq(S) /\ Len(a) = i - 1
      /\ \A j \in 1 .. i - 1 : a[j] = s[j]
  <2>1. \A j \in 1 .. i - 1 : s[j] \in S
    BY <1>1
  <2>2. a \in Seq(S) /\ Len(a) = IF 1 <= i - 1 THEN (i - 1) - 1 + 1 ELSE 0
    BY <1>1, <2>1, SubSeqProperties, SMT
  <2>3. \A j \in 1 .. (i - 1) - 1 + 1 : a[j] = s[1 + j - 1]
    BY <1>1, <2>1, SubSeqProperties, SMT
  <2> HIDE DEF a
  <2> QED
    BY <1>1, <2>2, <2>3
<1>3. /\ b \in Seq(S) /\ Len(b) = Len(s) - i
      /\ \A j \in 1 .. Len(s) - i : b[j] = s[i + j]
  <2>1. \A j \in i + 1 .. Len(s) : s[j] \in S
    BY <1>1
  <2>2. b \in Seq(S) /\ Len(b) = IF i + 1 <= Len(s) THEN Len(s) - (i + 1) + 1 ELSE 0
    BY <1>1, <2>1, SubSeqProperties, SMT
  <2>3. \A j \in 1 .. Len(s) - (i + 1) + 1 : b[j] = s[i + 1 + j - 1]
    BY <1>1, <2>1, SubSeqProperties, SMT
  <2> HIDE DEF b
  <2> QED
    BY <1>1, <2>2, <2>3
<1>4. /\ a \o b \in Seq(S) /\ Len(a \o b) = Len(a) + Len(b)
      /\ \A j \in 1 .. Len(a) + Len(b) :
           (a \o b)[j] = IF j <= Len(a) THEN a[j] ELSE b[j - Len(a)]
  <2> HIDE DEF a, b
  <2> QED
    BY <1>2, <1>3, ConcatProperties
<1>5. RemoveAt(s, i) = a \o b
  BY DEF RemoveAt
<1> DEFINE c == a \o b
<1>6. /\ c \in Seq(S) /\ Len(c) = Len(s) - 1
      /\ \A j \in 1 .. Len(s) - 1 : c[j] = IF j < i THEN s[j] ELSE s[j + 1]
  <2> HIDE DEF a, b
  <2>1. Len(c) = Len(s) - 1
    BY <1>1, <1>2, <1>3, <1>4
  <2>2. ASSUME NEW j \in 1 .. Len(s) - 1 PROVE c[j] = IF j < i THEN s[j] ELSE s[j + 1]
    <3>1. c[j] = IF j <= i - 1 THEN a[j] ELSE b[j - (i - 1)]
      BY <1>1, <1>2, <1>3, <1>4
    <3> HIDE DEF c
    <3>2. CASE j < i
      BY <1>1, <1>2, <3>1, <3>2
    <3>3. CASE j >= i
      <4>1. j - (i - 1) \in 1 .. Len(s) - i /\ i + (j - (i - 1)) = j + 1
        BY <1>1, <3>3
      <4> QED
        BY <1>1, <1>3, <3>1, <3>3, <4>1
    <3> QED
      BY <3>2, <3>3
  <2> QED
    BY <1>4, <2>1, <2>2
<1> HIDE DEF a, b, c
<1> QED
  BY <1>1, <1>5, <1>6 DEF c

LEMMA Inserted ==
  ASSUME NEW S, NEW s \in Seq(S), NEW i \in 1 .. Len(s)
  PROVE  LET t == InsertAt(s, i, s[i])
         IN /\ t \in Seq(S) /\ Len(t) = Len(s) + 1
            /\ \A j \in 1 .. Len(t) : t[j] = IF j <= i THEN s[j] ELSE s[j - 1]
<1> DEFINE a == SubSeq(s, 1, i - 1)
           e == <<s[i]>>
           b == SubSeq(s, i, Len(s))
           c == a \o e
<1>1. Len(s) \in Nat /\ \A j \in 1 .. Len(s) : s[j] \in S
  OBVIOUS
<1>2. /\ a \in Seq(S) /\ Len(a) = i - 1
      /\ \A j \in 1 .. i - 1 : a[j] = s[j]
  <2>1. \A j \in 1 .. i - 1 : s[j] \in S
    BY <1>1
  <2>2. a \in Seq(S) /\ Len(a) = IF 1 <= i - 1 THEN (i - 1) - 1 + 1 ELSE 0
    BY <1>1, <2>1, SubSeqProperties, SMT
  <2>3. \A j \in 1 .. (i - 1) - 1 + 1 : a[j] = s[1 + j - 1]
    BY <1>1, <2>1, SubSeqProperties, SMT
  <2> HIDE DEF a
  <2> QED
    BY <1>1, <2>2, <2>3
<1>3. /\ b \in Seq(S) /\ Len(b) = Len(s) - i + 1
      /\ \A j \in 1 .. Len(s) - i + 1 : b[j] = s[i + j - 1]
  <2>1. \A j \in i .. Len(s) : s[j] \in S
    BY <1>1
  <2>2. b \in Seq(S) /\ Len(b) = IF i <= Len(s) THEN Len(s) - i + 1 ELSE 0
    BY <1>1, <2>1, SubSeqProperties, SMT
  <2>3. \A j \in 1 .. Len(s) - i + 1 : b[j] = s[i + j - 1]
    BY <1>1, <2>1, SubSeqProperties, SMT
  <2> HIDE DEF b
  <2> QED
    BY <1>1, <2>2, <2>3
<1>4. e \in Seq(S) /\ Len(e) = 1 /\ e[1] = s[i]
  BY <1>1
<1>5. /\ c \in Seq(S) /\ Len(c) = i
      /\ \A j \in 1 .. i : c[j] = s[j]
  <2>1. /\ c \in Seq(S) /\ Len(c) = Len(a) + Len(e)
        /\ \A j \in 1 .. Len(a) + Len(e) :
             c[j] = IF j <= Len(a) THEN a[j] ELSE e[j - Len(a)]
    <3> HIDE DEF a, e
    <3> QED
      BY <1>2, <1>4, ConcatProperties
  <2> HIDE DEF a, e, c
  <2> QED
    BY <1>1, <1>2, <1>4, <2>1
<1> DEFINE d == c \o b
<1>6. /\ d \in Seq(S) /\ Len(d) = Len(c) + Len(b)
      /\ \A j \in 1 .. Len(c) + Len(b) : d[j] = IF j <= Len(c) THEN c[j] ELSE b[j - Len(c)]
  <2> HIDE DEF a, b, c, e
  <2> QED
    BY <1>3, <1>5, ConcatProperties
<1>7. InsertAt(s, i, s[i]) = d
  BY DEF InsertAt
<1> HIDE DEF a, b, c, d, e
<1>8. ASSUME NEW j \in 1 .. Len(s) + 1 PROVE d[j] = IF j <= i THEN s[j] ELSE s[j - 1]
  <2>1. d[j] = IF j <= i THEN c[j] ELSE b[j - i]
    BY <1>1, <1>3, <1>5, <1>6
  <2>2. CASE j <= i
    BY <1>1, <1>5, <2>1, <2>2
  <2>3. CASE j > i
    <3>1. j - i \in 1 .. Len(s) - i + 1 /\ i + (j - i) - 1 = j - 1
      BY <1>1, <2>3
    <3> QED
      BY <1>1, <1>3, <2>1, <2>3, <3>1
  <2> QED
    BY <1>1, <2>2, <2>3
<1> QED
  BY <1>1, <1>3, <1>5, <1>6, <1>7, <1>8

(* A fault of the line keeps the order of the bytes that are of a frame.   *)
LEMMA NoiseEffect ==
  ASSUME port \in Seq(Bytes), Noise
  PROVE  /\ port' \in Seq(Bytes)
         /\ \E f : /\ \A i \in 1 .. Len(port') :
                        Real(port'[i]) => f[i] \in 1 .. Len(port) /\ port'[i] = port[f[i]]
                   /\ \A i, j \in 1 .. Len(port') : i < j => f[i] <= f[j]
<1>1. PICK i \in DOMAIN port :
        \/ port' = RemoveAt(port, i)
        \/ port' = InsertAt(port, i, port[i])
        \/ \E v \in {"head", "uid", "body"} : port' = [port EXCEPT ![i] = Byte(v, 0, 0)]
  BY DEF Noise
<1>2. i \in 1 .. Len(port) /\ Len(port) \in Nat
  OBVIOUS
<1>3. CASE port' = RemoveAt(port, i)
  <2> DEFINE f == [j \in 1 .. Len(port') |-> IF j < i THEN j ELSE j + 1]
  <2>1. /\ port' \in Seq(Bytes) /\ Len(port') = Len(port) - 1
        /\ \A j \in 1 .. Len(port') : port'[j] = IF j < i THEN port[j] ELSE port[j + 1]
    BY <1>2, <1>3, Removed
  <2>2. \A j \in 1 .. Len(port') : f[j] \in 1 .. Len(port) /\ port'[j] = port[f[j]]
    BY <1>2, <2>1
  <2>3. \A j, k \in 1 .. Len(port') : j < k => f[j] <= f[k]
    BY <1>2, <2>1
  <2> HIDE DEF f
  <2> QED
    BY <2>1, <2>2, <2>3
<1>4. CASE port' = InsertAt(port, i, port[i])
  <2> DEFINE f == [j \in 1 .. Len(port') |-> IF j <= i THEN j ELSE j - 1]
  <2>1. /\ port' \in Seq(Bytes) /\ Len(port') = Len(port) + 1
        /\ \A j \in 1 .. Len(port') : port'[j] = IF j <= i THEN port[j] ELSE port[j - 1]
    BY <1>2, <1>4, Inserted
  <2>2. \A j \in 1 .. Len(port') : f[j] \in 1 .. Len(port) /\ port'[j] = port[f[j]]
    BY <1>2, <2>1
  <2>3. \A j, k \in 1 .. Len(port') : j < k => f[j] <= f[k]
    BY <1>2, <2>1
  <2> HIDE DEF f
  <2> QED
    BY <2>1, <2>2, <2>3
<1>5. ASSUME NEW v \in {"head", "uid", "body"}, port' = [port EXCEPT ![i] = Byte(v, 0, 0)]
      PROVE  /\ port' \in Seq(Bytes)
             /\ \E f : /\ \A j \in 1 .. Len(port') :
                            Real(port'[j]) => f[j] \in 1 .. Len(port) /\ port'[j] = port[f[j]]
                       /\ \A j, k \in 1 .. Len(port') : j < k => f[j] <= f[k]
  <2> DEFINE f == [j \in 1 .. Len(port') |-> j]
  <2>1. Byte(v, 0, 0) \in Bytes /\ ~Real(Byte(v, 0, 0))
    BY Constants DEF Byte, Bytes, Real
  <2>2. /\ port' \in Seq(Bytes) /\ Len(port') = Len(port)
        /\ \A j \in 1 .. Len(port) : port'[j] = IF j = i THEN Byte(v, 0, 0) ELSE port[j]
    BY <1>2, <1>5, <2>1, ExceptSeq
  <2>3. \A j \in 1 .. Len(port') :
          Real(port'[j]) => f[j] \in 1 .. Len(port) /\ port'[j] = port[f[j]]
    BY <2>1, <2>2
  <2>4. \A j, k \in 1 .. Len(port') : j < k => f[j] <= f[k]
    BY <1>2, <2>2
  <2> HIDE DEF f
  <2> QED
    BY <2>2, <2>3, <2>4
<1> QED
  BY <1>1, <1>3, <1>4, <1>5

(* What the array says is one frame more, behind all others.               *)
LEMMA Said ==
  ASSUME NEW m \in Message, port \in Seq(Bytes), sent \in Seq(Message), Says(m)
  PROVE  LET n == Len(sent) + 1
         IN /\ sent' \in Seq(Message) /\ Len(sent') = n /\ n \in Nat
            /\ \A k \in 1 .. Len(sent) : sent'[k] = sent[k]
            /\ sent'[n] = m
            /\ port' \in Seq(Bytes) /\ Len(port') = Len(port) + Size /\ Len(port) \in Nat
            /\ \A i \in 1 .. Len(port) : port'[i] = port[i]
            /\ \A i \in Len(port) + 1 .. Len(port') : port'[i] = Frame(n)[i - Len(port)]
<1>1. /\ sent' \in Seq(Message) /\ Len(sent') = Len(sent) + 1 /\ Len(sent) \in Nat
      /\ \A k \in 1 .. Len(sent) : sent'[k] = sent[k]
      /\ sent'[Len(sent) + 1] = m
  BY AppendProperties DEF Says
<1> DEFINE n == Len(sent) + 1
           F == Frame(n)
<1>2. n \in Nat /\ Len(sent') = n
  BY <1>1
<1>3. F \in Seq(Bytes) /\ Len(F) = Size
  BY <1>2, FrameFacts
<1>4. port' = port \o F
  BY <1>2 DEF Says
<1> HIDE DEF n, F
<1>5. /\ port' \in Seq(Bytes) /\ Len(port') = Len(port) + Size
      /\ \A i \in 1 .. Len(port) + Size :
           port'[i] = IF i <= Len(port) THEN port[i] ELSE F[i - Len(port)]
  BY <1>3, <1>4, ConcatProperties
<1>6. Len(port) \in Nat /\ Size \in Nat
  BY Constants
<1>7. \A i \in 1 .. Len(port) : port'[i] = port[i]
  BY <1>5, <1>6
<1>8. \A i \in Len(port) + 1 .. Len(port') : port'[i] = F[i - Len(port)]
  BY <1>5, <1>6
<1> QED
  BY <1>1, <1>2, <1>5, <1>6, <1>7, <1>8 DEF n, F

(* A byte that is read completes a frame of the array, or nothing that     *)
(* others see.                                                             *)
Completes(k) ==
  /\ Append(Receive_Data, Head(port)) = Frame(k)
  /\ taken' = k /\ skipped' = (skipped \/ k # taken + 1)
  /\ Receive_Data' = <<>>
  /\ IF sent[k] = Wake THEN UNCHANGED reply
                       ELSE process_result' = TRUE /\ device_message' = sent[k]

LEMMA ReadEffect ==
  ASSUME TypeInv, uart_analyse
  PROVE  /\ port # <<>> /\ port' = Tail(port) /\ node \in {"run", "wait"}
         /\ UNCHANGED <<commands, sent, calls, given, noise, timedOut>>
         /\ node' \in {node, "crashed"}
         /\ \/ UNCHANGED node /\ \E k \in 1 .. Len(sent) : Completes(k)
            \/ /\ UNCHANGED <<reply, taken, skipped>>
               /\ Receive_Data' \in {Receive_Data, <<>>, Append(Receive_Data, Head(port))}
<1> DEFINE got == Append(Receive_Data, Head(port))
<1>1. /\ port # <<>> /\ port' = Tail(port) /\ node \in {"run", "wait"}
      /\ UNCHANGED <<commands, sent, calls, given, noise, timedOut>>
  BY DEF uart_analyse, Running
<1>2. \/ Stray(got) /\ node' = "crashed" /\ UNCHANGED <<uart, reply, taken, skipped>>
      \/ /\ ~Stray(got) /\ UNCHANGED node
         /\ \/ process_data(got) /\ Receive_Data' = <<>>
            \/ Receive_Data' = got /\ UNCHANGED <<reply, taken, skipped>>
  BY Zenon DEF uart_analyse
<1>3. CASE Stray(got) /\ node' = "crashed" /\ UNCHANGED <<uart, reply, taken, skipped>>
  BY <1>1, <1>3 DEF uart
<1>4. CASE /\ ~Stray(got) /\ UNCHANGED node
           /\ Receive_Data' = got /\ UNCHANGED <<reply, taken, skipped>>
  BY <1>1, <1>4
<1>5. CASE ~Stray(got) /\ UNCHANGED node /\ process_data(got) /\ Receive_Data' = <<>>
  <2>1. CASE \E k \in 1 .. Len(sent) : got = Frame(k)
    <3>1. PICK k \in 1 .. Len(sent) : got = Frame(k)
      BY <2>1
    <3>2. k \in Nat /\ Frame(k)[1].of = k
      <4>1. k \in Nat /\ 1 \in 1 .. Size
        BY Constants DEF TypeInv
      <4> QED
        BY <4>1, FrameFacts
    <3>3. got[1].of = k
      BY <3>1, <3>2
    <3> HIDE DEF got
    <3>4. /\ taken' = k
          /\ skipped' = (skipped \/ k # taken + 1)
          /\ IF sent[k] = Wake THEN UNCHANGED reply
                               ELSE process_result' = TRUE /\ device_message' = sent[k]
      BY <1>5, <2>1, <3>3, Zenon DEF process_data
    <3>5. Completes(k)
      BY <1>5, <3>1, <3>4 DEF Completes, got
    <3> QED
      BY <1>1, <1>5, <3>5
  <2>2. CASE ~(\E k \in 1 .. Len(sent) : got = Frame(k))
    <3>1. UNCHANGED <<taken, skipped, reply>>
      BY <1>5, <2>2, Zenon DEF process_data
    <3> QED
      BY <1>1, <1>5, <3>1
  <2> QED
    BY <2>1, <2>2
<1> QED
  BY <1>2, <1>3, <1>4, <1>5

-----------------------------------------------------------------------------
LEMMA TypeInit == Init => TypeInv
<1> SUFFICES ASSUME Init PROVE TypeInv
  OBVIOUS
<1>1. /\ Receive_Data = <<>> /\ port = <<>> /\ commands = <<>> /\ sent = <<>>
      /\ \A S : <<>> \in Seq(S)
      /\ Len(<<>>) = 0
  BY DEF Init
<1>2. /\ node = "run" /\ frame_len = 0 /\ device_message = Wake /\ taken = 0 /\ calls = 0
      /\ given = [call |-> 0, result |-> 0] /\ noise = 0
  BY DEF Init
<1>3. process_result \in BOOLEAN /\ skipped \in BOOLEAN /\ timedOut \in BOOLEAN
  BY Zenon DEF Init
<1>b. reading \in BOOLEAN /\ late \in BOOLEAN /\ damaged \in BOOLEAN
  BY Zenon DEF Init
<1>4. TypeOK
  BY <1>1, <1>2, <1>3, <1>b, Constants DEF TypeOK, Wake, Call
<1> QED
  BY <1>1, <1>2, <1>3, <1>4 DEF TypeInv

LEMMA FlagStep ==
  ASSUME TypeInv, [Next]_vars
  PROVE  /\ process_result' \in BOOLEAN /\ skipped' \in BOOLEAN /\ timedOut' \in BOOLEAN
         /\ reading' \in BOOLEAN /\ late' \in BOOLEAN /\ damaged' \in BOOLEAN
<1>1. /\ process_result \in BOOLEAN /\ skipped \in BOOLEAN /\ timedOut \in BOOLEAN
      /\ reading \in BOOLEAN /\ late \in BOOLEAN /\ damaged \in BOOLEAN
  BY Zenon DEF TypeInv, TypeOK
<1>2. CASE uart_analyse
  <2>1. timedOut' = timedOut /\ late' = late /\ damaged' \in BOOLEAN
    BY <1>2, Zenon DEF uart_analyse
  <2>2. reading' = FALSE \/ reading' = reading
    BY <1>2, Zenon DEF uart_analyse
  <2>3. \/ \E k \in 1 .. Len(sent) : Completes(k)
        \/ UNCHANGED <<reply, taken, skipped>>
    BY <1>2, ReadEffect, Zenon
  <2> QED
    BY <1>1, <2>1, <2>2, <2>3, Zenon DEF Completes, reply
<1>3. CASE StartCall \/ SetAwakeWord
  BY <1>1, <1>3, Zenon DEF StartCall, SetAwakeWord
<1>4. CASE EndCall
  BY <1>1, <1>4, Zenon DEF EndCall, reply
<1>5. CASE Timeout
  BY <1>1, <1>5, Zenon DEF Timeout, reply
<1>6. CASE Drained \/ Poll \/ Breaks
  BY <1>1, <1>6, Zenon DEF Drained, Poll, Breaks, reply, hist
<1>7. CASE TimePasses \/ Heard \/ Obeys \/ Noise
  BY <1>1, <1>7, Zenon DEF TimePasses, Heard, Obeys, Noise, reply, hist
<1>8. CASE UNCHANGED vars
  BY <1>1, <1>8, Zenon DEF vars, reply, hist
<1> QED
  BY <1>2, <1>3, <1>4, <1>5, <1>6, <1>7, <1>8, Zenon DEF Next, Driver

(* Steps that only look at the clock or at the port, or end the driver.    *)
Idle == Drained \/ Poll \/ Breaks \/ TimePasses \/ UNCHANGED vars

LEMMA IdleEffect ==
  ASSUME Idle
  PROVE  UNCHANGED <<Receive_Data, frame_len, process_result, device_message, port, commands,
                     sent, taken, calls, given, noise, skipped, timedOut, damaged>>
         /\ node' \in {node, "crashed"}
BY DEF Idle, Drained, Poll, Breaks, TimePasses, vars, uart, reply, array, hist

LEMMA TypeStep == TypeInv /\ [Next]_vars => TypeInv'
<1> SUFFICES ASSUME TypeInv, [Next]_vars PROVE TypeInv'
  OBVIOUS
<1> USE DEF TypeInv, TypeOK
<1>0. /\ Len(sent) \in Nat /\ DOMAIN sent = 1 .. Len(sent)
      /\ \A k \in 1 .. Len(sent) : sent[k] \in Message
  OBVIOUS
<1>f. /\ process_result' \in BOOLEAN /\ skipped' \in BOOLEAN /\ timedOut' \in BOOLEAN
      /\ reading' \in BOOLEAN /\ late' \in BOOLEAN /\ damaged' \in BOOLEAN
  BY FlagStep
<1>1. CASE uart_analyse
  <2> DEFINE got == Append(Receive_Data, Head(port))
  <2>1. /\ port # <<>> /\ port' = Tail(port) /\ node \in {"run", "wait"}
        /\ UNCHANGED <<commands, sent, calls, given, noise, timedOut>>
        /\ node' \in {node, "crashed"}
        /\ \/ UNCHANGED node /\ \E k \in 1 .. Len(sent) : Completes(k)
           \/ /\ UNCHANGED <<reply, taken, skipped>>
              /\ Receive_Data' \in {Receive_Data, <<>>, got}
    BY <1>1, ReadEffect
  <2>2. port' \in Seq(Bytes) /\ got \in Seq(Bytes)
    BY <2>1, Got
  <2>3. /\ Receive_Data' \in Seq(Bytes)
        /\ frame_len' \in {0, Size} \cup Lengths
        /\ IF frame_len' = 0 THEN Len(Receive_Data') < 3
                             ELSE Len(Receive_Data') \in 3 .. frame_len' - 1
    <3>0. Len(Receive_Data) \in Nat /\ Len(got) = Len(Receive_Data) + 1
      BY <2>1, Got
    <3>1. CASE UNCHANGED uart
      BY <3>1 DEF uart
    <3>2. CASE Receive_Data' = <<>> /\ frame_len' = 0
      <4>1. Len(<<>>) = 0
        OBVIOUS
      <4> QED
        BY <3>2, <4>1
    <3>3. ASSUME NEW n \in IF Len(got) = 3 THEN LengthOf(got[3]) ELSE {frame_len},
                 Len(got) # n, Receive_Data' = got, frame_len' = n
          PROVE  /\ Receive_Data' \in Seq(Bytes)
                 /\ frame_len' \in {0, Size} \cup Lengths
                 /\ IF frame_len' = 0 THEN Len(Receive_Data') < 3
                                      ELSE Len(Receive_Data') \in 3 .. frame_len' - 1
      <4>1. LengthOf(got[3]) \subseteq {Size} \cup Lengths
        BY DEF LengthOf
      <4>2. frame_len \in Nat
        BY Constants
      <4> HIDE DEF got
      <4>3. CASE Len(got) = 3
        <5>1. n \in {Size} \cup Lengths /\ n \in Nat /\ n > 3
          BY <3>3, <4>1, <4>3, Constants
        <5> QED
          BY <2>2, <3>3, <4>3, <5>1
      <4>4. CASE Len(got) # 3
        BY <2>2, <3>0, <3>3, <4>2, <4>4
      <4> QED
        BY <4>3, <4>4
    <3>4. \/ UNCHANGED uart
          \/ Receive_Data' = <<>> /\ frame_len' = 0
          \/ \E n \in IF Len(got) = 3 THEN LengthOf(got[3]) ELSE {frame_len} :
               Len(got) # n /\ Receive_Data' = got /\ frame_len' = n
      BY <1>1, Zenon DEF uart_analyse
    <3> QED
      BY <3>1, <3>2, <3>3, <3>4
  <2>4. device_message' \in Message /\ taken' \in 0 .. Len(sent)
    <3>1. ASSUME NEW k \in 1 .. Len(sent), Completes(k)
          PROVE  device_message' \in Message /\ taken' \in 0 .. Len(sent)
      <4>1. device_message' \in {sent[k], device_message}
        BY <3>1, Zenon DEF Completes, reply
      <4>2. taken' = k
        BY <3>1, Zenon DEF Completes
      <4> QED
        BY <1>0, <4>1, <4>2 DEF Message
    <3> HIDE DEF got
    <3>2. CASE UNCHANGED <<reply, taken, skipped>>
      BY <3>2 DEF reply, Message
    <3> QED
      BY <2>1, <3>1, <3>2
  <2> HIDE DEF got
  <2> QED
    BY <1>f, <2>1, <2>2, <2>3, <2>4 DEF Message
<1>2. CASE StartCall
  <2>1. calls' \in Nat /\ calls' <= MaxCalls /\ calls' \in Call
    BY <1>2, Constants DEF StartCall, Call
  <2>2. commands' \in Seq(Call)
    <3>1. CASE commands' = Append(commands, calls')
      BY <2>1, <3>1
    <3>2. CASE commands' = commands
      BY <3>2
    <3> QED
      BY <1>2, <3>1, <3>2 DEF StartCall
  <2> QED
    BY <1>f, <1>2, <2>1, <2>2 DEF StartCall, uart
<1>3. CASE EndCall
  <2>1. given' \in [call : 0 .. MaxCalls, result : 0 .. MaxCalls]
    <3>1. PICK m \in IF damaged THEN Call \cup {Wake} ELSE {device_message} :
            given' = [call |-> calls, result |-> m]
      BY <1>3 DEF EndCall
    <3>2. m \in Call \cup {Wake}
      BY <3>1
    <3> QED
      BY <3>1, <3>2, Constants DEF Call, Wake
  <2> QED
    BY <1>f, <1>3, <2>1 DEF EndCall, uart, reply, array
<1>4. CASE Timeout
  BY <1>f, <1>4 DEF Timeout, uart, reply, array
<1>5. CASE SetAwakeWord
  BY <1>f, <1>5, Constants DEF SetAwakeWord, uart, array
<1>6. CASE Heard
  <2>1. Wake \in Message /\ Says(Wake)
    BY <1>6 DEF Heard, Message
  <2>2. /\ sent' \in Seq(Message) /\ Len(sent') = Len(sent) + 1
        /\ port' \in Seq(Bytes)
    BY <2>1, Said
  <2> QED
    BY <1>f, <1>0, <1>6, <2>2 DEF Heard, uart, reply, Message
<1>7. CASE Obeys
  <2>1. commands # <<>> /\ Head(commands) \in Call /\ commands' \in Seq(Call)
    BY <1>7 DEF Obeys
  <2>2. CASE Says(Head(commands))
    <3>1. /\ sent' \in Seq(Message) /\ Len(sent') = Len(sent) + 1
          /\ port' \in Seq(Bytes)
      BY <2>1, <2>2, Said DEF Message
    <3>2. UNCHANGED <<node, uart, reply, taken, calls, given, noise>>
      BY <1>7, Zenon DEF Obeys, hist
    <3>3. taken' \in 0 .. Len(sent')
      BY <1>0, <3>1, <3>2
    <3>4. \A i \in DOMAIN sent' : sent'[i] \in Call \cup {Wake}
      BY <3>1 DEF Message
    <3> QED
      BY <1>f, <2>1, <3>1, <3>2, <3>3, <3>4 DEF uart, reply
  <2>3. CASE UNCHANGED <<port, sent>>
    BY <1>f, <1>7, <2>1, <2>3 DEF Obeys, uart, reply, hist
  <2> QED
    BY <1>7, <2>2, <2>3 DEF Obeys
<1>8. CASE Noise
  <2>1. port' \in Seq(Bytes)
    BY <1>8, NoiseEffect
  <2> QED
    BY <1>f, <1>8, <2>1 DEF Noise, uart, reply
<1>9. CASE Idle
  BY <1>f, <1>9, IdleEffect
<1> QED
  BY <1>1, <1>2, <1>3, <1>4, <1>5, <1>6, <1>7, <1>8, <1>9 DEF Next, Driver, Idle

LEMMA TypesKept == Spec => []TypeInv
BY TypeInit, TypeStep, PTL DEF Spec

(* The types hold in every reachable state: whatever the line does, no     *)
(* frame is read past the length it announced, long as that may be         *)
(* (wheeltec_mic.cpp:113-132).                                             *)
THEOREM TypesCorrect == Spec => []TypeOK
<1>1. TypeInv => TypeOK
  BY DEF TypeInv
<1> QED
  BY <1>1, TypesKept, PTL


-----------------------------------------------------------------------------
(* The first and the last byte of a frame.                                 *)
LEMMA FrameEnds ==
  ASSUME NEW k \in Nat
  PROVE  /\ Len(Frame(k)) = Size
         /\ Frame(k)[1].of = k /\ Frame(k)[1].at = 1
         /\ Frame(k)[Size].of = k /\ Frame(k)[Size].at = Size
<1>1. 1 \in 1 .. Size /\ Size \in 1 .. Size
  BY Constants
<1> QED
  BY <1>1, FrameFacts

(* A frame that is completed is a later one than the last taken, and its   *)
(* last byte was the first in the port.                                    *)
LEMMA TakenLater ==
  ASSUME TypeInv, StreamInv, port # <<>>, NEW k \in 1 .. Len(sent),
         Append(Receive_Data, Head(port)) = Frame(k)
  PROVE  /\ k \in Nat /\ k > taken
         /\ port[1].of = k /\ port[1].at = Size /\ Len(Receive_Data) = Size - 1
<1> DEFINE got == Append(Receive_Data, Head(port))
<1>1. Receive_Data \in Seq(Bytes) /\ port \in Seq(Bytes) /\ taken \in Nat /\ Len(sent) \in Nat
  BY DEF TypeInv
<1>2. /\ Len(got) = Len(Receive_Data) + 1 /\ Len(Receive_Data) \in Nat
      /\ \A i \in 1 .. Len(Receive_Data) : got[i] = Receive_Data[i]
      /\ got[Len(Receive_Data) + 1] = port[1] /\ Len(port) \in Nat \ {0}
  BY <1>1, Got
<1>3. k \in Nat /\ k # 0 /\ 1 \in 1 .. Size /\ Size \in 1 .. Size /\ 1 # Size /\ Size \in Nat
  BY <1>1, Constants
<1>4. got = Frame(k)
  OBVIOUS
<1>5. /\ Len(Frame(k)) = Size
      /\ Frame(k)[1].of = k /\ Frame(k)[1].at = 1
      /\ Frame(k)[Size].of = k /\ Frame(k)[Size].at = Size
  BY <1>3, FrameEnds
<1> HIDE DEF got
<1>6. port[1].of = k /\ port[1].at = Size /\ Len(Receive_Data) = Size - 1
  BY <1>2, <1>3, <1>4, <1>5
<1>7. Fresh(taken, got[1])
  <2>1. got[1] = Receive_Data[1] /\ 1 \in 1 .. Len(Receive_Data)
    BY <1>2, <1>6, Constants
  <2> QED
    BY <2>1 DEF StreamInv
<1> QED
  BY <1>1, <1>3, <1>4, <1>5, <1>6, <1>7 DEF Fresh, Real

LEMMA StreamStep == TypeInv /\ TypeInv' /\ StreamInv /\ [Next]_vars => StreamInv'
<1> SUFFICES ASSUME TypeInv, TypeInv', StreamInv, [Next]_vars PROVE StreamInv'
  OBVIOUS
<1>0. /\ Receive_Data \in Seq(Bytes) /\ port \in Seq(Bytes) /\ taken \in Nat
      /\ Len(port) \in Nat /\ Len(Receive_Data) \in Nat /\ Len(sent) \in Nat
      /\ taken <= Len(sent)
  BY DEF TypeInv, TypeOK
<1>1. CASE uart_analyse
  <2>1. /\ port # <<>> /\ port' = Tail(port) /\ sent' = sent
        /\ \/ \E k \in 1 .. Len(sent) : Completes(k)
           \/ /\ taken' = taken
              /\ Receive_Data' \in {Receive_Data, <<>>, Append(Receive_Data, Head(port))}
    BY <1>1, ReadEffect
  <2>2. /\ Len(port') = Len(port) - 1 /\ 1 \in 1 .. Len(port) /\ Head(port) = port[1]
        /\ \A i \in 1 .. Len(port') : port'[i] = port[i + 1] /\ i + 1 \in 1 .. Len(port)
        /\ \A i \in 1 .. Len(port') : 1 < i + 1 /\ port'[i] \in Bytes
    <3>1. /\ Len(port') = Len(port) - 1 /\ Head(port) = port[1] /\ Len(port) \in Nat \ {0}
          /\ \A i \in 1 .. Len(port) - 1 : port'[i] = port[i + 1]
      BY <1>0, <2>1, Got
    <3>2. port' \in Seq(Bytes)
      BY DEF TypeInv
    <3> QED
      BY <3>1, <3>2
  <2>3. \A i \in 1 .. Len(port') : port'[i].of <= Len(sent')
    BY <2>1, <2>2 DEF StreamInv
  <2>4. \A i, j \in 1 .. Len(port') : i < j => Before(port'[i], port'[j])
    <3> SUFFICES ASSUME NEW i \in 1 .. Len(port'), NEW j \in 1 .. Len(port'), i < j
                 PROVE  Before(port'[i], port'[j])
      OBVIOUS
    <3>1. i + 1 \in 1 .. Len(port) /\ j + 1 \in 1 .. Len(port) /\ i + 1 < j + 1
      BY <2>2
    <3>2. Before(port[i + 1], port[j + 1])
      BY <3>1 DEF StreamInv
    <3> QED
      BY <2>2, <3>2
  <2>5. CASE \E k \in 1 .. Len(sent) : Completes(k)
    <3>1. PICK k \in 1 .. Len(sent) : Completes(k)
      BY <2>5
    <3>2. /\ k \in Nat /\ k # 0 /\ taken' = k /\ Receive_Data' = <<>>
          /\ port[1].of = k /\ port[1].at = Size
      <4>1. /\ taken' = k /\ Receive_Data' = <<>>
            /\ Append(Receive_Data, Head(port)) = Frame(k)
        BY <3>1, Zenon DEF Completes
      <4>2. k \in Nat /\ k > taken /\ port[1].of = k /\ port[1].at = Size
        BY <2>1, <4>1, TakenLater
      <4> QED
        BY <1>0, <4>1, <4>2
    <3>3. ASSUME NEW i \in 1 .. Len(port') PROVE Fresh(taken', port'[i])
      <4>1. Before(port[1], port'[i]) /\ port'[i] \in Bytes
        BY <2>2 DEF StreamInv
      <4> QED
        BY <3>2, <4>1, Constants DEF Before, Fresh, Real, Bytes
    <3> QED
      <4>1. \A i \in 1 .. Len(Receive_Data') : Fresh(taken', Receive_Data'[i])
        BY <3>2
      <4> QED
        BY <2>3, <2>4, <3>3, <4>1 DEF StreamInv
  <2>6. CASE /\ taken' = taken
             /\ Receive_Data' \in {Receive_Data, <<>>, Append(Receive_Data, Head(port))}
    <3>1. \A i \in 1 .. Len(port) : Fresh(taken', port[i])
      BY <2>6 DEF StreamInv, Fresh
    <3>2. \A i \in 1 .. Len(Receive_Data) : Fresh(taken', Receive_Data[i])
      BY <2>6 DEF StreamInv, Fresh
    <3>3. \A i \in 1 .. Len(Receive_Data') : Fresh(taken', Receive_Data'[i])
      <4>1. CASE Receive_Data' = Append(Receive_Data, Head(port))
        <5>1. /\ Len(Receive_Data') = Len(Receive_Data) + 1
              /\ \A i \in 1 .. Len(Receive_Data) : Receive_Data'[i] = Receive_Data[i]
              /\ Receive_Data'[Len(Receive_Data) + 1] = port[1]
          BY <1>0, <2>1, <4>1, Got
        <5> QED
          BY <1>0, <2>2, <3>1, <3>2, <5>1
      <4> QED
        BY <2>6, <3>2, <4>1
    <3> QED
      BY <2>2, <2>3, <2>4, <3>1, <3>3 DEF StreamInv, Before, Real
  <2> QED
    BY <2>1, <2>5, <2>6
<1>2. ASSUME NEW m \in Message, Says(m), UNCHANGED <<uart, taken>>
      PROVE  StreamInv'
  <2> DEFINE n == Len(sent) + 1
  <2>1. /\ n \in Nat /\ Len(sent') = n
        /\ Len(port') = Len(port) + Size /\ Size \in Nat
        /\ \A i \in 1 .. Len(port) : port'[i] = port[i]
        /\ \A i \in Len(port) + 1 .. Len(port') : port'[i] = Frame(n)[i - Len(port)]
    <3>1. port \in Seq(Bytes) /\ sent \in Seq(Message) /\ Size \in Nat
      BY Constants DEF TypeInv
    <3> QED
      BY <1>2, <3>1, Said
  <2>2. \A i \in 1 .. Len(port) : Fresh(taken', port'[i]) /\ port'[i].of <= Len(sent)
    BY <1>2, <2>1 DEF StreamInv, Fresh
  <2>3. \A i \in Len(port) + 1 .. Len(port') :
          port'[i].of = n /\ port'[i].at = i - Len(port)
    <3> SUFFICES ASSUME NEW i \in Len(port) + 1 .. Len(port')
                 PROVE  port'[i].of = n /\ port'[i].at = i - Len(port)
      OBVIOUS
    <3>1. i - Len(port) \in 1 .. Size
      BY <1>0, <2>1
    <3>2. port'[i] = Frame(n)[i - Len(port)]
      BY <2>1
    <3> HIDE DEF n
    <3> QED
      <4>1. \A k \in 1 .. Size : Frame(n)[k].of = n /\ Frame(n)[k].at = k
        BY <2>1, FrameFacts
      <4> QED
        BY <3>1, <3>2, <4>1
  <2>4. \A i \in Len(port) + 1 .. Len(port') : Fresh(taken', port'[i])
    BY <1>0, <1>2, <2>3 DEF Fresh
  <2>5. \A i, j \in 1 .. Len(port') : i < j => Before(port'[i], port'[j])
    <3> SUFFICES ASSUME NEW i \in 1 .. Len(port'), NEW j \in 1 .. Len(port'), i < j
                 PROVE  Before(port'[i], port'[j])
      OBVIOUS
    <3>1. CASE j <= Len(port)
      BY <1>0, <2>1, <3>1 DEF StreamInv
    <3>2. CASE i > Len(port)
      BY <1>0, <2>1, <2>3, <3>2 DEF Before
    <3>3. CASE i <= Len(port) /\ j > Len(port)
      <4>1. port'[j].of = n
        <5>1. j \in Len(port) + 1 .. Len(port')
          BY <1>0, <2>1, <3>3
        <5> QED
          BY <2>3, <5>1
      <4>2. port'[i].of <= Len(sent) /\ port'[i].of \in Nat
        <5>1. port'[i] \in Bytes
          BY DEF TypeInv
        <5> QED
          BY <1>0, <2>2, <3>3, <5>1 DEF Bytes
      <4> QED
        BY <1>0, <4>1, <4>2 DEF Before
    <3> QED
      BY <1>0, <2>1, <3>1, <3>2, <3>3
  <2>6. ASSUME NEW i \in 1 .. Len(port') PROVE Fresh(taken', port'[i]) /\ port'[i].of <= Len(sent')
    <3>1. CASE i <= Len(port)
      <4>1. port'[i] \in Bytes
        BY DEF TypeInv
      <4> QED
        BY <1>0, <2>1, <2>2, <3>1, <4>1 DEF Bytes
    <3>2. CASE i > Len(port)
      <4>1. i \in Len(port) + 1 .. Len(port')
        BY <1>0, <3>2
      <4>2. port'[i].of = n /\ Fresh(taken', port'[i])
        BY <2>3, <2>4, <4>1
      <4> QED
        BY <2>1, <4>2
    <3> QED
      BY <1>0, <2>1, <3>1, <3>2
  <2>7. \A i \in 1 .. Len(Receive_Data') : Fresh(taken', Receive_Data'[i])
    BY <1>2 DEF StreamInv, Fresh, uart
  <2> HIDE DEF n
  <2> QED
    BY <2>5, <2>6, <2>7 DEF StreamInv, Before, Real
<1>3. CASE Heard
  BY <1>2, <1>3 DEF Heard, Message
<1>4. CASE Obeys
  <2>1. Head(commands) \in Message
    BY <1>4 DEF Obeys, TypeInv, Message
  <2>2. CASE Says(Head(commands))
    BY <1>2, <1>4, <2>1, <2>2 DEF Obeys, hist
  <2>3. CASE UNCHANGED <<port, sent>>
    BY <1>4, <2>3 DEF Obeys, uart, hist, StreamInv, Fresh, Before, Real
  <2> QED
    BY <1>4, <2>2, <2>3 DEF Obeys
<1>5. CASE Noise
  <2>1. UNCHANGED <<Receive_Data, taken, sent>>
    BY <1>5 DEF Noise, uart
  <2>2. PICK f : /\ \A i \in 1 .. Len(port') :
                      Real(port'[i]) => f[i] \in 1 .. Len(port) /\ port'[i] = port[f[i]]
                 /\ \A i, j \in 1 .. Len(port') : i < j => f[i] <= f[j]
    BY <1>0, <1>5, NoiseEffect
  <2>3. \A i \in 1 .. Len(port') : Fresh(taken', port'[i]) /\ port'[i].of <= Len(sent')
    BY <1>0, <2>1, <2>2 DEF StreamInv, Fresh, Real
  <2>4. ASSUME NEW i \in 1 .. Len(port'), NEW j \in 1 .. Len(port'), i < j,
               Real(port'[i]), Real(port'[j])
        PROVE  Before(port'[i], port'[j])
    <3>1. /\ f[i] \in 1 .. Len(port) /\ port'[i] = port[f[i]]
          /\ f[j] \in 1 .. Len(port) /\ port'[j] = port[f[j]]
          /\ f[i] <= f[j]
      BY <2>2, <2>4
    <3>2. CASE f[i] < f[j]
      BY <3>1, <3>2 DEF StreamInv
    <3>3. CASE f[i] = f[j]
      <4>1. port'[i] \in Bytes /\ port'[j] = port'[i]
        BY <3>1, <3>3 DEF TypeInv
      <4> QED
        BY <4>1 DEF Before, Bytes
    <3> QED
      BY <1>0, <3>1, <3>2, <3>3
  <2>5. \A i, j \in 1 .. Len(port') : i < j => Before(port'[i], port'[j])
    BY <2>4 DEF Before
  <2> QED
    BY <2>1, <2>3, <2>5 DEF StreamInv, Fresh, Before, Real
<1>6. CASE StartCall \/ EndCall \/ Timeout \/ SetAwakeWord \/ Idle
  <2>1. UNCHANGED <<Receive_Data, port, sent, taken>>
    BY <1>6, IdleEffect DEF StartCall, EndCall, Timeout, SetAwakeWord, uart, array
  <2> QED
    BY <2>1 DEF StreamInv, Fresh, Before, Real
<1> QED
  BY <1>1, <1>3, <1>4, <1>5, <1>6 DEF Next, Driver, Idle


-----------------------------------------------------------------------------
LEMMA NamesStep ==
  TypeInv /\ TypeInv' /\ StreamInv /\ NamesInv /\ OneInv /\ [Next]_vars => NamesInv'
<1> SUFFICES ASSUME TypeInv, TypeInv', StreamInv, NamesInv, OneInv, [Next]_vars PROVE NamesInv'
  OBVIOUS
<1>0. /\ calls \in Nat /\ calls' \in Nat /\ commands \in Seq(Call) /\ sent \in Seq(Message)
      /\ Len(commands) \in Nat /\ Len(sent) \in Nat
      /\ \A i \in 1 .. Len(commands) : commands[i] \in Call
      /\ \A k \in 1 .. Len(sent) : sent[k] \in Message
      /\ MaxCalls \in Nat
  BY Constants DEF TypeInv
<1>a. /\ \A i \in 1 .. Len(commands) : commands[i] \in Int
      /\ \A k \in 1 .. Len(sent) : sent[k] \in Int
  <2>1. Call \subseteq Int /\ Message \subseteq Int
    BY Constants DEF Call, Message, Wake
  <2> QED
    BY <1>0, <2>1
<1>b. ASSUME calls' = calls + 1
      PROVE  /\ \A i \in 1 .. Len(commands) : commands[i] <= calls'
             /\ \A k \in 1 .. Len(sent) : sent[k] <= calls'
  <2>0. calls \in Int
    BY <1>0
  <2>1. ASSUME NEW i \in 1 .. Len(commands) PROVE commands[i] <= calls'
    <3>1. commands[i] <= calls /\ commands[i] \in Int
      BY <1>a, Zenon DEF NamesInv
    <3> QED
      BY <1>b, <2>0, <3>1
  <2>2. ASSUME NEW k \in 1 .. Len(sent) PROVE sent[k] <= calls'
    <3>1. sent[k] <= calls /\ sent[k] \in Int
      BY <1>a, Zenon DEF NamesInv
    <3> QED
      BY <1>b, <2>0, <3>1
  <2> QED
    BY <2>1, <2>2
<1>1. CASE uart_analyse
  <2>0. damaged => damaged'
    BY <1>1, Zenon DEF uart_analyse
  <2>1. /\ UNCHANGED <<commands, sent, calls, given, timedOut>>
        /\ node' = "wait" => node = "wait"
        /\ port # <<>>
        /\ \/ \E k \in 1 .. Len(sent) : Completes(k)
           \/ UNCHANGED reply
    BY <1>1, ReadEffect
  <2>2. process_result' => device_message' \in 1 .. calls
    <3>1. ASSUME NEW k \in 1 .. Len(sent), Completes(k), process_result'
          PROVE  device_message' \in 1 .. calls
      <4>1. CASE sent[k] = Wake
        BY <3>1, <4>1 DEF Completes, reply, NamesInv
      <4>2. CASE sent[k] # Wake
        <5>1. device_message' = sent[k]
          BY <3>1, <4>2 DEF Completes
        <5> QED
          BY <1>0, <4>2, <5>1 DEF NamesInv, Message, Call
      <4> QED
        BY <4>1, <4>2
    <3> QED
      BY <2>1, <3>1 DEF reply, NamesInv
  <2> QED
    BY <2>0, <2>1, <2>2 DEF NamesInv, OwnReply
<1>2. CASE StartCall
  <2>1. calls' = calls + 1 /\ ~process_result' /\ UNCHANGED <<sent, given, timedOut, damaged>>
    BY <1>2 DEF StartCall
  <2>2. \A i \in 1 .. Len(commands') : commands'[i] <= calls'
    <3>1. CASE commands' = Append(commands, calls')
      <4>1. calls' \in Call
        BY <3>1, <1>0 DEF TypeInv, TypeOK, Call
      <4> QED
        BY <1>0, <1>b, <2>1, <3>1
    <3>2. CASE commands' = commands
      BY <1>b, <2>1, <3>2
    <3> QED
      BY <1>2, <3>1, <3>2 DEF StartCall
  <2>3. \A k \in 1 .. Len(sent) : sent[k] <= calls'
    BY <1>b, <2>1
  <2> QED
    BY <1>0, <2>1, <2>2, <2>3 DEF NamesInv, OwnReply
<1>3. CASE EndCall
  <2>1. /\ node = "wait" /\ process_result /\ node' = "run"
        /\ UNCHANGED <<commands, sent, calls, process_result, device_message, timedOut, damaged>>
    BY <1>3 DEF EndCall, reply, array
  <2>2. device_message \in 1 .. calls /\ (~timedOut => device_message = calls)
    BY <2>1 DEF NamesInv, OneInv
  <2>3. damaged \/ (given'.result = device_message /\ given'.call = calls)
    BY <1>3 DEF EndCall
  <2>4. OwnReply'
    BY <1>0, <2>1, <2>2, <2>3 DEF OwnReply
  <2> QED
    BY <2>1, <2>2, <2>4 DEF NamesInv
<1>4. CASE Timeout
  <2>1. /\ node' = "run" /\ timedOut' = TRUE
        /\ UNCHANGED <<commands, sent, calls, process_result, device_message, given, damaged>>
    BY <1>4 DEF Timeout, reply, array
  <2> QED
    BY <2>1 DEF NamesInv, OwnReply
<1>5. CASE SetAwakeWord
  <2>1. /\ node' # "wait" /\ calls' = calls + 1 /\ ~process_result'
        /\ UNCHANGED <<commands, sent, given, timedOut, damaged>>
    BY <1>5 DEF SetAwakeWord, array
  <2>2. /\ \A i \in 1 .. Len(commands) : commands[i] <= calls'
        /\ \A k \in 1 .. Len(sent) : sent[k] <= calls'
    BY <1>b, <2>1
  <2> QED
    BY <2>1, <2>2 DEF NamesInv, OwnReply
<1>6. ASSUME NEW m \in Message, m <= calls, Says(m),
             UNCHANGED <<node, calls, process_result, device_message, given, timedOut, damaged>>,
             \A i \in 1 .. Len(commands') : commands'[i] <= calls
      PROVE  NamesInv'
  <2>1. /\ Len(sent') = Len(sent) + 1 /\ sent'[Len(sent) + 1] = m
        /\ \A k \in 1 .. Len(sent) : sent'[k] = sent[k]
    BY <1>6, Said DEF TypeInv
  <2>2. \A k \in 1 .. Len(sent') : sent'[k] <= calls
    BY <1>0, <1>6, <2>1 DEF NamesInv
  <2> QED
    BY <1>6, <2>2 DEF NamesInv, OwnReply
<1>7. CASE Heard
  <2>1. Wake \in Message /\ Wake <= calls
    BY <1>0 DEF Message, Wake
  <2> QED
    BY <1>6, <1>7, <2>1 DEF Heard, reply, NamesInv
<1>8. CASE Obeys
  <2>1. /\ Head(commands) \in Message /\ Head(commands) <= calls
        /\ \A i \in 1 .. Len(commands') : commands'[i] <= calls
    <3>1. commands # <<>> /\ commands' = Tail(commands)
      BY <1>8 DEF Obeys
    <3>2. Head(commands) = commands[1] /\ 1 \in 1 .. Len(commands)
      BY <1>0, <3>1, EmptySeq
    <3>3. /\ Len(commands') = Len(commands) - 1
          /\ \A i \in 1 .. Len(commands') : commands'[i] = commands[i + 1]
      BY <1>0, <3>1, HeadTailProperties
    <3>4. \A i \in 1 .. Len(commands) : commands[i] <= calls
      BY DEF NamesInv
    <3> QED
      BY <1>0, <3>2, <3>3, <3>4 DEF Message
  <2>2. CASE Says(Head(commands))
    BY <1>6, <1>8, <2>1, <2>2 DEF Obeys, reply, hist
  <2>3. CASE UNCHANGED <<port, sent>>
    BY <1>8, <2>1, <2>3 DEF Obeys, reply, hist, NamesInv, OwnReply
  <2> QED
    BY <1>8, <2>2, <2>3 DEF Obeys
<1>9. CASE Noise \/ Idle
  <2>1. /\ UNCHANGED <<calls, process_result, device_message, given, timedOut, sent, commands, damaged>>
        /\ node' \in {node, "crashed"}
    BY <1>9, IdleEffect DEF Noise, reply
  <2> QED
    BY <2>1 DEF NamesInv, OwnReply
<1> QED
  BY <1>1, <1>2, <1>3, <1>4, <1>5, <1>7, <1>8, <1>9 DEF Next, Driver, Idle


LEMMA OneStep ==
  TypeInv /\ TypeInv' /\ StreamInv /\ NamesInv /\ OneInv /\ [Next]_vars => OneInv'
<1> SUFFICES ASSUME TypeInv, TypeInv', StreamInv, NamesInv, OneInv, [Next]_vars, ~timedOut'
             PROVE  /\ node' \in {"run", "exited"} => commands' = <<>> /\ NoReply'
                    /\ node' = "wait" =>
                         /\ commands' # <<>> => commands' = <<calls'>> /\ NoReply' /\ ~process_result'
                         /\ process_result' => device_message' = calls' /\ NoReply'
                         /\ \A k \in Untaken' : sent'[k] \in {Wake, calls'}
                         /\ \A k, l \in Untaken' : sent'[k] = calls' /\ sent'[l] = calls' => k = l
  BY DEF OneInv
<1>0. /\ calls \in Nat /\ commands \in Seq(Call) /\ sent \in Seq(Message) /\ taken \in Nat
      /\ Len(sent) \in Nat /\ taken <= Len(sent)
  BY DEF TypeInv, TypeOK
<1>1. ASSUME UNCHANGED <<commands, sent, calls, timedOut>>, node' \in {node, "crashed"},
             Untaken' \subseteq Untaken,
             \/ UNCHANGED <<process_result, device_message>>
             \/ node = "wait" /\ commands = <<>> /\ device_message' = calls /\ NoReply'
      PROVE  OneInv'
  <2>1. NoReply => NoReply'
    BY <1>1 DEF NoReply
  <2> QED
    BY <1>1, <2>1 DEF OneInv
<1>2. CASE uart_analyse
  <2>1. /\ UNCHANGED <<commands, sent, calls, timedOut>> /\ node' \in {node, "crashed"}
        /\ port # <<>> /\ node \in {"run", "wait"}
        /\ \/ \E k \in 1 .. Len(sent) : Completes(k)
           \/ UNCHANGED <<reply, taken>>
    BY <1>2, ReadEffect
  <2>2. CASE UNCHANGED <<reply, taken>>
    <3>1. Untaken' = Untaken
      BY <2>1, <2>2 DEF Untaken
    <3> QED
      BY <1>1, <2>1, <2>2, <3>1 DEF reply, OneInv
  <2>3. ASSUME NEW k \in 1 .. Len(sent), Completes(k) PROVE OneInv'
    <3>1. taken' = k /\ k \in Nat /\ k > taken
      BY <2>1, <2>3, TakenLater DEF Completes
    <3>2. /\ k \in Untaken /\ Untaken' \subseteq Untaken
          /\ \A l \in Untaken' : l > k
      BY <1>0, <2>1, <3>1 DEF Untaken
    <3>3. CASE sent[k] = Wake
      BY <1>1, <2>1, <2>3, <3>2, <3>3 DEF Completes, reply
    <3>4. CASE sent[k] # Wake
      <4>1. ~timedOut
        BY <2>1
      <4>2. node = "wait"
        BY <2>1, <3>2, <3>4, <4>1 DEF OneInv, NoReply
      <4>3. /\ commands = <<>> /\ sent[k] = calls
            /\ \A l \in Untaken : sent[l] \in {Wake, calls}
            /\ \A i, j \in Untaken : sent[i] = calls /\ sent[j] = calls => i = j
        BY <3>2, <3>4, <4>1, <4>2 DEF OneInv, NoReply
      <4>4. NoReply'
        <5>1. \A l \in Untaken' : l # k /\ l \in Untaken
          BY <3>1, <3>2 DEF Untaken
        <5> QED
          BY <2>1, <3>2, <4>3, <5>1 DEF NoReply
      <4>5. device_message' = calls
        BY <2>3, <3>4, <4>3 DEF Completes
      <4> QED
        BY <1>1, <2>1, <3>2, <4>2, <4>3, <4>4, <4>5
    <3> QED
      BY <3>3, <3>4
  <2> QED
    BY <2>1, <2>2, <2>3 DEF OneInv
<1>3. CASE StartCall
  <2>1. /\ node = "run" /\ ~timedOut /\ calls' = calls + 1 /\ ~process_result'
        /\ UNCHANGED <<sent, taken>>
        /\ \/ node' = "wait" /\ commands' = Append(commands, calls')
           \/ UNCHANGED <<node, commands>>
    BY <1>3 DEF StartCall
  <2>2. commands = <<>> /\ NoReply /\ NoReply' /\ Untaken' = Untaken
    BY <2>1 DEF OneInv, NoReply, Untaken
  <2>3. CASE node' = "wait" /\ commands' = Append(commands, calls')
    <3>1. commands' = <<calls'>> /\ calls' # Wake
      BY <1>0, <2>1, <2>2, <2>3 DEF Wake
    <3>2. \A k \in Untaken' : sent'[k] = Wake
      BY <2>1, <2>2 DEF NoReply
    <3> QED
      BY <2>1, <2>2, <2>3, <3>1, <3>2
  <2>4. CASE UNCHANGED <<node, commands>>
    BY <2>1, <2>2, <2>4
  <2> QED
    BY <2>1, <2>3, <2>4
<1>4. CASE EndCall
  <2>1. /\ node = "wait" /\ process_result /\ node' = "run" /\ ~timedOut
        /\ UNCHANGED <<commands, sent, taken>>
    BY <1>4 DEF EndCall, array
  <2>2. commands = <<>> /\ NoReply
    BY <2>1 DEF OneInv
  <2> QED
    BY <2>1, <2>2 DEF NoReply, Untaken
<1>5. CASE Timeout
  BY <1>5 DEF Timeout
<1>6. CASE SetAwakeWord
  <2>1. /\ node = "run" /\ node' \in {"run", "exited"} /\ ~timedOut
        /\ UNCHANGED <<commands, sent, taken>>
    BY <1>6 DEF SetAwakeWord, array
  <2> QED
    BY <2>1 DEF OneInv, NoReply, Untaken
<1>7. ASSUME NEW m \in Message, Says(m), UNCHANGED taken
      PROVE  /\ Untaken' = Untaken \cup {Len(sent) + 1} /\ sent'[Len(sent) + 1] = m
             /\ \A k \in Untaken : sent'[k] = sent[k] /\ k # Len(sent) + 1
  <2>1. /\ Len(sent') = Len(sent) + 1 /\ sent'[Len(sent) + 1] = m
        /\ \A k \in 1 .. Len(sent) : sent'[k] = sent[k]
    BY <1>7, Said DEF TypeInv
  <2> QED
    BY <1>0, <1>7, <2>1 DEF Untaken
<1>8. CASE Heard
  <2>1. /\ UNCHANGED <<node, process_result, device_message, commands, taken, calls, timedOut>>
        /\ Says(Wake) /\ Wake \in Message
    BY <1>8 DEF Heard, reply, Message
  <2>2. /\ Untaken' = Untaken \cup {Len(sent) + 1} /\ sent'[Len(sent) + 1] = Wake
        /\ \A k \in Untaken : sent'[k] = sent[k] /\ k # Len(sent) + 1
    BY <1>7, <2>1
  <2>3. NoReply => NoReply'
    BY <2>2 DEF NoReply
  <2>4. node = "wait" => calls # Wake
    BY <1>0 DEF NamesInv, Wake
  <2> QED
    BY <2>1, <2>2, <2>3, <2>4 DEF OneInv
<1>9. CASE Obeys
  <2>1. /\ UNCHANGED <<node, process_result, device_message, taken, calls, timedOut>>
        /\ commands # <<>> /\ commands' = Tail(commands)
    BY <1>9 DEF Obeys, reply, hist
  <2>2. /\ node \notin {"run", "exited"}
        /\ node = "wait" =>
             commands = <<calls>> /\ NoReply /\ ~process_result /\ commands' = <<>> /\ calls # Wake
    BY <1>0, <2>1 DEF OneInv, NamesInv, Wake
  <2>3. CASE Says(Head(commands)) /\ node = "wait"
    <3>1. Head(commands) = calls /\ calls \in Message
      <4>1. commands = <<calls>>
        BY <2>2, <2>3
      <4>2. Head(commands) = calls
        BY <4>1
      <4>3. Head(commands) \in Call
        BY <1>0, <2>1
      <4> QED
        BY <4>2, <4>3 DEF Message
    <3>2. /\ Untaken' = Untaken \cup {Len(sent) + 1} /\ sent'[Len(sent) + 1] = calls
          /\ \A k \in Untaken : sent'[k] = Wake /\ k # Len(sent) + 1
      BY <1>7, <2>1, <2>2, <2>3, <3>1 DEF NoReply
    <3> QED
      BY <2>1, <2>2, <2>3, <3>2
  <2>4. CASE UNCHANGED <<port, sent>> /\ node = "wait"
    <3>1. Untaken' = Untaken /\ NoReply'
      BY <2>1, <2>2, <2>4 DEF NoReply, Untaken
    <3> QED
      BY <2>1, <2>2, <2>4, <3>1 DEF NoReply
  <2> QED
    BY <1>9, <2>1, <2>2, <2>3, <2>4 DEF Obeys
<1>10. CASE Noise \/ Idle
  <2>1. /\ UNCHANGED <<calls, process_result, device_message, timedOut, sent, commands, taken>>
        /\ node' \in {node, "crashed"}
    BY <1>10, IdleEffect DEF Noise, reply
  <2> QED
    BY <2>1 DEF OneInv, NoReply, Untaken
<1> QED
  BY <1>2, <1>3, <1>4, <1>5, <1>6, <1>8, <1>9, <1>10 DEF Next, Driver, Idle, OneInv


-----------------------------------------------------------------------------
(* A byte read from a clean line is the next one of the frame due.         *)
LEMMA CleanRead ==
  ASSUME TypeInv, StreamInv, CleanInv, noise = 0, uart_analyse
  PROVE  /\ UNCHANGED node /\ ~damaged'
         /\ \/ /\ Len(Receive_Data) + 1 < Size
               /\ Receive_Data' = Append(Receive_Data, Head(port))
               /\ frame_len' = IF Len(Receive_Data) + 1 >= 3 THEN Size ELSE 0
               /\ UNCHANGED <<taken, skipped>>
            \/ /\ Len(Receive_Data) + 1 = Size
               /\ Receive_Data' = <<>> /\ frame_len' = 0
               /\ taken' = taken + 1 /\ ~skipped'
<1> DEFINE got == Append(Receive_Data, Head(port))
           F == Frame(taken + 1)
<1>0. /\ Receive_Data \in Seq(Bytes) /\ port \in Seq(Bytes) /\ port # <<>>
      /\ taken \in Nat /\ taken + 1 \in Nat /\ Len(sent) \in Nat
  BY DEF TypeInv, uart_analyse
<1>1. /\ got \in Seq(Bytes) /\ Len(got) = Len(Receive_Data) + 1 /\ Len(Receive_Data) \in Nat
      /\ \A i \in 1 .. Len(Receive_Data) : got[i] = Receive_Data[i]
      /\ got[Len(Receive_Data) + 1] = port[1] /\ Len(port) \in Nat \ {0}
  BY <1>0, Got
<1>2. /\ F \in Seq(Bytes) /\ Len(F) = Size
      /\ \A i \in 1 .. Size :
           /\ F[i].of = taken + 1
           /\ (i = 1 => F[i].v = "head")
           /\ (i = 2 => F[i].v = "uid")
           /\ (i = 3 => F[i].v = "len")
  BY <1>0, FrameFacts
<1>3. /\ Len(Receive_Data) < Size /\ ~skipped
      /\ \A i \in 1 .. Len(Receive_Data) : Receive_Data[i] = F[i]
      /\ frame_len = IF Len(Receive_Data) >= 3 THEN Size ELSE 0
      /\ port[1] = F[Len(Receive_Data) + 1]
      /\ port[1].of = taken + 1
  <2>1. /\ port[1].of = taken + 1 /\ port[1].at = Len(Receive_Data) + 1
        /\ port[1] = Frame(port[1].of)[port[1].at]
    BY <1>0, <1>1 DEF CleanInv
  <2> QED
    BY <2>1 DEF CleanInv
<1>4. /\ Len(got) <= Size /\ Len(got) > 0 /\ Len(got) \in Nat
      /\ \A i \in 1 .. Len(got) : got[i] = F[i]
  <2> HIDE DEF got, F
  <2> QED
    BY <1>1, <1>3, Constants
<1>5. taken + 1 \in 1 .. Len(sent)
  BY <1>0, <1>1, <1>3 DEF StreamInv
<1> HIDE DEF got, F
<1>6. ~Stray(got) /\ ~damaged'
  <2>1. got[1].v = "head" /\ (Len(got) = 2 => got[2].v = "uid")
    BY <1>2, <1>4, Constants
  <2>2. ~(Len(got) > Buffer)
    BY <1>4, Constants
  <2>3. ~damaged
    BY DEF CleanInv
  <2>4. damaged' = (damaged \/ Len(got) > Buffer)
    BY Zenon DEF uart_analyse, got
  <2> QED
    BY <2>1, <2>2, <2>3, <2>4 DEF Stray
<1>7. PICK n \in IF Len(got) = 3 THEN LengthOf(got[3]) ELSE {frame_len} :
        /\ UNCHANGED node
        /\ IF Len(got) = n
           THEN /\ process_data(got)
                /\ Receive_Data' = <<>> /\ frame_len' = 0
           ELSE /\ Receive_Data' = got /\ frame_len' = n
                /\ UNCHANGED <<reply, taken, skipped>>
  BY <1>6, Zenon DEF uart_analyse, got
<1>8. n = IF Len(got) >= 3 THEN Size ELSE 0
  <2>1. CASE Len(got) = 3
    <3>1. got[3].v = "len"
      BY <1>2, <1>4, <2>1
    <3> QED
      BY <1>7, <2>1, <3>1 DEF LengthOf
  <2>2. CASE Len(got) # 3
    BY <1>1, <1>3, <1>4, <1>7, <2>2
  <2> QED
    BY <2>1, <2>2
<1>9. CASE Len(got) = Size
  <2>1. Len(got) = n
    BY <1>8, <1>9, Constants
  <2>2. got = F
    BY <1>1, <1>2, <1>4, <1>9, SeqEqual
  <2>3. got[1].of = taken + 1
    BY <1>2, <1>4, Constants
  <2>4. taken' = taken + 1 /\ skipped' = (skipped \/ taken + 1 # taken + 1)
    <3>1. \E k \in 1 .. Len(sent) : got = Frame(k)
      BY <1>5, <2>2 DEF F
    <3>2. process_data(got)
      BY <1>7, <2>1
    <3> QED
      BY <2>3, <3>1, <3>2, Zenon DEF process_data
  <2>5. ~skipped'
    BY <1>3, <2>4
  <2> QED
    BY <1>1, <1>6, <1>7, <1>9, <2>1, <2>4, <2>5
<1>10. CASE Len(got) < Size
  <2>1. Len(got) # n
    BY <1>4, <1>8, <1>10, Constants
  <2> QED
    BY <1>1, <1>6, <1>7, <1>8, <1>10, <2>1 DEF got
<1> QED
  BY <1>4, <1>9, <1>10, Constants


LEMMA CleanStep == TypeInv /\ TypeInv' /\ StreamInv /\ CleanInv /\ [Next]_vars => CleanInv'
<1> SUFFICES ASSUME TypeInv, TypeInv', StreamInv, CleanInv, [Next]_vars, noise' = 0
             PROVE  CleanInv'
  BY DEF CleanInv
<1>0. /\ Receive_Data \in Seq(Bytes) /\ port \in Seq(Bytes) /\ sent \in Seq(Message)
      /\ taken \in Nat /\ Len(sent) \in Nat /\ Len(port) \in Nat /\ Len(Receive_Data) \in Nat
      /\ Size \in Nat /\ 3 < Size
  BY Constants DEF TypeInv
<1>1. noise = 0
  BY IdleEffect DEF Next, Driver, Idle, uart_analyse, StartCall, EndCall, Timeout, SetAwakeWord,
         Heard, Obeys, Noise, hist, TypeInv
<1>2. CASE uart_analyse
  <2>1. port # <<>> /\ port' = Tail(port) /\ sent' = sent
    BY <1>2 DEF uart_analyse
  <2>2. /\ Len(port) >= 1 /\ Len(port') = Len(port) - 1
        /\ \A i \in 1 .. Len(port') : port'[i] = port[i + 1] /\ i + 1 \in 1 .. Len(port)
        /\ Receive_Data' \in Seq(Bytes) /\ port' \in Seq(Bytes)
    BY <1>0, <2>1, Got DEF TypeInv
  <2>3. /\ port[1].of = taken + 1 /\ port[1].at = Len(Receive_Data) + 1
        /\ port[Len(port)].of = Len(sent) /\ port[Len(port)].at = Size
        /\ Len(Receive_Data) < Size /\ ~skipped /\ node # "crashed"
        /\ port[1] = Frame(port[1].of)[port[1].at]
        /\ \A i \in 1 .. Len(Receive_Data) : Receive_Data[i] = Frame(taken + 1)[i]
    BY <1>0, <1>1, <2>1, <2>2 DEF CleanInv
  <2>4. \A i \in 1 .. Len(port') :
          /\ port'[i].of \in Nat \ {0} /\ port'[i].at \in 1 .. Size
          /\ port'[i] = Frame(port'[i].of)[port'[i].at]
    BY <1>1, <2>2 DEF CleanInv
  <2>5. \A i \in 1 .. Len(port') - 1 : Follows(port'[i], port'[i + 1])
    <3> SUFFICES ASSUME NEW i \in 1 .. Len(port') - 1
                 PROVE  Follows(port'[i], port'[i + 1])
      OBVIOUS
    <3>1. /\ i + 1 \in 1 .. Len(port) - 1
          /\ port'[i] = port[i + 1] /\ port'[i + 1] = port[(i + 1) + 1]
      BY <1>0, <2>2
    <3>2. Follows(port[i + 1], port[(i + 1) + 1])
      BY <1>1, <3>1 DEF CleanInv
    <3> QED
      BY <3>1, <3>2
  <2>6. port' = <<>> => Len(port) = 1
    BY <1>0, <2>2
  <2>7. port' # <<>> => /\ Len(port') >= 1
                        /\ port'[1] = port[2] /\ Follows(port[1], port[2])
                        /\ port'[Len(port')] = port[Len(port)]
    <3> SUFFICES ASSUME port' # <<>>
                 PROVE  /\ Len(port') >= 1
                        /\ port'[1] = port[2] /\ Follows(port[1], port[2])
                        /\ port'[Len(port')] = port[Len(port)]
      OBVIOUS
    <3>1. Len(port') >= 1
      BY <2>2, EmptySeq
    <3>2. port'[1] = port[2] /\ port'[Len(port')] = port[Len(port)] /\ 1 \in 1 .. Len(port) - 1
      BY <1>0, <2>2, <3>1
    <3>3. Follows(port[1], port[1 + 1])
      BY <1>1, <3>2 DEF CleanInv
    <3> QED
      BY <3>1, <3>2, <3>3
  <2>8. CASE /\ Len(Receive_Data) + 1 < Size
             /\ Receive_Data' = Append(Receive_Data, Head(port))
             /\ frame_len' = IF Len(Receive_Data) + 1 >= 3 THEN Size ELSE 0
             /\ UNCHANGED <<node, taken, skipped>> /\ ~damaged'
    <3>1. /\ Len(Receive_Data') = Len(Receive_Data) + 1
          /\ \A i \in 1 .. Len(Receive_Data) : Receive_Data'[i] = Receive_Data[i]
          /\ Receive_Data'[Len(Receive_Data) + 1] = port[1]
      BY <1>0, <2>1, <2>8, Got
    <3>2. port[1] = Frame(taken + 1)[Len(Receive_Data) + 1]
      BY <2>3
    <3>3. \A i \in 1 .. Len(Receive_Data') : Receive_Data'[i] = Frame(taken' + 1)[i]
      BY <1>0, <2>3, <2>8, <3>1, <3>2
    <3>4. port' # <<>>
      BY <1>0, <2>3, <2>6, <2>8
    <3>5. /\ port'[1].of = taken' + 1 /\ port'[1].at = Len(Receive_Data') + 1
          /\ port'[Len(port')].of = Len(sent') /\ port'[Len(port')].at = Size
      BY <1>0, <2>1, <2>3, <2>7, <2>8, <3>1, <3>4 DEF Follows
    <3>6. frame_len' = IF Len(Receive_Data') >= 3 THEN Size ELSE 0
      BY <2>8, <3>1
    <3> QED
      BY <2>3, <2>4, <2>5, <2>8, <3>1, <3>3, <3>4, <3>5, <3>6 DEF CleanInv
  <2>9. CASE /\ Len(Receive_Data) + 1 = Size
             /\ Receive_Data' = <<>> /\ frame_len' = 0
             /\ taken' = taken + 1 /\ ~skipped' /\ UNCHANGED node /\ ~damaged'
    <3>1. port' = <<>> => taken' = Len(sent')
      BY <2>1, <2>3, <2>6, <2>9
    <3>2. port' # <<>> => /\ port'[1].of = taken' + 1 /\ port'[1].at = Len(Receive_Data') + 1
                          /\ port'[Len(port')].of = Len(sent') /\ port'[Len(port')].at = Size
      BY <1>0, <2>1, <2>3, <2>7, <2>9 DEF Follows
    <3>3. /\ Len(Receive_Data') = 0 /\ Len(Receive_Data') < Size
          /\ \A i \in 1 .. Len(Receive_Data') : Receive_Data'[i] = Frame(taken' + 1)[i]
          /\ frame_len' = IF Len(Receive_Data') >= 3 THEN Size ELSE 0
      BY <1>0, <2>9
    <3> QED
      BY <2>3, <2>4, <2>5, <2>9, <3>1, <3>2, <3>3 DEF CleanInv
  <2> QED
    BY <1>1, <1>2, <2>8, <2>9, CleanRead
<1>3. ASSUME NEW m \in Message, Says(m), UNCHANGED <<node, damaged, uart, taken, skipped>>
      PROVE  CleanInv'
  <2> DEFINE n == Len(sent) + 1
  <2>1. /\ n \in Nat /\ Len(sent') = n
        /\ Len(port') = Len(port) + Size
        /\ \A i \in 1 .. Len(port) : port'[i] = port[i]
        /\ \A i \in Len(port) + 1 .. Len(port') : port'[i] = Frame(n)[i - Len(port)]
    BY <1>0, <1>3, Said
  <2>2. \A j \in 1 .. Size : Frame(n)[j].of = n /\ Frame(n)[j].at = j
    BY <2>1, FrameFacts
  <2>3. n # 0 /\ n = Len(sent) + 1
    BY <1>0
  <2> HIDE DEF n
  <2>4. ASSUME NEW i \in Len(port) + 1 .. Len(port')
        PROVE  /\ port'[i].of = n /\ port'[i].at = i - Len(port) /\ i - Len(port) \in 1 .. Size
               /\ port'[i] = Frame(port'[i].of)[port'[i].at]
    <3>1. i - Len(port) \in 1 .. Size /\ port'[i] = Frame(n)[i - Len(port)]
      BY <1>0, <2>1
    <3> QED
      BY <2>2, <3>1
  <2>5. ASSUME NEW i \in 1 .. Len(port')
        PROVE  /\ port'[i].of \in Nat \ {0} /\ port'[i].at \in 1 .. Size
               /\ port'[i] = Frame(port'[i].of)[port'[i].at]
    <3>1. CASE i <= Len(port)
      BY <1>0, <1>1, <2>1, <3>1 DEF CleanInv
    <3>2. CASE i > Len(port)
      BY <1>0, <2>1, <2>3, <2>4, <3>2
    <3> QED
      BY <1>0, <2>1, <3>1, <3>2
  <2>6. /\ Len(port) + 1 \in Len(port) + 1 .. Len(port')
        /\ Len(port') \in Len(port) + 1 .. Len(port')
    BY <1>0, <2>1
  <2>7. /\ port' # <<>>
        /\ port'[Len(port')].of = Len(sent') /\ port'[Len(port')].at = Size
        /\ port'[Len(port) + 1].of = n /\ port'[Len(port) + 1].at = 1
    BY <1>0, <2>1, <2>4, <2>6
  <2>8. port'[1].of = taken' + 1 /\ port'[1].at = Len(Receive_Data') + 1
    <3>1. CASE port = <<>>
      <4>1. Receive_Data = <<>> /\ taken = Len(sent) /\ Len(port) = 0
        BY <1>1, <3>1 DEF CleanInv
      <4> QED
        BY <1>3, <2>3, <2>7, <4>1 DEF uart
    <3>2. CASE port # <<>>
      <4>1. 1 \in 1 .. Len(port)
        BY <1>0, <3>2, EmptySeq
      <4>2. port'[1] = port[1]
        BY <2>1, <4>1
      <4> QED
        BY <1>1, <1>3, <3>2, <4>2 DEF CleanInv, uart
    <3> QED
      BY <3>1, <3>2
  <2>9. ASSUME NEW i \in 1 .. Len(port') - 1 PROVE Follows(port'[i], port'[i + 1])
    <3>1. CASE i < Len(port)
      <4>1. /\ i \in 1 .. Len(port) - 1 /\ i \in 1 .. Len(port) /\ i + 1 \in 1 .. Len(port)
        BY <1>0, <3>1
      <4>2. port'[i] = port[i] /\ port'[i + 1] = port[i + 1]
        BY <2>1, <4>1
      <4> QED
        BY <1>1, <4>1, <4>2 DEF CleanInv
    <3>2. CASE i = Len(port)
      <4>1. i \in 1 .. Len(port) /\ port # <<>>
        BY <1>0, <3>2
      <4>2. port'[i].of = Len(sent) /\ port'[i].at = Size
        BY <1>1, <2>1, <3>2, <4>1 DEF CleanInv
      <4> QED
        BY <1>0, <2>3, <2>7, <3>2, <4>2 DEF Follows
    <3>3. CASE i > Len(port)
      <4>1. /\ i \in Len(port) + 1 .. Len(port') /\ i + 1 \in Len(port) + 1 .. Len(port')
            /\ i - Len(port) < Size /\ (i + 1) - Len(port) = (i - Len(port)) + 1
        BY <1>0, <2>1, <3>3
      <4> QED
        BY <2>4, <4>1 DEF Follows
    <3> QED
      BY <1>0, <2>1, <3>1, <3>2, <3>3
  <2> QED
    BY <1>1, <1>3, <2>5, <2>7, <2>8, <2>9 DEF CleanInv, uart
<1>4. CASE Heard
  BY <1>3, <1>4 DEF Heard, Message
<1>5. CASE Obeys
  <2>1. Head(commands) \in Message
    BY <1>5 DEF Obeys, TypeInv, Message
  <2>2. CASE Says(Head(commands))
    BY <1>3, <1>5, <2>1, <2>2 DEF Obeys, hist
  <2>3. CASE UNCHANGED <<port, sent>>
    BY <1>1, <1>5, <2>3 DEF Obeys, uart, hist, CleanInv
  <2> QED
    BY <1>5, <2>2, <2>3 DEF Obeys
<1>6. CASE StartCall \/ EndCall \/ Timeout \/ SetAwakeWord \/ Idle
  <2>1. UNCHANGED <<Receive_Data, frame_len, port, sent, taken, skipped, damaged>>
    BY <1>6, IdleEffect DEF StartCall, EndCall, Timeout, SetAwakeWord, uart, array
  <2>2. node' # "crashed"
    BY <1>1, <1>6 DEF CleanInv, StartCall, EndCall, Timeout, SetAwakeWord,
                      Idle, Drained, Poll, Breaks, TimePasses, vars
  <2> QED
    BY <1>1, <2>1, <2>2 DEF CleanInv
<1>7. CASE Noise
  BY <1>1, <1>7 DEF Noise
<1> QED
  BY <1>2, <1>4, <1>5, <1>6, <1>7 DEF Next, Driver, Idle

LEMMA InvInit == Init => MicInv
<1> SUFFICES ASSUME Init PROVE MicInv
  OBVIOUS
<1>1. /\ Receive_Data = <<>> /\ port = <<>> /\ commands = <<>> /\ sent = <<>>
      /\ node = "run" /\ taken = 0 /\ calls = 0 /\ frame_len = 0 /\ noise = 0
      /\ given = [call |-> 0, result |-> 0]
  BY DEF Init
<1>2. ~process_result /\ ~skipped /\ ~damaged
  BY DEF Init
<1>3. StreamInv /\ CleanInv
  BY <1>1, <1>2, Constants DEF StreamInv, CleanInv
<1>4. NamesInv /\ OneInv
  BY <1>1, <1>2 DEF NamesInv, OneInv, OwnReply, NoReply, Untaken
<1> QED
  BY <1>3, <1>4, TypeInit DEF MicInv

LEMMA InvKept == Spec => []MicInv
<1>1. MicInv /\ [Next]_vars => MicInv'
  BY TypeStep, StreamStep, CleanStep, NamesStep, OneStep DEF MicInv
<1> QED
  BY InvInit, <1>1, PTL DEF Spec

(* As long as the line damages no byte, every frame is taken, once and in  *)
(* its turn, whichever loop reads its bytes, the buffer is not overrun,    *)
(* and the thread does not die.                                            *)
THEOREM CleanLineKept == Spec => []CleanLine
<1>1. MicInv => CleanLine
  BY DEF MicInv, CleanInv, CleanLine
<1> QED
  BY <1>1, InvKept, PTL

(* Until a byte is written past Receive_Data, whatever else the line does, *)
(* a call is given the reply to its own command or to an earlier one, and  *)
(* to an earlier one only if a call ran out of time                        *)
(* (ros2_service.cpp:41-57).                                               *)
THEOREM OwnReplies == Spec => []OwnReply
<1>1. MicInv => OwnReply
  BY DEF MicInv, NamesInv
<1> QED
  BY <1>1, InvKept, PTL


(* A step that takes frame k.                                              *)
Takes(k) == uart_analyse /\ Append(Receive_Data, Head(port)) = Frame(k)

(* No frame is taken a second time or after a later one, whatever is lost, *)
(* comes twice or is wrong: the frames are only ever skipped.              *)
THEOREM FramesTakenInOrder == Spec => [][\A k \in 1 .. Len(sent) : Takes(k) => k > taken]_vars
<1>1. MicInv /\ [Next]_vars => [\A k \in 1 .. Len(sent) : Takes(k) => k > taken]_vars
  <2> SUFFICES ASSUME MicInv, NEW k \in 1 .. Len(sent), Takes(k) PROVE k > taken
    OBVIOUS
  <2> QED
    BY TakenLater DEF MicInv, Takes, uart_analyse
<1> QED
  BY <1>1, InvKept, PTL DEF Spec
=============================================================================
