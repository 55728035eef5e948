-------------------------- MODULE OfflineVoiceProofs --------------------------
(***************************************************************************)
(* Proofs about OfflineVoice, for every threshold, time limit and depth of *)
(* the topics.                                                             *)
(***************************************************************************)
EXTENDS OfflineVoice, SequenceTheorems, TLAPS

(* What the next turn of the loop may ask for.                             *)
Wanted == IF Sends THEN 1 ELSE 0

(* OneAtATime made inductive: a permission counts like a recognition.      *)
Counted == Outstanding(requests) + Wanted <= 1 + crossed

Caller == [awake_flag : {0, 1}, call_ : BOOLEAN, fails : 0 .. Threshold - 1]

(* AwakeAsks made inductive: of the recognitions that an awake robot waits *)
(* for, the newest is one whose reply has text.                            *)
NewestLives ==
  caller.awake_flag = 1 =>
    \/ caller.call_
    \/ failed
    \/ requests > 0
    \/ server \in {"read", "check", "end", "down"}
    \/ server = "reply" /\ result # ""
    \/ server = "idle" /\ responses # <<>> /\ responses[Len(responses)] # ""

Asking == TypeOK /\ Counted /\ AsleepIsDeaf /\ NewestLives

-----------------------------------------------------------------------------
(* The constants, one by one.                                             *)
LEMMA Constants ==
  /\ Threshold \in Nat \ {0}
  /\ Depth \in Nat \ {0}
  /\ Limit \in Nat
  /\ MaxCrossed \in Nat
  /\ 0 \in 0 .. Threshold - 1
<1>1. Threshold \in Nat \ {0} /\ Depth \in Nat \ {0} /\ Limit \in Nat /\ MaxCrossed \in Nat
  BY OfflineAssumption, Zenon DEF OfflineAssumption
<1>2. QED BY <1>1

(* The topics keep their type when a message is added or taken.            *)
LEMMA PushType ==
  ASSUME NEW S, NEW q \in Seq(S), NEW m \in S
  PROVE  Push(q, m) \in Seq(S)
<1>1. CASE Len(q) < Depth
  BY <1>1 DEF Push
<1>2. CASE ~(Len(q) < Depth)
  <2>1. Len(q) > 0
    BY <1>2, LenProperties, Constants, SMT
  <2>2. q # <<>>
    BY <2>1, EmptySeq
  <2>3. Tail(q) \in Seq(S)
    BY <2>2, HeadTailProperties
  <2>4. QED BY <1>2, <2>3 DEF Push
<1>3. QED BY <1>1, <1>2

LEMMA RestType ==
  ASSUME NEW S, NEW q \in Seq(S)
  PROVE  /\ Rest(q) \in Seq(S)
         /\ q # <<>> => Head(q) \in S /\ Len(q) > 0 /\ Len(Rest(q)) = Len(q) - 1
         /\ q = <<>> => Len(q) = 0 /\ Rest(q) = q
<1>1. CASE q = <<>>
  BY <1>1 DEF Rest
<1>2. CASE q # <<>>
  <2>1. Tail(q) \in Seq(S) /\ Head(q) \in S /\ Len(Tail(q)) = Len(q) - 1
    BY <1>2, HeadTailProperties
  <2>2. Len(q) > 0
    BY <1>2, EmptySeq, LenProperties, SMT
  <2>3. QED BY <1>2, <2>1, <2>2 DEF Rest
<1>3. QED BY <1>1, <1>2

(* A reply that is sent is the newest.                                     *)
LEMMA Sent ==
  \A S : \A q \in Seq(S), m \in S :
    /\ Append(q, m) \in Seq(S) /\ Append(q, m) # <<>>
    /\ Len(Append(q, m)) = Len(q) + 1 /\ Append(q, m)[Len(q) + 1] = m
BY AppendProperties

(* Taking a reply does not touch the newest, unless it is that one.        *)
LEMMA Newest ==
  ASSUME NEW S, NEW q \in Seq(S), q # <<>>
  PROVE  \/ Rest(q) = <<>> /\ Head(q) = q[Len(q)]
         \/ Rest(q) # <<>> /\ Rest(q)[Len(Rest(q))] = q[Len(q)]
<1>1. /\ Tail(q) \in Seq(S) /\ Len(Tail(q)) = Len(q) - 1 /\ Len(q) \in Nat
      /\ Len(q) > 0 /\ Head(q) = q[1] /\ Rest(q) = Tail(q)
  BY HeadTailProperties, LenProperties, EmptySeq, RestType DEF Rest
<1>2. CASE Len(q) = 1
  <2>1. Tail(q) = <<>>
    BY <1>1, <1>2, EmptySeq
  <2>2. QED BY <1>1, <1>2, <2>1
<1>3. CASE Len(q) > 1
  <2>1. Tail(q) # <<>>
    <3>1. \A k \in Nat : k > 1 => k - 1 # 0
      OBVIOUS
    <3>2. Len(Tail(q)) # 0
      BY <1>1, <1>3, <3>1, Zenon
    <3>3. QED BY <3>2, <1>1, EmptySeq
  <2>2. Tail(q)[Len(q) - 1] = q[Len(q)]
    BY <1>1, <1>3, HeadTailProperties
  <2>3. QED BY <1>1, <2>1, <2>2
<1>4. QED BY <1>1, <1>2, <1>3

-----------------------------------------------------------------------------
(* What the two callbacks do to the caller.                                *)
LEMMA ToldType ==
  ASSUME NEW c \in Caller, awake \in Seq({0, 1})
  PROVE  /\ awake_flag_Callback(c) \in Caller
         /\ awake = <<>> => awake_flag_Callback(c) = c
         /\ awake # <<>> => /\ awake_flag_Callback(c).awake_flag = Head(awake)
                            /\ awake_flag_Callback(c).call_
<1>1. CASE awake = <<>>
  BY <1>1 DEF awake_flag_Callback
<1>2. CASE awake # <<>>
  <2>1. Head(awake) \in {0, 1}
    BY <1>2, RestType
  <2>2. 0 \in 0 .. Threshold - 1
    BY Constants
  <2>3. QED BY <1>2, <2>1, <2>2 DEF awake_flag_Callback, Caller
<1>3. QED BY <1>1, <1>2

LEMMA AnsweredType ==
  ASSUME NEW c \in Caller
  PROVE  /\ server_callback_(c) \in Caller
         /\ responses = <<>> => server_callback_(c) = c
         /\ server_callback_(c).awake_flag = 1 => c.awake_flag = 1
         /\ c.call_ => server_callback_(c).call_
         /\ responses # <<>> /\ Head(responses) \in {"ok", "fail"}
              => server_callback_(c).call_
         /\ responses # <<>> /\ Head(responses) = "sleep"
              => server_callback_(c).awake_flag = 0
<1>1. CASE responses = <<>>
  BY <1>1 DEF server_callback_
<1>2. CASE responses # <<>>
  <2> DEFINE r == Head(responses)
  <2>1. /\ c.awake_flag \in {0, 1} /\ c.call_ \in BOOLEAN
        /\ c.fails \in 0 .. Threshold - 1
    BY DEF Caller
  <2>2. server_callback_(c) =
          CASE r = "sleep" -> [c EXCEPT !.awake_flag = 0, !.fails = 0]
            [] r = "ok"    -> [c EXCEPT !.call_ = TRUE, !.fails = 0]
            [] r = "fail"  ->
                 IF c.fails + 1 = Threshold
                 THEN [awake_flag |-> 0, call_ |-> TRUE, fails |-> 0]
                 ELSE [c EXCEPT !.call_ = TRUE, !.fails = @ + 1]
            [] OTHER -> c
    BY <1>2 DEF server_callback_
  <2> HIDE DEF r
  <2>3. c.fails + 1 # Threshold => c.fails + 1 \in 0 .. Threshold - 1
    <3>1. Threshold \in Nat
      BY Constants
    <3>2. QED BY <2>1, <3>1
  <2>4. CASE r = "sleep"
    BY <1>2, <2>1, <2>2, <2>4, Constants DEF Caller, r
  <2>5. CASE r = "ok"
    BY <1>2, <2>1, <2>2, <2>5, Constants DEF Caller, r
  <2>6. CASE r = "fail" /\ c.fails + 1 = Threshold
    BY <1>2, <2>1, <2>2, <2>6, Constants DEF Caller, r
  <2>7. CASE r = "fail" /\ c.fails + 1 # Threshold
    BY <1>2, <2>1, <2>2, <2>3, <2>7 DEF Caller, r
  <2>8. CASE r \notin {"sleep", "ok", "fail"}
    BY <1>2, <2>2, <2>8, Zenon DEF r
  <2>9. QED BY <2>4, <2>5, <2>6, <2>7, <2>8
<1>3. QED BY <1>1, <1>2

(* The counts as sums of numbers.                                          *)
Hearing == IF server \in {"read", "check", "end"} THEN 1 ELSE 0
Busy    == IF server = "idle" THEN 0 ELSE 1

LEMMA Counts ==
  /\ Hearing \in {0, 1} /\ Busy \in {0, 1} /\ Hearing <= Busy
  /\ \A n : Unheard(n) = n + Hearing
  /\ \A n : Outstanding(n) = n + Busy + Len(responses)
<1>1. Hearing \in {0, 1} /\ Busy \in {0, 1}
  BY Zenon DEF Hearing, Busy
<1>2. Hearing = 1 => Busy = 1
  <2>1. server \in {"read", "check", "end"} => server # "idle"
    OBVIOUS
  <2>2. 0 # 1
    OBVIOUS
  <2>3. QED BY <2>1, <2>2, Zenon DEF Hearing, Busy
<1>3. Hearing <= Busy
  BY <1>1, <1>2
<1>4. \A n : Unheard(n) = n + Hearing
  BY Zenon DEF Unheard, Hearing
<1>5. \A n : Outstanding(n) = n + Busy + Len(responses)
  BY Zenon DEF Outstanding, Busy
<1>6. QED BY <1>1, <1>3, <1>4, <1>5

(* The same, of numbers.                                                   *)
LEMMA Sums ==
  \A n, l, m \in Nat, h, b \in {0, 1} :
    h <= b /\ m <= l =>
      /\ n + h \in Nat /\ n + b + l \in Nat /\ n + b + m \in Nat
      /\ n + h + l <= n + b + l
      /\ n + h <= n + b + m
      /\ (n + b + m) + l = (n + b + l) + m
OBVIOUS

LEMMA Small ==
  /\ 0 # 1 /\ ~(0 > 0)
  /\ \A k \in Nat : ~(k > 0) => k = 0
  /\ \A r \in Nat, w \in {0, 1} : r + w = 0 => r = 0 /\ w = 0
OBVIOUS

-----------------------------------------------------------------------------
LEMMA AskingInit == Init => Asking
<1> SUFFICES ASSUME Init PROVE Asking
  OBVIOUS
<1>0. /\ caller \in Caller /\ caller.awake_flag = 0
      /\ Len(responses) = 0
  BY Constants DEF Init, Caller
<1>1. TypeOK
  <2>1. 0 \in 0 .. Limit + 1 /\ 0 \in Nat
    BY Constants
  <2>2. <<>> \in Seq({0, 1}) /\ <<>> \in Seq({"command", "sleep"})
        /\ <<>> \in Seq({"ok", "sleep", "fail", ""})
    OBVIOUS
  <2>3. QED BY <1>0, <2>1, <2>2, Zenon DEF Init, TypeOK, Caller
<1>2. Counted
  <2>1. Wanted = 0
    BY <1>0 DEF Wanted, Sends
  <2>2. Outstanding(requests) = 0 + 0 + 0 /\ crossed = 0
    BY <1>0, Zenon DEF Init, Outstanding
  <2>3. QED BY <2>1, <2>2 DEF Counted
<1>3. AsleepIsDeaf
  <2>1. server \notin {"read", "check", "end"}
    BY DEF Init
  <2>2. Unheard(requests) = 0 + 0
    BY <2>1, Zenon DEF Init, Unheard
  <2>3. QED BY <2>2 DEF AsleepIsDeaf
<1>4. NewestLives
  BY <1>0, Small, Zenon DEF NewestLives
<1>5. QED BY <1>1, <1>2, <1>3, <1>4 DEF Asking

LEMMA AskingCallLoop ==
  ASSUME Asking, CallLoop PROVE Asking'
<1> DEFINE asked == IF Sends THEN [caller EXCEPT !.call_ = FALSE] ELSE caller
           told  == awake_flag_Callback(asked)
           n     == requests + Wanted
           cross == /\ awake # <<>>
                    /\ IF Head(awake) = 1 THEN Outstanding(n) > 0 ELSE Unheard(n) > 0
           over  == n + (IF server = "idle" THEN 0 ELSE 1) + Len(Rest(responses)) = 0
<1>1. /\ caller' = server_callback_(told)
      /\ words' = IF GaveUp(told) THEN Push(words, "sleep") ELSE words
      /\ requests' = n
      /\ awake' = Rest(awake)
      /\ responses' = Rest(responses)
      /\ failed' = (failed /\ awake = <<>>)
      /\ crossed' = IF over THEN 0 ELSE crossed + IF cross THEN 1 ELSE 0
      /\ UNCHANGED <<recording, whether_finised, timing>>
  BY DEF CallLoop, Wanted
<1>2. TypeOK
  BY DEF Asking
<1>3. caller \in Caller /\ requests \in Nat /\ Wanted \in {0, 1} /\ n \in Nat
  <2>1. caller \in Caller /\ requests \in Nat
    BY <1>2 DEF TypeOK, Caller
  <2>2. Wanted \in {0, 1}
    BY Zenon DEF Wanted
  <2>3. QED BY <2>1, <2>2
<1>4. /\ asked \in Caller /\ asked.awake_flag = caller.awake_flag
      /\ asked.call_ <=> (caller.call_ /\ ~Sends)
  BY <1>3 DEF Caller, Sends
<1> HIDE DEF asked
<1>5. /\ told \in Caller
      /\ awake = <<>> => told = asked
      /\ awake # <<>> => told.awake_flag = Head(awake) /\ told.call_
  BY <1>2, <1>4, ToldType DEF TypeOK
<1> HIDE DEF told
<1>6. /\ caller' \in Caller
      /\ responses = <<>> => caller' = told
      /\ caller'.awake_flag = 1 => told.awake_flag = 1
      /\ told.call_ => caller'.call_
      /\ responses # <<>> /\ Head(responses) \in {"ok", "fail"} => caller'.call_
      /\ responses # <<>> /\ Head(responses) = "sleep" => caller'.awake_flag = 0
  BY <1>1, <1>5, AnsweredType
<1>7. /\ responses' \in Seq({"ok", "sleep", "fail", ""})
      /\ responses # <<>> => /\ Head(responses) \in {"ok", "sleep", "fail", ""}
                             /\ Len(responses) > 0
                             /\ Len(responses') = Len(responses) - 1
      /\ responses = <<>> => Len(responses) = 0 /\ responses' = responses
      /\ Len(responses) \in Nat /\ Len(responses') \in Nat
  BY <1>1, <1>2, RestType, LenProperties DEF TypeOK
<1>8. /\ awake' \in Seq({0, 1})
      /\ awake # <<>> => Head(awake) \in {0, 1}
  BY <1>1, <1>2, RestType DEF TypeOK
<1>9. words' \in Seq({"command", "sleep"})
  BY <1>1, <1>2, PushType DEF TypeOK
<1>10. crossed \in Nat /\ n = requests + Wanted /\ Len(responses') <= Len(responses)
  <2>1. crossed \in Nat
    BY <1>2 DEF TypeOK
  <2>2. Len(responses') <= Len(responses)
    <3>1. \A l \in Nat : l - 1 <= l /\ l <= l
      OBVIOUS
    <3>2. QED BY <3>1, <1>7, Zenon
  <2>3. QED BY <2>1, <2>2
<1> HIDE DEF n
<1>11. /\ Unheard(n) \in Nat /\ Outstanding(n) \in Nat
       /\ Unheard(n) + Len(responses) <= Outstanding(n)
       /\ Outstanding(n) <= 1 + crossed
       /\ Outstanding(requests)' + Len(responses) = Outstanding(n) + Len(responses')
       /\ Unheard(requests)' = Unheard(n)
       /\ over <=> Outstanding(requests)' = 0
       /\ Outstanding(requests)' \in Nat
       /\ Unheard(n) <= Outstanding(requests)'
  <2>1. requests' = n /\ Busy' = Busy /\ Hearing' = Hearing
    BY <1>1, Zenon DEF Busy, Hearing, recording
  <2>2. /\ Unheard(n) = n + Hearing /\ Outstanding(n) = n + Busy + Len(responses)
        /\ Outstanding(requests) = requests + Busy + Len(responses)
        /\ Hearing \in {0, 1} /\ Busy \in {0, 1} /\ Hearing <= Busy
    BY Counts, Zenon
  <2>3. Unheard(requests)' = n + Hearing /\ Outstanding(requests)' = n + Busy + Len(responses')
    BY <2>1, Zenon DEF Unheard, Outstanding, Hearing, Busy
  <2>4. over <=> n + Busy + Len(responses') = 0
    BY <1>1, Zenon DEF Busy
  <2>5. Outstanding(requests) + Wanted <= 1 + crossed
    BY DEF Asking, Counted
  <2>6. n + Busy + Len(responses) <= 1 + crossed
    <3>1. (requests + Busy + Len(responses)) + Wanted <= 1 + crossed
      BY <2>2, <2>5, Zenon
    <3>2. \A r, l, k \in Nat, b, w \in {0, 1} :
            (r + b + l) + w <= 1 + k => (r + w) + b + l <= 1 + k
      OBVIOUS
    <3>3. /\ requests \in Nat /\ Len(responses) \in Nat /\ crossed \in Nat
          /\ Busy \in {0, 1} /\ Wanted \in {0, 1} /\ n = requests + Wanted
      BY <2>2, <1>3, <1>7, <1>10
    <3>4. QED BY <3>1, <3>2, <3>3, Zenon
  <2>7. /\ n + Hearing \in Nat /\ n + Busy + Len(responses) \in Nat
        /\ n + Busy + Len(responses') \in Nat
        /\ n + Hearing + Len(responses) <= n + Busy + Len(responses)
        /\ n + Hearing <= n + Busy + Len(responses')
        /\ (n + Busy + Len(responses')) + Len(responses) = (n + Busy + Len(responses)) + Len(responses')
    <3>1. /\ n \in Nat /\ Len(responses) \in Nat /\ Len(responses') \in Nat
          /\ Len(responses') <= Len(responses)
      BY <1>3, <1>7, <1>10
    <3>2. QED BY <3>1, <2>2, Sums, SMTT(30)
  <2>8. QED BY <2>2, <2>3, <2>4, <2>6, <2>7, Zenon
<1> HIDE DEF over
<1>12. crossed' \in Nat
  BY <1>1, <1>10
<1>13. Wanted' \in {0, 1} /\ (Wanted' = 1 <=> caller'.awake_flag = 1 /\ caller'.call_)
  BY DEF Wanted, Sends
<1>14. TypeOK'
  BY <1>1, <1>2, <1>3, <1>6, <1>7, <1>8, <1>9, <1>12
  DEF TypeOK, Caller, recording, timing, n
<1>15. ASSUME over PROVE Counted' /\ AsleepIsDeaf'
  <2>1. crossed' = 0 /\ Outstanding(requests)' = 0 /\ Unheard(requests)' = 0
    BY <1>1, <1>10, <1>11, <1>15
  <2>2. Counted' /\ AsleepIsDeaf'
    <3>1. \A w \in {0, 1} : 0 + w <= 1 + 0
      OBVIOUS
    <3>2. Counted'
      BY <2>1, <3>1, <1>13, Zenon DEF Counted
    <3>3. AsleepIsDeaf'
      BY <2>1 DEF AsleepIsDeaf
    <3>4. QED BY <3>2, <3>3
  <2>3. QED BY <2>2, Zenon
<1>16. ASSUME ~over PROVE Counted' /\ AsleepIsDeaf'
  <2>1. crossed' = crossed + IF cross THEN 1 ELSE 0
    BY <1>1, <1>16
  <2>2. Outstanding(requests)' <= Outstanding(n) /\ Outstanding(requests)' > 0
    <3>1. \A o, p, l, m \in Nat : p + l = o + m /\ m <= l => p <= o
      OBVIOUS
    <3>2. Outstanding(requests)' <= Outstanding(n)
      BY <3>1, <1>7, <1>10, <1>11, Zenon
    <3>3. \A p \in Nat : p # 0 => p > 0
      OBVIOUS
    <3>4. QED BY <3>2, <3>3, <1>11, <1>16, Zenon
  <2>3. CASE awake # <<>> /\ Head(awake) = 1
    <3>1. crossed' = crossed + 1
      BY <2>1, <2>2, <2>3, <1>10, <1>11
    <3>2. QED BY <3>1, <2>2, <1>10, <1>11, <1>13 DEF Counted, AsleepIsDeaf
  <2>4. CASE awake # <<>> /\ Head(awake) = 0
    <3>1. caller'.awake_flag # 1 /\ Wanted' = 0
      BY <2>4, <1>5, <1>6, <1>13
    <3>2. Unheard(n) > 0 => crossed' = crossed + 1
      BY <2>1, <2>4
    <3>3. crossed' >= crossed
      BY <2>1, <1>10
    <3>4. Counted'
      <4>1. \A o, p, k, c \in Nat : p <= o /\ o <= 1 + k /\ c >= k => p + 0 <= 1 + c
        OBVIOUS
      <4>2. QED BY <4>1, <3>1, <3>3, <2>2, <1>10, <1>11, <1>12, Zenon DEF Counted
    <3>5. AsleepIsDeaf'
      BY <3>2, <1>10, <1>11 DEF AsleepIsDeaf
    <3>6. QED BY <3>4, <3>5
  <2>5. CASE awake = <<>>
    <3>1. crossed' = crossed /\ told = asked
      BY <2>1, <2>5, <1>5, <1>10
    <3>2. Counted'
      <4>1. CASE responses # <<>>
        <5>1. \A o, p, k \in Nat, w \in {0, 1} :
                \A l, m \in Nat : l > 0 /\ m = l - 1 /\ p + l = o + m /\ o <= 1 + k => p + w <= 1 + k
          OBVIOUS
        <5>2. Outstanding(requests)' + Wanted' <= 1 + crossed
          BY <4>1, <5>1, <1>7, <1>10, <1>11, <1>13, Zenon
        <5>3. QED BY <5>2, <3>1, Zenon DEF Counted
      <4>2. CASE responses = <<>>
        <5>1. Wanted' = 0
          BY <4>2, <3>1, <1>4, <1>6, <1>13 DEF Sends
        <5>2. QED BY <5>1, <3>1, <2>2, <1>10, <1>11 DEF Counted
      <4>3. QED BY <4>1, <4>2
    <3>3. ASSUME caller'.awake_flag = 0, Unheard(n) > 0
          PROVE  crossed > 0
      <4>1. CASE caller.awake_flag = 0
        <5>1. Wanted = 0 /\ n = requests
          BY <4>1, <1>3 DEF Wanted, Sends, n
        <5>2. QED BY <4>1, <5>1, <3>3 DEF Asking, AsleepIsDeaf
      <4>2. CASE caller.awake_flag = 1
        <5>1. responses # <<>>
          BY <4>2, <3>1, <3>3, <1>4, <1>6
        <5>2. \A u, l, o, k \in Nat : u > 0 /\ l > 0 /\ u + l <= o /\ o <= 1 + k => k > 0
          OBVIOUS
        <5>3. QED BY <5>1, <5>2, <3>3, <1>7, <1>10, <1>11, Zenon
      <4>3. QED BY <4>1, <4>2, <1>3 DEF Caller
    <3>4. AsleepIsDeaf'
      BY <3>1, <3>3, <1>11 DEF AsleepIsDeaf
    <3>5. QED BY <3>2, <3>4
  <2>6. QED BY <2>3, <2>4, <2>5, <1>8
<1>17. NewestLives'
  <2> SUFFICES ASSUME caller'.awake_flag = 1, ~caller'.call_, ~failed',
                      ~(requests' > 0),
                      server' \notin {"read", "check", "end", "down"},
                      ~(server' = "reply" /\ result' # "")
               PROVE  server' = "idle" /\ responses' # <<>> /\ responses'[Len(responses')] # ""
    BY DEF NewestLives
  <2>1. awake = <<>> /\ ~failed
    BY <1>1, <1>5, <1>6
  <2>2. told = asked /\ caller.awake_flag = 1 /\ ~asked.call_
    BY <2>1, <1>4, <1>5, <1>6
  <2>3. n = 0 /\ Wanted = 0 /\ requests = 0
    <3>1. n = 0
      BY <1>1, <1>3, Small, Zenon
    <3>2. QED BY <3>1, Small, <1>3, <1>10, Zenon
  <2>4. ~caller.call_
    BY Small, <2>2, <2>3, Zenon DEF Wanted, Sends
  <2>5. server' = server /\ result' = result
    BY <1>1 DEF recording
  <2>6. server = "idle" /\ responses # <<>> /\ responses[Len(responses)] # ""
    <3>1. ~(requests > 0)
      BY <2>3, Small, Zenon
    <3>2. server \notin {"read", "check", "end", "down"} /\ ~(server = "reply" /\ result # "")
      BY <2>5
    <3>3. QED BY <3>1, <3>2, <2>1, <2>2, <2>4, Zenon DEF Asking, NewestLives
  <2>7. Head(responses) = ""
    <3>1. Head(responses) \in {"ok", "fail"} => caller'.call_
      BY <2>6, <1>6, Zenon
    <3>2. Head(responses) = "sleep" => caller'.awake_flag = 0
      BY <2>6, <1>6, Zenon
    <3>3. Head(responses) \notin {"ok", "fail", "sleep"}
      BY <3>1, <3>2, Small, Zenon
    <3>4. QED BY <3>3, <2>6, <1>7, Zenon
  <2>8. QED BY <2>5, <2>6, <2>7, <1>1, <1>2, Newest DEF TypeOK
<1>18. QED BY <1>14, <1>15, <1>16, <1>17 DEF Asking

-----------------------------------------------------------------------------
(* A step that leaves the caller alone and moves no recognition forward    *)
(* by more than it takes from behind.                                      *)
LEMMA Handed ==
  ASSUME Asking, TypeOK', UNCHANGED <<caller, crossed>>,
         Outstanding(requests)' = Outstanding(requests),
         Unheard(requests)' <= Unheard(requests)
  PROVE  Counted' /\ AsleepIsDeaf'
<1>1. Wanted' = Wanted
  BY Zenon DEF Wanted, Sends
<1>2. Counted'
  BY <1>1, Zenon DEF Asking, Counted
<1>3. requests \in Nat /\ requests' \in Nat
  BY DEF Asking, TypeOK
<1>4. Unheard(requests) \in Nat /\ Unheard(requests)' \in Nat
  <2>1. \A n \in Nat, h \in {0, 1} : n + h \in Nat
    OBVIOUS
  <2>2. Hearing \in {0, 1} /\ Unheard(requests) = requests + Hearing
    BY Counts, Zenon
  <2>3. Hearing' \in {0, 1} /\ Unheard(requests)' = requests' + Hearing'
    BY Zenon DEF Hearing, Unheard
  <2>4. QED BY <1>3, <2>1, <2>2, <2>3, Zenon
<1>5. \A a, b \in Nat : b <= a /\ b > 0 => a > 0
  OBVIOUS
<1>6. AsleepIsDeaf'
  BY <1>4, <1>5, Zenon DEF Asking, AsleepIsDeaf
<1>7. QED BY <1>2, <1>6

(* The other nodes and threads, one by one.                                *)
LEMMA AskingControl ==
  ASSUME Asking, Control PROVE Asking'
<1>1. TypeOK
  BY DEF Asking
<1>2. /\ requests \in Nat /\ Len(responses) \in Nat
      /\ Hearing \in {0, 1} /\ Busy \in {0, 1}
      /\ Unheard(requests) = requests + Hearing
      /\ Outstanding(requests) = requests + Busy + Len(responses)
  BY <1>1, Counts, LenProperties DEF TypeOK
<1>3. /\ Unheard(requests)' = requests' + Hearing'
      /\ Outstanding(requests)' = requests' + Busy' + Len(responses')
  BY Zenon DEF Unheard, Outstanding, Hearing, Busy
<1>4. CASE Accept
  <2>1. /\ Hearing = 0 /\ Busy = 0 /\ server' \in {"read", "reply", "down"}
        /\ requests' = requests - 1 /\ requests > 0
        /\ UNCHANGED <<caller, crossed, responses>>
    BY <1>4 DEF Accept, Hearing, Busy
  <2>2. Busy' = 1 /\ Hearing' \in {0, 1} /\ requests' \in Nat
    BY <1>2, <2>1 DEF Busy, Hearing
  <2>3. TypeOK'
    BY <1>1, <1>4, <2>1, <2>2 DEF TypeOK, Accept, topics, timing
  <2>4. Outstanding(requests)' = Outstanding(requests) /\ Unheard(requests)' <= Unheard(requests)
    <3>1. \A n, l \in Nat, h \in {0, 1} :
            n > 0 => (n - 1) + 1 + l = n + 0 + l /\ (n - 1) + h <= n + 0
      OBVIOUS
    <3>2. QED BY <1>2, <1>3, <2>1, <2>2, <3>1, Zenon
  <2>5. NewestLives'
    BY <1>4, Zenon DEF Accept, NewestLives
  <2>6. QED BY <2>1, <2>3, <2>4, <2>5, Handed DEF Asking
<1>5. CASE ReadSound \/ business_data_t
  <2>1. /\ server \in {"read", "check"} /\ server' \in {"read", "check", "end"}
        /\ UNCHANGED <<caller, crossed, requests, responses, failed, result>>
    BY <1>5 DEF ReadSound, business_data_t, service
  <2>2. Hearing = 1 /\ Hearing' = 1 /\ Busy = 1 /\ Busy' = 1
    BY <2>1 DEF Hearing, Busy
  <2>3. TypeOK'
    BY <1>1, <1>5, <2>1 DEF TypeOK, ReadSound, business_data_t, topics, timing, service
  <2>4. Outstanding(requests)' = Outstanding(requests) /\ Unheard(requests)' <= Unheard(requests)
    BY <1>2, <1>3, <2>1, <2>2
  <2>5. NewestLives'
    BY <2>1, Zenon DEF NewestLives
  <2>6. QED BY <2>1, <2>3, <2>4, <2>5, Handed DEF Asking
<1>6. CASE EndRecord
  <2>1. /\ server = "end" /\ server' = "reply" /\ result' \in {"ok", "sleep", "fail"}
        /\ UNCHANGED <<caller, crossed, requests, responses, failed>>
    BY <1>6 DEF EndRecord, service
  <2>2. Hearing = 1 /\ Hearing' = 0 /\ Busy = 1 /\ Busy' = 1
    BY <2>1 DEF Hearing, Busy
  <2>3. words' \in Seq({"command", "sleep"})
    <3>1. Push(words, "command") \in Seq({"command", "sleep"})
      BY <1>1, PushType DEF TypeOK
    <3>2. Push(words, "sleep") \in Seq({"command", "sleep"})
      BY <1>1, PushType DEF TypeOK
    <3>3. QED BY <1>1, <1>6, <3>1, <3>2, Zenon DEF EndRecord, TypeOK
  <2>4. TypeOK'
    <3>1. recorded' \in 0 .. Limit + 1 /\ ~late' /\ ~init_rec'
      <4>1. 0 \in 0 .. Limit + 1
        BY Constants
      <4>2. QED BY <1>6, <4>1, Zenon DEF EndRecord
    <3>2. {init_rec', late', failed'} \subseteq BOOLEAN /\ elapsed' \in 0 .. Limit + 1
      BY <1>1, <1>6, <3>1 DEF TypeOK, EndRecord, timing
    <3>3. QED BY <1>1, <1>6, <2>1, <2>3, <3>1, <3>2 DEF TypeOK, EndRecord, timing, service
  <2>5. Outstanding(requests)' = Outstanding(requests) /\ Unheard(requests)' <= Unheard(requests)
    BY <1>2, <1>3, <2>1, <2>2
  <2>6. NewestLives'
    <3>1. result' # ""
      BY <2>1
    <3>2. QED BY <2>1, <3>1, Zenon DEF NewestLives
  <2>7. QED BY <2>1, <2>4, <2>5, <2>6, Handed DEF Asking
<1>7. CASE Reply
  <2>1. /\ server = "reply" /\ server' = "idle" /\ responses' = Append(responses, result)
        /\ UNCHANGED <<caller, crossed, requests, failed>>
    BY <1>7 DEF Reply
  <2>2. Hearing = 0 /\ Hearing' = 0 /\ Busy = 1 /\ Busy' = 0
    BY <2>1 DEF Hearing, Busy
  <2>3. /\ responses' \in Seq({"ok", "sleep", "fail", ""})
        /\ Len(responses') = Len(responses) + 1
        /\ responses'[Len(responses')] = result /\ responses' # <<>>
    <3> DEFINE S == {"ok", "sleep", "fail", ""}
    <3>1. responses \in Seq(S) /\ result \in S
      BY <1>1 DEF TypeOK
    <3> HIDE DEF S
    <3>2. /\ responses' \in Seq(S) /\ responses' # <<>>
          /\ Len(responses') = Len(responses) + 1
          /\ responses'[Len(responses) + 1] = result
      BY <2>1, <3>1, Sent, Zenon
    <3>3. responses'[Len(responses')] = result
      BY <3>2, Zenon
    <3>4. QED BY <3>2, <3>3 DEF S
  <2>4. TypeOK'
    BY <1>1, <1>7, <2>1, <2>3 DEF TypeOK, Reply, timing, topics
  <2>5. Outstanding(requests)' = Outstanding(requests) /\ Unheard(requests)' <= Unheard(requests)
    <3>1. \A n, l \in Nat : n + 0 + (l + 1) = n + 1 + l /\ n + 0 <= n + 0
      OBVIOUS
    <3>2. QED BY <1>2, <1>3, <2>1, <2>2, <2>3, <3>1, Zenon
  <2>6. NewestLives'
    <3>1. server \notin {"read", "check", "end", "down"} /\ server # "idle"
      BY <2>1
    <3>2. QED BY <2>1, <2>3, <3>1, Zenon DEF Asking, NewestLives
  <2>7. QED BY <2>1, <2>4, <2>5, <2>6, Handed DEF Asking
<1>8. QED BY <1>4, <1>5, <1>6, <1>7 DEF Control

LEMMA AskingOthers ==
  ASSUME Asking, Thread \/ voice_words_Callback \/ Wake \/ Tick \/ UNCHANGED vars
  PROVE  Asking'
<1>1. UNCHANGED <<caller, server, result, requests, responses, failed, crossed>>
  BY Zenon DEF Thread, Look, Time, SetFinished, voice_words_Callback, Wake, Tick, vars, service,
               recording
<1>2. TypeOK
  BY DEF Asking
<1>3. ASSUME Thread PROVE TypeOK'
  <2>1. elapsed' \in 0 .. Limit + 1
    <3>1. 0 \in 0 .. Limit + 1
      BY Constants
    <3>2. QED BY <1>2, <1>3, <3>1 DEF TypeOK, Thread, Look, Time, SetFinished
  <2>2. timer' \in {"look", "time", "set"} /\ whether_finised' \in {"no", "engine", "time"}
    BY <1>2, <1>3 DEF TypeOK, Thread, Look, Time, SetFinished
  <2>3. UNCHANGED <<caller, recording, topics, service, failed, crossed>>
    BY <1>3, Zenon DEF Thread, Look, Time, SetFinished
  <2>4. QED BY <1>2, <2>1, <2>2, <2>3 DEF TypeOK, recording, topics, service
<1>4. ASSUME voice_words_Callback PROVE TypeOK'
  <2>1. words' \in Seq({"command", "sleep"})
    BY <1>2, <1>4, HeadTailProperties DEF voice_words_Callback, TypeOK
  <2>2. awake' \in Seq({0, 1})
    BY <1>2, <1>4, PushType DEF voice_words_Callback, TypeOK
  <2>3. QED BY <1>2, <1>4, <2>1, <2>2
            DEF TypeOK, voice_words_Callback, recording, timing, service
<1>5. ASSUME Wake PROVE TypeOK'
  <2>1. awake' \in Seq({0, 1})
    BY <1>2, <1>5, PushType DEF Wake, TypeOK
  <2>2. QED BY <1>2, <1>5, <2>1 DEF TypeOK, Wake, recording, timing, service
<1>6. ASSUME Tick PROVE TypeOK'
  <2>1. recorded' \in 0 .. Limit + 1 /\ elapsed' \in 0 .. Limit + 1
    <3>1. \A k \in 0 .. Limit + 1 : k <= Limit => k + 1 \in 0 .. Limit + 1
      BY Constants
    <3>2. recorded \in 0 .. Limit + 1 /\ elapsed \in 0 .. Limit + 1
      BY <1>2 DEF TypeOK
    <3>3. QED BY <1>6, <3>1, <3>2, Zenon DEF Tick
  <2>2. QED BY <1>2, <1>6, <2>1 DEF TypeOK, Tick, topics, service
<1>7. ASSUME UNCHANGED vars PROVE TypeOK'
  BY <1>2, <1>7 DEF TypeOK, vars, recording, timing, topics, service
<1>8. Counted' /\ AsleepIsDeaf' /\ NewestLives'
  BY <1>1, Zenon DEF Asking, Counted, AsleepIsDeaf, NewestLives, Outstanding, Unheard, Wanted, Sends
<1>9. QED
  <2>1. TypeOK'
    BY <1>3, <1>4, <1>5, <1>6, <1>7
  <2>2. QED BY <1>8, <2>1 DEF Asking

LEMMA AskingInvariant == Spec => []Asking
<1>1. Asking /\ [Next]_vars => Asking'
  BY AskingCallLoop, AskingControl, AskingOthers, Zenon DEF Next
<1>2. QED BY AskingInit, <1>1, PTL DEF Spec

(* Every variable of the offline voice keeps its type.                     *)
THEOREM TypesCorrect == Spec => []TypeOK
<1>1. Asking => TypeOK
  BY DEF Asking
<1>2. QED BY AskingInvariant, <1>1, PTL

(* Recognitions are asked for one at a time, but for one more with each    *)
(* message of awake_flag that crosses one.                                 *)
THEOREM AsksOneAtATime == Spec => []OneAtATime
<1>1. Asking => OneAtATime
  <2> SUFFICES ASSUME Asking PROVE OneAtATime
    OBVIOUS
  <2>1. TypeOK /\ Outstanding(requests) + Wanted <= 1 + crossed
    BY DEF Asking, Counted
  <2>2. requests \in Nat /\ crossed \in Nat /\ Len(responses) \in Nat
    BY <2>1, LenProperties DEF TypeOK
  <2>3. /\ Outstanding(requests) = requests + Busy + Len(responses)
        /\ Busy \in {0, 1}
    BY Counts, Zenon
  <2>4. Wanted \in {0, 1}
    BY Zenon DEF Wanted
  <2>5. \A r, l, k \in Nat, b, w \in {0, 1} : (r + b + l) + w <= 1 + k => r + b + l <= 1 + k
    OBVIOUS
  <2>6. QED BY <2>1, <2>2, <2>3, <2>4, <2>5, Zenon DEF OneAtATime
<1>2. QED BY AskingInvariant, <1>1, PTL

(* Nobody listens to a robot that sleeps, unless a message crossed.        *)
THEOREM SleepIsDeaf == Spec => []AsleepIsDeaf
<1>1. Asking => AsleepIsDeaf
  BY DEF Asking
<1>2. QED BY AskingInvariant, <1>1, PTL

(* An awake robot has asked or will, but for a failed engine.              *)
THEOREM AwakeHasAsked == Spec => []AwakeAsks
<1>1. Asking => AwakeAsks
  <2> SUFFICES ASSUME Asking, caller.awake_flag = 1, ~caller.call_, ~failed
               PROVE  Outstanding(requests) > 0
    BY DEF AwakeAsks
  <2>1. TypeOK
    BY DEF Asking
  <2>2. requests \in Nat /\ Len(responses) \in Nat
    BY <2>1, LenProperties DEF TypeOK
  <2>3. Outstanding(requests) = requests + Busy + Len(responses) /\ Busy \in {0, 1}
    BY Counts, Zenon
  <2>4. requests > 0 \/ Busy = 1 \/ Len(responses) # 0
    <3>1. server # "idle" => Busy = 1
      BY Zenon DEF Busy
    <3>2. responses # <<>> => Len(responses) # 0
      BY <2>1, EmptySeq DEF TypeOK
    <3>3. server \in {"read", "check", "end", "down"} \/ server = "reply" => server # "idle"
      BY Zenon
    <3>4. QED BY <3>1, <3>2, <3>3, Zenon DEF Asking, NewestLives
  <2>5. \A r, l \in Nat, b \in {0, 1} : r > 0 \/ b = 1 \/ l # 0 => r + b + l > 0
    OBVIOUS
  <2>6. QED BY <2>2, <2>3, <2>4, <2>5, Zenon
<1>2. QED BY AskingInvariant, <1>1, PTL

-----------------------------------------------------------------------------
(* CutShortOnlyIfLate made inductive: the clock of a thread that was not   *)
(* late began after the recording.                                         *)
InTime ==
  server \in {"read", "check"} /\ ~late =>
    /\ whether_finised = "time" \/ timer = "set" => recorded > Limit
    /\ timer = "time" => init_rec /\ elapsed <= recorded

LEMMA InTimeStep ==
  ASSUME TypeOK, InTime, [Next]_vars
  PROVE  InTime'
<1> SUFFICES ASSUME server' \in {"read", "check"}, ~late'
             PROVE  /\ whether_finised' = "time" \/ timer' = "set" => recorded' > Limit
                    /\ timer' = "time" => init_rec' /\ elapsed' <= recorded'
  BY DEF InTime
<1>1. recorded \in 0 .. Limit + 1 /\ elapsed \in 0 .. Limit + 1 /\ Limit \in Nat
  BY Constants DEF TypeOK
<1>2. CASE UNCHANGED vars \/ CallLoop \/ voice_words_Callback \/ Wake
  BY <1>2, Zenon DEF InTime, vars, CallLoop, voice_words_Callback, Wake, recording, timing
<1>3. CASE Control
  <2>1. CASE Accept
    <3>1. whether_finised' = "no" /\ timer' = timer /\ timer = "look"
      BY <2>1 DEF Accept, timing
    <3>2. QED BY <3>1
  <2>2. CASE ReadSound
    <3>1. /\ server = "read" /\ server' = "check" /\ init_rec'
          /\ whether_finised' = "time" => whether_finised = "time"
          /\ UNCHANGED <<recorded, late, timer, elapsed>>
      BY <2>2 DEF ReadSound, timing
    <3>2. QED BY <3>1 DEF InTime
  <2>3. CASE business_data_t
    <3>1. /\ server = "check" /\ whether_finised' = "no"
          /\ UNCHANGED <<recorded, late, timer, elapsed, init_rec>>
      BY <2>3 DEF business_data_t, timing
    <3>2. QED BY <3>1 DEF InTime
  <2>4. CASE EndRecord \/ Reply
    BY <2>4 DEF EndRecord, Reply
  <2>5. QED BY <1>3, <2>1, <2>2, <2>3, <2>4 DEF Control
<1>4. CASE Thread
  <2>1. UNCHANGED <<server, late, recorded, init_rec>> /\ server \in {"read", "check"} /\ ~late
    <3>1. UNCHANGED <<server, late, recorded, init_rec>>
      BY <1>4 DEF Thread, Look, Time, SetFinished, recording
    <3>2. QED BY <3>1
  <2>2. CASE Look
    <3>1. timer' = "time" /\ elapsed' = 0 /\ init_rec /\ whether_finised' = whether_finised
      BY <2>2 DEF Look
    <3>2. QED BY <1>1, <2>1, <3>1 DEF InTime
  <2>3. CASE Time
    <3>1. /\ timer = "time" /\ whether_finised' = whether_finised
          /\ timer' = "set" => elapsed > Limit
          /\ timer' \in {"set", "look"}
      BY <2>3 DEF Time
    <3>2. elapsed <= recorded /\ whether_finised = "time" => recorded > Limit
      BY <2>1, <3>1, Zenon DEF InTime
    <3>3. elapsed <= recorded
      BY <2>1, <3>1, Zenon DEF InTime
    <3>4. \A e, r, l \in Int : e > l /\ e <= r => r > l
      OBVIOUS
    <3>5. elapsed \in Int /\ recorded \in Int /\ Limit \in Int
      BY <1>1
    <3>6. QED BY <2>1, <3>1, <3>2, <3>3, <3>4, <3>5
  <2>4. CASE SetFinished
    <3>1. timer = "set" /\ timer' = "look"
      BY <2>4 DEF SetFinished
    <3>2. QED BY <2>1, <3>1 DEF InTime
  <2>5. QED BY <1>4, <2>2, <2>3, <2>4 DEF Thread
<1>5. CASE Tick
  <2>1. /\ UNCHANGED <<server, late, init_rec, whether_finised, timer>>
        /\ recorded' = IF init_rec /\ recorded <= Limit THEN recorded + 1 ELSE recorded
        /\ elapsed' = IF timer = "time" /\ elapsed <= Limit THEN elapsed + 1 ELSE elapsed
    BY <1>5 DEF Tick
  <2>2. \A e, r \in 0 .. Limit + 1 :
          /\ e <= r => (IF e <= Limit THEN e + 1 ELSE e) <= (IF r <= Limit THEN r + 1 ELSE r)
          /\ ~(r > Limit) => r <= Limit
          /\ r > Limit => ~(r <= Limit)
    BY <1>1
  <2>3. CASE timer = "time"
    <3>1. init_rec /\ elapsed <= recorded
      BY <2>1, <2>3, Zenon DEF InTime
    <3>2. elapsed' <= recorded'
      BY <1>1, <2>1, <2>2, <2>3, <3>1, Zenon
    <3>3. timer' # "set"
      BY <2>1, <2>3
    <3>4. whether_finised' = "time" => recorded' > Limit
      BY <1>1, <2>1, <2>2, Zenon DEF InTime
    <3>5. QED BY <2>1, <2>3, <3>1, <3>2, <3>3, <3>4
  <2>4. CASE timer # "time"
    BY <1>1, <2>1, <2>2, <2>4, Zenon DEF InTime
  <2>5. QED BY <2>3, <2>4
<1>6. QED BY <1>2, <1>3, <1>4, <1>5 DEF Next

(* The timer cuts no recording short, unless it was late already.          *)
THEOREM CutsOnlyIfLate == Spec => []CutShortOnlyIfLate
<1>1. Init => InTime
  BY DEF Init, InTime
<1>2. TypeOK /\ InTime /\ [Next]_vars => InTime'
  BY InTimeStep
<1>3. TypeOK /\ InTime => CutShortOnlyIfLate
  <2>1. TypeOK => recorded \in 0 .. Limit + 1 /\ Limit \in Nat
    BY Constants DEF TypeOK
  <2>2. \A r \in Int : r > Limit => ~(r <= Limit)
    BY Constants
  <2>3. QED BY <2>1, <2>2 DEF InTime, CutShortOnlyIfLate
<1>4. QED BY TypesCorrect, <1>1, <1>2, <1>3, PTL DEF Spec

-----------------------------------------------------------------------------
(* Why a recording in which the engine finds nothing is over all the same. *)
Recording == server \in {"read", "check"}

(* The steps the thread has to go until it ends a recording.               *)
TimeLeft ==
  CASE timer = "look" -> Limit + 4
    [] timer = "time" -> Limit + 3 - elapsed
    [] OTHER          -> 1

(* In a recording a flag that was set is not lost, the recording ends at   *)
(* its next check, and the thread's clock only ever runs down.             *)
RecordingRuns ==
  Recording =>
    /\ server' = "check" => init_rec'
    /\ init_rec /\ Recording' => init_rec'
    /\ whether_finised # "no" /\ Recording' => whether_finised' # "no"
    /\ whether_finised # "no" /\ business_data_t => server' = "end"
    /\ init_rec /\ whether_finised = "no" /\ Recording' /\ whether_finised' = "no" =>
         /\ TimeLeft' <= TimeLeft
         /\ Thread => TimeLeft' < TimeLeft
         /\ Tick /\ timer = "time" /\ elapsed <= Limit => TimeLeft' < TimeLeft

(* The recorder is set up by the time of its first check, and stays so     *)
(* until the recording ends: the thread sees every recording.             *)
Clocked == server = "check" => init_rec

LEMMA TimeLeftSteps ==
  ASSUME TypeOK, TypeOK', [Next]_vars, init_rec, whether_finised = "no", whether_finised' = "no"
  PROVE  /\ TimeLeft' <= TimeLeft
         /\ Thread => TimeLeft' < TimeLeft
         /\ Tick /\ timer = "time" /\ elapsed <= Limit => TimeLeft' < TimeLeft
<1>1. /\ elapsed \in 0 .. Limit + 1 /\ elapsed' \in 0 .. Limit + 1 /\ Limit \in Nat
      /\ timer \in {"look", "time", "set"}
  BY Constants DEF TypeOK
<1>2. TimeLeft \in Nat
  BY <1>1 DEF TimeLeft
<1>3. ASSUME Thread PROVE TimeLeft' < TimeLeft
  <2>1. CASE Look
    <3>1. timer = "look" /\ timer' = "time" /\ elapsed' = 0
      BY <2>1 DEF Look
    <3>2. QED BY <1>1, <3>1 DEF TimeLeft
  <2>2. CASE Time
    <3>1. timer = "time" /\ timer' = "set" /\ elapsed > Limit
      BY <2>2 DEF Time
    <3>2. QED BY <1>1, <3>1 DEF TimeLeft
  <2>3. CASE SetFinished
    BY <2>3 DEF SetFinished
  <2>4. QED BY <1>3, <2>1, <2>2, <2>3 DEF Thread
<1>4. ASSUME Tick PROVE /\ TimeLeft' <= TimeLeft
                        /\ timer = "time" /\ elapsed <= Limit => TimeLeft' < TimeLeft
  <2>1. /\ timer' = timer
        /\ elapsed' = IF timer = "time" /\ elapsed <= Limit THEN elapsed + 1 ELSE elapsed
    BY <1>4 DEF Tick
  <2>2. QED BY <1>1, <2>1 DEF TimeLeft
<1>5. CASE ~Thread /\ ~Tick
  <2>1. UNCHANGED timing
    BY <1>5, Zenon DEF Next, Control, CallLoop, Accept, ReadSound, business_data_t, EndRecord,
                Reply, voice_words_Callback, Wake, vars
  <2>2. TimeLeft' = TimeLeft
    BY <2>1 DEF timing, TimeLeft
  <2>3. QED BY <1>2, <1>5, <2>2
<1>6. TimeLeft' <= TimeLeft
  <2>1. TimeLeft' < TimeLeft => TimeLeft' <= TimeLeft
    BY <1>1, <1>2 DEF TimeLeft
  <2>2. QED BY <1>3, <1>4, <1>5, <2>1
<1>7. QED BY <1>3, <1>4, <1>6

LEMMA FlagSteps ==
  ASSUME Clocked, [Next]_vars
  PROVE  /\ Clocked'
         /\ Recording =>
              /\ init_rec /\ Recording' => init_rec'
              /\ whether_finised # "no" /\ Recording' => whether_finised' # "no"
              /\ whether_finised # "no" /\ business_data_t => server' = "end"
<1> USE DEF Clocked, Recording
<1>1. CASE Accept
  BY <1>1 DEF Accept, business_data_t
<1>2. CASE ReadSound
  BY <1>2 DEF ReadSound, business_data_t
<1>3. CASE business_data_t
  BY <1>3 DEF business_data_t
<1>4. CASE EndRecord \/ Reply
  BY <1>4 DEF EndRecord, Reply, business_data_t
<1>5. CASE Thread
  BY <1>5 DEF Thread, Look, Time, SetFinished, recording, business_data_t
<1>6. CASE CallLoop \/ voice_words_Callback \/ Wake \/ UNCHANGED vars
  <2>1. UNCHANGED <<server, init_rec, whether_finised>>
    BY <1>6, Zenon DEF CallLoop, voice_words_Callback, Wake, vars, recording
  <2>2. QED BY <2>1 DEF business_data_t
<1>7. CASE Tick
  BY <1>7 DEF Tick, business_data_t
<1>8. QED BY <1>1, <1>2, <1>3, <1>4, <1>5, <1>6, <1>7 DEF Next, Control

(* Every recording is over when the thread's clock has run down, whatever  *)
(* the engine finds and however the two cross on the flags they share      *)
(* (voice_control.cpp:219-240, 466-472).  RecordingEnds adds that the      *)
(* thread and the recorder run.                                            *)
THEOREM RecordingsRunDown == Spec => [][RecordingRuns]_vars
<1>1. Init => Clocked
  BY DEF Init, Clocked
<1>2. Clocked /\ [Next]_vars => Clocked'
  BY FlagSteps
<1>3. TypeOK /\ TypeOK' /\ Clocked /\ [Next]_vars => [RecordingRuns]_vars
  <2> SUFFICES ASSUME TypeOK, TypeOK', Clocked, [Next]_vars PROVE RecordingRuns
    OBVIOUS
  <2>1. server' = "check" => init_rec'
    BY FlagSteps DEF Clocked
  <2>2. QED BY <2>1, FlagSteps, TimeLeftSteps, Zenon DEF RecordingRuns
<1>4. QED BY TypesCorrect, <1>1, <1>2, <1>3, PTL DEF Spec
=============================================================================
