-------------------------- MODULE GraspPipelineProofs --------------------------
(***************************************************************************)
(* Proofs about GraspPipeline, for every depth of the queues and any       *)
(* number of scenes: the target is the last point and never goes back.     *)
(***************************************************************************)
EXTENDS GraspPipeline, SequenceTheorems, TLAPS

(* Both pictures of p are at most as new as those of q.                    *)
Older(p, q) == p.seen <= q.seen /\ p.measured <= q.measured

SortedScenes(q) == \A i, j \in 1 .. Len(q) : i <= j => q[i] <= q[j]
SortedPoints(q) == \A i, j \in 1 .. Len(q) : i <= j => Older(q[i], q[j])

Points == Point \cup {None}

(* A picture, a detection and a point are made of what came before them.   *)
Chain ==
  /\ frame <= scene /\ depth_image_ <= scene
  /\ SortedScenes(object_center)
  /\ \A i \in 1 .. Len(object_center) :
       /\ object_center[i] <= scene
       /\ frame # 0 => object_center[i] <= frame
       /\ last.seen <= object_center[i]
  /\ frame # 0 => last.seen <= frame
  /\ last.seen <= scene
  /\ last.measured <= depth_image_
  /\ SortedPoints(depth_coordinates)
  /\ \A i \in 1 .. Len(depth_coordinates) :
       Older(depth_coordinates[i], last) /\ Older(pose_, depth_coordinates[i])
  /\ Older(pose_, last)

(* The newest point that waits, or else the target, is the last one.       *)
Newest ==
  IF depth_coordinates = <<>> THEN pose_ = last
  ELSE depth_coordinates[Len(depth_coordinates)] = last

(* What the arms are at, and how often they went blindly.                  *)
Motions ==
  /\ MovesToTarget
  /\ first_execution_ => blind = 0
  /\ blind <= 1

GraspInv == TypeOK /\ Chain /\ Newest /\ object \in {last, Origin} /\ Motions

-----------------------------------------------------------------------------
LEMMA Numbers ==
  /\ Depth \in Nat /\ Depth > 0 /\ MaxScene \in Nat
  /\ Scene \subseteq Nat /\ 1 \in Scene
  /\ \A p \in Points : p.seen \in Nat /\ p.measured \in Nat
BY GraspAssumption DEF GraspAssumption, Scene, Points, Point, None

(* Where the messages of a queue are after one was added or taken.         *)
LEMMA Pushed ==
  ASSUME NEW S, NEW q \in Seq(S), NEW m \in S
  PROVE  /\ Push(q, m) \in Seq(S)
         /\ \E d \in {0, 1} :
              /\ d <= Len(q)
              /\ Len(Push(q, m)) = Len(q) + 1 - d
              /\ \A i \in 1 .. Len(q) - d : Push(q, m)[i] = q[i + d]
              /\ Push(q, m)[Len(q) + 1 - d] = m
<1>0. Len(q) \in Nat
  BY LenProperties
<1>1. CASE Len(q) < Depth
  <2>1. /\ Append(q, m) \in Seq(S) /\ Len(Append(q, m)) = Len(q) + 1
        /\ \A i \in 1 .. Len(q) : Append(q, m)[i] = q[i]
        /\ Append(q, m)[Len(q) + 1] = m
    BY AppendProperties
  <2>2. QED BY <1>0, <1>1, <2>1 DEF Push
<1>2. CASE ~(Len(q) < Depth)
  <2>1. Len(q) > 0
    BY <1>0, <1>2, Numbers
  <2>2. q # <<>>
    BY <2>1, EmptySeq
  <2>3. /\ Tail(q) \in Seq(S) /\ Len(Tail(q)) = Len(q) - 1
        /\ \A i \in 1 .. Len(Tail(q)) : Tail(q)[i] = q[i + 1]
    BY <2>2, HeadTailProperties
  <2>4. /\ Append(Tail(q), m) \in Seq(S) /\ Len(Append(Tail(q), m)) = Len(Tail(q)) + 1
        /\ \A i \in 1 .. Len(Tail(q)) : Append(Tail(q), m)[i] = Tail(q)[i]
        /\ Append(Tail(q), m)[Len(Tail(q)) + 1] = m
    BY <2>3, AppendProperties
  <2>5. Push(q, m) = Append(Tail(q), m)
    BY <1>2 DEF Push
  <2>6. \A n \in Nat : n > 0 => /\ 1 <= n /\ n - 1 + 1 = n /\ n + 1 - 1 = n
                                /\ n - 1 \in Nat
    OBVIOUS
  <2>7. /\ 1 <= Len(q) /\ Len(Push(q, m)) = Len(q) + 1 - 1
        /\ Push(q, m)[Len(q) + 1 - 1] = m
    BY <1>0, <2>1, <2>3, <2>4, <2>5, <2>6
  <2>8. \A i \in 1 .. Len(q) - 1 : Push(q, m)[i] = q[i + 1]
    BY <2>3, <2>4, <2>5
  <2>9. QED BY <2>3, <2>4, <2>5, <2>7, <2>8
<1>3. QED BY <1>1, <1>2

LEMMA Taken ==
  ASSUME NEW S, NEW q \in Seq(S), q # <<>>
  PROVE  /\ Tail(q) \in Seq(S) /\ Head(q) \in S /\ Head(q) = q[1]
         /\ Len(q) \in Nat /\ Len(q) > 0 /\ Len(Tail(q)) = Len(q) - 1
         /\ \A i \in 1 .. Len(q) - 1 : Tail(q)[i] = q[i + 1]
         /\ Tail(q) = <<>> <=> Len(q) = 1
<1>1. /\ Tail(q) \in Seq(S) /\ Head(q) \in S /\ Head(q) = q[1]
      /\ Len(Tail(q)) = Len(q) - 1
      /\ \A i \in 1 .. Len(Tail(q)) : Tail(q)[i] = q[i + 1]
  BY HeadTailProperties
<1>2. Len(q) \in Nat /\ Len(q) > 0
  BY LenProperties, EmptySeq
<1>3. Tail(q) = <<>> <=> Len(Tail(q)) = 0
  BY <1>1, EmptySeq
<1>4. QED BY <1>1, <1>2, <1>3

(* The same without counting: where a message of the new queue was.        *)
LEMMA PushedOrder ==
  ASSUME NEW S, NEW q \in Seq(S), NEW m \in S
  PROVE  /\ Push(q, m) \in Seq(S) /\ Push(q, m) # <<>>
         /\ Len(Push(q, m)) \in 1 .. Len(Push(q, m)) /\ Push(q, m)[Len(Push(q, m))] = m
         /\ \A i \in 1 .. Len(Push(q, m)) :
              Push(q, m)[i] = m \/ \E k \in 1 .. Len(q) : Push(q, m)[i] = q[k]
         /\ \A i, j \in 1 .. Len(Push(q, m)) : i <= j =>
              \/ Push(q, m)[j] = m
              \/ \E k, l \in 1 .. Len(q) :
                   k <= l /\ Push(q, m)[i] = q[k] /\ Push(q, m)[j] = q[l]
<1> DEFINE p == Push(q, m)
<1>0. Len(q) \in Nat /\ p \in Seq(S)
  BY LenProperties, Pushed
<1>1. PICK d \in {0, 1} :
        /\ d <= Len(q)
        /\ Len(p) = Len(q) + 1 - d
        /\ \A i \in 1 .. Len(q) - d : p[i] = q[i + d]
        /\ p[Len(q) + 1 - d] = m
  BY Pushed
<1> HIDE DEF p
<1>2. Len(p) \in Nat /\ Len(p) > 0
  BY <1>0, <1>1
<1>3. p # <<>> /\ Len(p) \in 1 .. Len(p) /\ p[Len(p)] = m
  BY <1>0, <1>1, <1>2, EmptySeq
<1>4. ASSUME NEW i \in 1 .. Len(p), i # Len(p)
      PROVE  i + d \in 1 .. Len(q) /\ p[i] = q[i + d]
  BY <1>0, <1>1, <1>2, <1>4
<1>5. \A i \in 1 .. Len(p) : p[i] = m \/ \E k \in 1 .. Len(q) : p[i] = q[k]
  BY <1>3, <1>4
<1>6. ASSUME NEW i \in 1 .. Len(p), NEW j \in 1 .. Len(p), i <= j, p[j] # m
      PROVE  \E k, l \in 1 .. Len(q) : k <= l /\ p[i] = q[k] /\ p[j] = q[l]
  <2>1. j # Len(p)
    BY <1>3, <1>6
  <2>2. i # Len(p)
    BY <1>6, <1>2, <2>1
  <2>3. /\ i + d \in 1 .. Len(q) /\ p[i] = q[i + d]
        /\ j + d \in 1 .. Len(q) /\ p[j] = q[j + d]
    BY <1>4, <2>1, <2>2
  <2>4. i + d <= j + d
    BY <1>1, <1>6, <1>2
  <2>5. QED BY <2>3, <2>4, Zenon
<1>7. QED BY <1>0, <1>3, <1>5, <1>6 DEF p

LEMMA TakenOrder ==
  ASSUME NEW S, NEW q \in Seq(S), q # <<>>
  PROVE  LET t == Tail(q)
         IN /\ t \in Seq(S) /\ Head(q) \in S /\ Head(q) = q[1] /\ 1 \in 1 .. Len(q)
            /\ t = <<>> => Head(q) = q[Len(q)]
            /\ t # <<>> => t[Len(t)] = q[Len(q)]
            /\ \A i \in 1 .. Len(t) : \E k \in 1 .. Len(q) : 1 <= k /\ t[i] = q[k]
            /\ \A i, j \in 1 .. Len(t) : i <= j =>
                 \E k, l \in 1 .. Len(q) : k <= l /\ t[i] = q[k] /\ t[j] = q[l]
<1> DEFINE t == Tail(q)
<1>1. /\ t \in Seq(S) /\ Head(q) \in S /\ Head(q) = q[1]
      /\ Len(q) \in Nat /\ Len(q) > 0 /\ Len(t) = Len(q) - 1
      /\ \A i \in 1 .. Len(q) - 1 : t[i] = q[i + 1]
      /\ t = <<>> <=> Len(q) = 1
  BY Taken
<1> HIDE DEF t
<1>2. 1 \in 1 .. Len(q)
  BY <1>1
<1>3. t = <<>> => Head(q) = q[Len(q)]
  BY <1>1
<1>4. ASSUME NEW i \in 1 .. Len(t)
      PROVE  i + 1 \in 1 .. Len(q) /\ t[i] = q[i + 1] /\ 1 <= i + 1
  BY <1>1
<1>5. t # <<>> => t[Len(t)] = q[Len(q)]
  <2>1. ASSUME t # <<>> PROVE Len(t) \in 1 .. Len(t) /\ Len(t) + 1 = Len(q)
    BY <1>1, <2>1
  <2>2. QED BY <1>4, <2>1
<1>6. ASSUME NEW i \in 1 .. Len(t), NEW j \in 1 .. Len(t), i <= j
      PROVE  \E k, l \in 1 .. Len(q) : k <= l /\ t[i] = q[k] /\ t[j] = q[l]
  <2>1. i + 1 <= j + 1
    BY <1>6
  <2>2. QED BY <1>4, <2>1, Zenon
<1>7. \A i \in 1 .. Len(t) : \E k \in 1 .. Len(q) : 1 <= k /\ t[i] = q[k]
  BY <1>4, Zenon
<1>8. QED BY <1>1, <1>2, <1>3, <1>5, <1>6, <1>7 DEF t

(* Adding what is newest, and taking the oldest, keeps a queue in order.   *)
LEMMA ScenesStay ==
  ASSUME NEW q \in Seq(Scene), SortedScenes(q)
  PROVE  /\ \A m \in Scene : (\A i \in 1 .. Len(q) : q[i] <= m) => SortedScenes(Push(q, m))
         /\ q # <<>> => SortedScenes(Tail(q))
<1>1. ASSUME NEW m \in Scene, \A i \in 1 .. Len(q) : q[i] <= m
      PROVE  SortedScenes(Push(q, m))
  <2> DEFINE p == Push(q, m)
  <2>0. \A i \in 1 .. Len(p) : p[i] = m \/ \E k \in 1 .. Len(q) : p[i] = q[k]
    BY PushedOrder
  <2>1. \A i, j \in 1 .. Len(p) : i <= j =>
          \/ p[j] = m
          \/ \E k, l \in 1 .. Len(q) : k <= l /\ p[i] = q[k] /\ p[j] = q[l]
    BY PushedOrder
  <2> HIDE DEF p
  <2>2. m <= m
    BY Numbers
  <2>3. ASSUME NEW i \in 1 .. Len(p), NEW j \in 1 .. Len(p), i <= j PROVE p[i] <= p[j]
    BY <1>1, <2>0, <2>1, <2>2, <2>3, Zenon DEF SortedScenes
  <2>4. QED BY <2>3 DEF p, SortedScenes
<1>2. q # <<>> => SortedScenes(Tail(q))
  <2> SUFFICES ASSUME q # <<>> PROVE SortedScenes(Tail(q))
    OBVIOUS
  <2>1. \A i, j \in 1 .. Len(Tail(q)) : i <= j =>
          \E k, l \in 1 .. Len(q) : k <= l /\ Tail(q)[i] = q[k] /\ Tail(q)[j] = q[l]
    BY TakenOrder
  <2>2. QED BY <2>1, Zenon DEF SortedScenes
<1>3. QED BY <1>1, <1>2

LEMMA PointsStay ==
  ASSUME NEW q \in Seq(Point), SortedPoints(q)
  PROVE  /\ \A m \in Point : (\A i \in 1 .. Len(q) : Older(q[i], m)) => SortedPoints(Push(q, m))
         /\ q # <<>> => SortedPoints(Tail(q))
<1>1. ASSUME NEW m \in Point, \A i \in 1 .. Len(q) : Older(q[i], m)
      PROVE  SortedPoints(Push(q, m))
  <2> DEFINE p == Push(q, m)
  <2>0. \A i \in 1 .. Len(p) : p[i] = m \/ \E k \in 1 .. Len(q) : p[i] = q[k]
    BY PushedOrder
  <2>1. \A i, j \in 1 .. Len(p) : i <= j =>
          \/ p[j] = m
          \/ \E k, l \in 1 .. Len(q) : k <= l /\ p[i] = q[k] /\ p[j] = q[l]
    BY PushedOrder
  <2> HIDE DEF p
  <2>2. Older(m, m)
    BY Numbers DEF Older, Points
  <2>3. ASSUME NEW i \in 1 .. Len(p), NEW j \in 1 .. Len(p), i <= j PROVE Older(p[i], p[j])
    BY <1>1, <2>0, <2>1, <2>2, <2>3, Zenon DEF SortedPoints
  <2>4. QED BY <2>3 DEF p, SortedPoints
<1>2. q # <<>> => SortedPoints(Tail(q))
  <2> SUFFICES ASSUME q # <<>> PROVE SortedPoints(Tail(q))
    OBVIOUS
  <2>1. \A i, j \in 1 .. Len(Tail(q)) : i <= j =>
          \E k, l \in 1 .. Len(q) : k <= l /\ Tail(q)[i] = q[k] /\ Tail(q)[j] = q[l]
    BY TakenOrder
  <2>2. QED BY <2>1, Zenon DEF SortedPoints
<1>3. QED BY <1>1, <1>2

LEMMA Arithmetic ==
  /\ \A a, b, c \in Nat : a <= b /\ b <= c => a <= c
  /\ \A a \in Nat : a <= a /\ a <= a + 1 /\ 0 <= a /\ a + 1 \in Nat
  /\ 0 \in Nat /\ 1 \in Nat /\ 0 <= 1 /\ 1 <= 1 /\ 0 + 1 = 1
OBVIOUS

LEMMA OlderOrder ==
  /\ \A p, q, r \in Points : Older(p, q) /\ Older(q, r) => Older(p, r)
  /\ \A p \in Points : Older(p, p)
BY Numbers, Arithmetic, Zenon DEF Older

(* The numbers of the pictures, under the type invariant.                  *)
LEMMA Pictures ==
  ASSUME TypeOK
  PROVE  /\ scene \in Nat /\ frame \in Nat /\ depth_image_ \in Nat
         /\ \A i \in 1 .. Len(object_center) : object_center[i] \in Scene /\ object_center[i] \in Nat
         /\ \A i \in 1 .. Len(depth_coordinates) :
              depth_coordinates[i] \in Point /\ depth_coordinates[i] \in Points
         /\ last \in Points /\ pose_ \in Points /\ object \in Points
         /\ last.seen \in Nat /\ last.measured \in Nat
<1>1. scene \in Nat /\ frame \in Nat /\ depth_image_ \in Nat
  BY Numbers DEF TypeOK, Scene
<1>2. \A i \in 1 .. Len(object_center) : object_center[i] \in Scene /\ object_center[i] \in Nat
  <2>1. object_center \in Seq(Scene)
    BY DEF TypeOK
  <2>2. \A i \in 1 .. Len(object_center) : object_center[i] \in Scene
    BY <2>1, ElementOfSeq
  <2>3. QED BY <2>2, Numbers
<1>3. \A i \in 1 .. Len(depth_coordinates) : depth_coordinates[i] \in Point
  <2>1. depth_coordinates \in Seq(Point)
    BY DEF TypeOK
  <2>2. QED BY <2>1, ElementOfSeq
<1>4. last \in Points /\ pose_ \in Points /\ object \in Points
  BY DEF TypeOK, Points
<1>5. QED BY <1>1, <1>2, <1>3, <1>4, Numbers DEF Points

LEMMA InitKeeps == Init => GraspInv
<1> SUFFICES ASSUME Init PROVE GraspInv
  OBVIOUS
<1>1. Len(<<>>) = 0 /\ <<>> \in Seq(Scene) /\ <<>> \in Seq(Point)
  OBVIOUS
<1>2. TypeOK
  <2>1. 1 \in Scene /\ 0 \in 0 .. MaxScene /\ 0 \in Nat
    BY Numbers
  <2>2. {object, pose_, last} \subseteq Point \cup {None}
    BY DEF Init, Origin
  <2>3. QED BY <1>1, <2>1, <2>2 DEF Init, TypeOK, NoAim
<1>3. Chain
  BY <1>1 DEF Init, Chain, SortedScenes, SortedPoints, Older, None
<1>4. QED BY <1>2, <1>3, Arithmetic DEF Init, GraspInv, Newest, Motions, MovesToTarget

-----------------------------------------------------------------------------
LEMMA CameraKeeps ==
  ASSUME GraspInv, SceneChanges \/ TakePicture \/ image_callback
  PROVE  GraspInv'
<1>1. CASE SceneChanges
  <2>1. TypeOK'
    BY GraspAssumption, <1>1 DEF GraspAssumption, GraspInv, TypeOK, SceneChanges, Scene, depth, mover
  <2>2. Chain'
    <3>1. scene' = scene + 1 /\ scene <= scene + 1 /\ scene + 1 \in Nat /\ scene \in Nat
      BY <1>1, Pictures, Arithmetic DEF GraspInv, SceneChanges
    <3>2. \A a \in Nat : a <= scene => a <= scene'
      BY <3>1, Arithmetic, Zenon
    <3>3. QED
      BY <1>1, <3>2, Pictures, Zenon
      DEF GraspInv, Chain, SceneChanges, depth, SortedScenes, SortedPoints, Older
  <2>3. (Newest /\ object \in {last, Origin} /\ Motions)'
    BY <1>1 DEF GraspInv, SceneChanges, depth, mover, Newest, Motions, MovesToTarget
  <2>4. QED BY <2>1, <2>2, <2>3 DEF GraspInv
<1>2. CASE TakePicture
  <2>1. TypeOK'
    BY <1>2, Numbers DEF GraspInv, TypeOK, TakePicture, Scene, depth, mover
  <2>2. Chain'
    <3>1. scene <= scene
      BY Pictures, Arithmetic DEF GraspInv
    <3>2. QED
      BY <1>2, <3>1, Zenon
      DEF GraspInv, Chain, TakePicture, depth, SortedScenes, SortedPoints, Older
  <2>3. (Newest /\ object \in {last, Origin} /\ Motions)'
    BY <1>2 DEF GraspInv, TakePicture, depth, mover, Newest, Motions, MovesToTarget
  <2>4. QED BY <2>1, <2>2, <2>3 DEF GraspInv
<1>3. CASE image_callback
  <2> DEFINE q == Push(object_center, frame)
  <2>0. frame \in Scene /\ object_center \in Seq(Scene)
    BY <1>3, Numbers DEF GraspInv, TypeOK, image_callback, Scene
  <2>1. q \in Seq(Scene)
    BY <2>0, PushedOrder
  <2>2. \A i \in 1 .. Len(q) : q[i] = frame \/ \E k \in 1 .. Len(object_center) : q[i] = object_center[k]
    BY <2>0, PushedOrder
  <2>3. SortedScenes(q)
    <3>1. \A i \in 1 .. Len(object_center) : object_center[i] <= frame
      BY <1>3 DEF GraspInv, Chain, image_callback
    <3>2. QED BY <2>0, <3>1, ScenesStay DEF GraspInv, Chain
  <2>4. \A i \in 1 .. Len(q) : q[i] <= scene /\ last.seen <= q[i]
    BY <1>3, <2>2, Zenon DEF GraspInv, Chain, image_callback
  <2> HIDE DEF q
  <2>5. object_center' = q \/ object_center' = object_center
    BY <1>3 DEF image_callback, q
  <2>6. TypeOK'
    BY <1>3, <2>1, <2>5, Numbers DEF GraspInv, TypeOK, image_callback, depth, mover
  <2>7. Chain'
    <3>1. /\ SortedScenes(object_center')
          /\ \A i \in 1 .. Len(object_center') :
               object_center'[i] <= scene /\ last.seen <= object_center'[i]
      BY <2>3, <2>4, <2>5, Zenon DEF GraspInv, Chain
    <3>2. frame' = 0 /\ 0 <= scene
      BY <1>3, Pictures, Arithmetic DEF GraspInv, image_callback
    <3>3. QED
      BY <1>3, <3>1, <3>2
      DEF GraspInv, Chain, image_callback, depth, SortedScenes, SortedPoints, Older
  <2>8. (Newest /\ object \in {last, Origin} /\ Motions)'
    BY <1>3 DEF GraspInv, image_callback, depth, mover, Newest, Motions, MovesToTarget
  <2>9. QED BY <2>6, <2>7, <2>8 DEF GraspInv
<1>4. QED BY <1>1, <1>2, <1>3

(* A newer point is added to a queue whose points are between two others.  *)
LEMMA PointPushed ==
  ASSUME NEW q \in Seq(Point), NEW m \in Point, NEW low \in Points, NEW high \in Points,
         SortedPoints(q), Older(low, high), Older(high, m),
         \A j \in 1 .. Len(q) : Older(q[j], high) /\ Older(low, q[j])
  PROVE  /\ Push(q, m) \in Seq(Point) /\ Push(q, m) # <<>>
         /\ Push(q, m)[Len(Push(q, m))] = m
         /\ SortedPoints(Push(q, m))
         /\ \A j \in 1 .. Len(Push(q, m)) : Older(Push(q, m)[j], m) /\ Older(low, Push(q, m)[j])
         /\ Older(low, m)
<1>1. \A j \in 1 .. Len(q) : q[j] \in Points
  BY ElementOfSeq DEF Points
<1>2. m \in Points
  BY DEF Points
<1>3. ASSUME NEW j \in 1 .. Len(q) PROVE Older(q[j], m)
  BY <1>1, <1>2, <1>3, OlderOrder, Zenon
<1>4. Older(low, m)
  BY <1>2, OlderOrder, Zenon
<1>5. Older(m, m)
  BY <1>2, OlderOrder, Zenon
<1>6. Push(q, m) \in Seq(Point) /\ Push(q, m) # <<>>
  BY PushedOrder
<1>7. Push(q, m)[Len(Push(q, m))] = m
  BY PushedOrder
<1>8. SortedPoints(Push(q, m))
  BY <1>3, PointsStay
<1> DEFINE p == Push(q, m)
<1>9. \A j \in 1 .. Len(p) : p[j] = m \/ \E k \in 1 .. Len(q) : p[j] = q[k]
  BY PushedOrder
<1> HIDE DEF p
<1>10. ASSUME NEW j \in 1 .. Len(p) PROVE Older(p[j], m) /\ Older(low, p[j])
  BY <1>3, <1>4, <1>5, <1>9, <1>10, Zenon
<1>11. QED BY <1>4, <1>6, <1>7, <1>8, <1>10 DEF p

(* A point that is published is newer than the last.                       *)
LEMMA Measured ==
  ASSUME GraspInv, NEW point, object_center # <<>>, depth_image_ # 0,
         point = [seen |-> Head(object_center), measured |-> depth_image_],
         object_center' = Tail(object_center),
         depth_coordinates' = Push(depth_coordinates, point),
         object' = point, last' = point,
         UNCHANGED <<camera, mover, depth_image_, pose_>>
  PROVE  GraspInv'
<1> DEFINE t == Tail(object_center)
<1>1. object_center \in Seq(Scene) /\ depth_coordinates \in Seq(Point)
  BY DEF GraspInv, TypeOK
<1>2. /\ t \in Seq(Scene) /\ Head(object_center) \in Scene
      /\ Head(object_center) = object_center[1] /\ 1 \in 1 .. Len(object_center)
  BY <1>1, TakenOrder
<1>3. \A j \in 1 .. Len(t) : \E k \in 1 .. Len(object_center) : 1 <= k /\ t[j] = object_center[k]
  BY <1>1, TakenOrder
<1>4. depth_image_ \in Scene
  BY Numbers DEF GraspInv, TypeOK, Scene
<1>5. point \in Point /\ point.seen = object_center[1] /\ point.measured = depth_image_
  BY <1>2, <1>4 DEF Point
<1>6. Older(last, point)
  BY <1>2, <1>5, Zenon DEF GraspInv, Chain, Older
<1>7. /\ TypeOK /\ Older(pose_, last) /\ SortedPoints(depth_coordinates)
      /\ \A j \in 1 .. Len(depth_coordinates) :
           Older(depth_coordinates[j], last) /\ Older(pose_, depth_coordinates[j])
  BY DEF GraspInv, Chain
<1>8. last \in Points /\ pose_ \in Points
  BY <1>7, Pictures
<1>9. /\ depth_coordinates' \in Seq(Point) /\ depth_coordinates' # <<>>
      /\ depth_coordinates'[Len(depth_coordinates')] = point
      /\ SortedPoints(depth_coordinates')
      /\ \A j \in 1 .. Len(depth_coordinates') :
           Older(depth_coordinates'[j], point) /\ Older(pose_, depth_coordinates'[j])
      /\ Older(pose_, point)
  BY <1>1, <1>5, <1>6, <1>7, <1>8, PointPushed
<1>10. SortedScenes(t)
  BY <1>1, ScenesStay DEF GraspInv, Chain
<1> HIDE DEF t
<1>11. object_center' = t
  BY DEF t
<1>12. ASSUME NEW j \in 1 .. Len(t)
       PROVE  t[j] <= scene /\ (frame # 0 => t[j] <= frame) /\ point.seen <= t[j]
  BY <1>2, <1>3, <1>5, <1>12, Zenon DEF GraspInv, Chain, SortedScenes
<1>13. /\ frame # 0 => point.seen <= frame
       /\ point.seen <= scene /\ point.measured <= depth_image_
  BY <1>2, <1>4, <1>5, Numbers, Arithmetic, Zenon DEF GraspInv, Chain
<1>14. TypeOK'
  BY <1>2, <1>5, <1>9, <1>11 DEF GraspInv, TypeOK, camera, mover, t
<1>15. Chain'
  <2>1. frame <= scene /\ depth_image_ <= scene
    BY DEF GraspInv, Chain
  <2>2. QED
    BY <2>1, <1>9, <1>10, <1>11, <1>12, <1>13, Zenon
    DEF Chain, camera, mover, SortedScenes, SortedPoints
<1>16. (Newest /\ object \in {last, Origin} /\ Motions)'
  BY <1>9 DEF GraspInv, camera, mover, Newest, Motions, MovesToTarget
<1>17. QED BY <1>14, <1>15, <1>16 DEF GraspInv

LEMMA DepthKeeps ==
  ASSUME GraspInv, depth_image_callback \/ center_point_callback
  PROVE  GraspInv'
<1>1. CASE depth_image_callback
  <2>1. TypeOK'
    BY <1>1, Numbers DEF GraspInv, TypeOK, depth_image_callback, Scene, camera, mover
  <2>2. Chain'
    <3>1. scene <= scene /\ last.measured <= scene
      BY Pictures, Arithmetic, Zenon DEF GraspInv, Chain
    <3>2. QED
      BY <1>1, <3>1, Zenon
      DEF GraspInv, Chain, depth_image_callback, camera, SortedScenes, SortedPoints, Older
  <2>3. (Newest /\ object \in {last, Origin} /\ Motions)'
    BY <1>1 DEF GraspInv, depth_image_callback, camera, mover, Newest, Motions, MovesToTarget
  <2>4. QED BY <2>1, <2>2, <2>3 DEF GraspInv
<1>2. CASE center_point_callback
  <2>1. CASE /\ depth_image_ # 0
             /\ object' = [seen |-> Head(object_center), measured |-> depth_image_]
             /\ last' = object'
             /\ depth_coordinates' = Push(depth_coordinates, object')
    BY <1>2, <2>1, Measured DEF center_point_callback
  <2>2. CASE object' \in {object, Origin} /\ UNCHANGED <<last, depth_coordinates>>
    <3> DEFINE t == Tail(object_center)
    <3>1. object_center \in Seq(Scene) /\ object_center # <<>>
      BY <1>2 DEF GraspInv, TypeOK, center_point_callback
    <3>2. t \in Seq(Scene) /\ SortedScenes(t)
      BY <3>1, TakenOrder, ScenesStay DEF GraspInv, Chain
    <3>3. \A j \in 1 .. Len(t) : \E k \in 1 .. Len(object_center) : 1 <= k /\ t[j] = object_center[k]
      BY <3>1, TakenOrder
    <3> HIDE DEF t
    <3>4. object_center' = t
      BY <1>2 DEF center_point_callback, t
    <3>5. TypeOK'
      BY <1>2, <2>2, <3>2, <3>4
      DEF GraspInv, TypeOK, center_point_callback, camera, mover, Origin
    <3>6. Chain'
      BY <1>2, <2>2, <3>2, <3>3, <3>4, Zenon
      DEF GraspInv, Chain, center_point_callback, camera, mover, SortedScenes, SortedPoints
    <3>7. (Newest /\ object \in {last, Origin} /\ Motions)'
      BY <1>2, <2>2
      DEF GraspInv, center_point_callback, camera, mover, Newest, Motions, MovesToTarget
    <3>8. QED BY <3>5, <3>6, <3>7 DEF GraspInv
  <2>3. QED BY <1>2, <2>1, <2>2 DEF center_point_callback
<1>3. QED BY <1>1, <1>2

(* What the start of a motion does to the arms.                            *)
Starts(transformed, planned) ==
  /\ arms' = "moving"
  /\ aim' = [a \in Arm |-> IF a \in planned THEN IF transformed THEN pose_ ELSE Origin
                                           ELSE Posture]
  /\ lost' = ~transformed
  /\ planned # {} \/ first_execution_
  /\ blind' = IF planned = {} THEN blind + 1 ELSE blind

LEMMA MoveitCases ==
  ASSUME moveitCallback
  PROVE  \/ UNCHANGED <<arms, aim, lost, blind>>
         \/ \E transformed \in BOOLEAN, planned \in SUBSET Arm : Starts(transformed, planned)
BY DEF moveitCallback, Starts

LEMMA ArmsKeep ==
  ASSUME GraspInv, depthCoordinatesCallback \/ moveitCallback \/ Moved
  PROVE  GraspInv' /\ Older(pose_, pose_')
<1>1. CASE depthCoordinatesCallback
  <2> DEFINE q == depth_coordinates
             t == Tail(depth_coordinates)
  <2>1. q \in Seq(Point) /\ q # <<>>
    BY <1>1 DEF GraspInv, TypeOK, depthCoordinatesCallback
  <2>2. /\ t \in Seq(Point) /\ Head(q) \in Point /\ Head(q) = q[1] /\ 1 \in 1 .. Len(q)
        /\ t = <<>> => Head(q) = q[Len(q)]
        /\ t # <<>> => t[Len(t)] = q[Len(q)]
    BY <2>1, TakenOrder
  <2>3. \A j \in 1 .. Len(t) : \E k \in 1 .. Len(q) : 1 <= k /\ t[j] = q[k]
    BY <2>1, TakenOrder
  <2>4. SortedPoints(t)
    BY <2>1, PointsStay DEF GraspInv, Chain
  <2> HIDE DEF t
  <2>5. depth_coordinates' = t /\ pose_' = q[1]
    BY <1>1, <2>2 DEF depthCoordinatesCallback, t
  <2>6. Older(pose_, pose_')
    BY <2>2, <2>5 DEF GraspInv, Chain
  <2>7. \A j \in 1 .. Len(t) : Older(t[j], last) /\ Older(q[1], t[j])
    BY <2>2, <2>3, Zenon DEF GraspInv, Chain, SortedPoints
  <2>8. TypeOK'
    BY <1>1, <2>2, <2>5 DEF GraspInv, TypeOK, depthCoordinatesCallback, camera, depth, mover
  <2>9. Chain'
    BY <1>1, <2>2, <2>4, <2>5, <2>7, Zenon
    DEF GraspInv, Chain, depthCoordinatesCallback, camera, depth, SortedScenes, SortedPoints
  <2>10. Newest'
    BY <1>1, <2>1, <2>2, <2>5 DEF GraspInv, Newest, depthCoordinatesCallback, depth
  <2>11. (object \in {last, Origin} /\ Motions)'
    BY <1>1 DEF GraspInv, depthCoordinatesCallback, depth, mover, Motions, MovesToTarget
  <2>12. QED BY <2>6, <2>8, <2>9, <2>10, <2>11 DEF GraspInv
<1>2. CASE moveitCallback
  <2>1. TypeOK'
    <3>1. /\ UNCHANGED <<scene, frame, depth_image_, object, last, pose_>>
          /\ UNCHANGED <<object_center, depth_coordinates>>
          /\ first_execution_' = FALSE
      BY <1>2 DEF moveitCallback, camera, depth
    <3>2. CASE UNCHANGED <<arms, aim, lost, blind>>
      BY <3>1, <3>2 DEF GraspInv, TypeOK
    <3>3. ASSUME NEW transformed \in BOOLEAN, NEW planned \in SUBSET Arm, Starts(transformed, planned)
          PROVE  TypeOK'
      <4>1. pose_ \in Point
        BY <1>2 DEF GraspInv, TypeOK, moveitCallback
      <4>2. aim' \in [Arm -> Point \cup {Origin, Posture}]
        BY <3>3, <4>1 DEF Starts
      <4>3. lost' \in BOOLEAN /\ arms' = "moving" /\ blind' \in {blind, blind + 1}
        BY <3>3 DEF Starts
      <4>4. blind' \in Nat
        BY <4>3, Arithmetic DEF GraspInv, TypeOK
      <4>5. QED BY <3>1, <4>2, <4>3, <4>4 DEF GraspInv, TypeOK
    <3>4. QED BY <1>2, <3>2, <3>3, MoveitCases
  <2>2. (Chain /\ Newest /\ object \in {last, Origin})' /\ pose_' = pose_
    BY <1>2
    DEF GraspInv, Chain, Newest, moveitCallback, camera, depth, SortedScenes, SortedPoints, Older
  <2>3. Motions'
    <3>0. arms = "idle" /\ pose_' = pose_ /\ first_execution_' = FALSE
      BY <1>2 DEF moveitCallback
    <3>1. CASE UNCHANGED <<arms, aim, lost, blind>>
      BY <3>0, <3>1 DEF GraspInv, Motions, MovesToTarget
    <3>2. ASSUME NEW transformed \in BOOLEAN, NEW planned \in SUBSET Arm, Starts(transformed, planned)
          PROVE  Motions'
      <4>1. /\ lost' = ~transformed
            /\ \A a \in Arm : aim'[a] = IF a \in planned THEN IF transformed THEN pose_ ELSE Origin
                                                         ELSE Posture
        BY <3>2 DEF Starts
      <4>2. \A a \in Arm : aim'[a] \in {IF lost' THEN Origin ELSE pose_', Posture}
        BY <3>0, <4>1
      <4>3. ASSUME \A a \in Arm : aim'[a] = Posture PROVE planned = {}
        <5>1. pose_ # Posture /\ Origin # Posture
          <6>1. pose_ \in Points /\ Origin \in Points
            BY DEF GraspInv, TypeOK, Points, Origin
          <6>2. Points \subseteq [seen : Nat, measured : Nat]
            BY Numbers DEF Points, Point, None
          <6>3. QED BY <6>1, <6>2, GraspAssumption DEF GraspAssumption
        <5>2. QED BY <4>1, <4>3, <5>1
      <4>4. planned = {} => blind = 0 /\ blind' = blind + 1
        BY <3>2 DEF Starts, GraspInv, Motions
      <4>5. planned # {} => blind' = blind
        BY <3>2 DEF Starts
      <4>6. blind' <= 1
        BY <4>4, <4>5, Arithmetic DEF GraspInv, Motions
      <4>7. QED BY <3>0, <4>2, <4>3, <4>4, <4>6, Arithmetic DEF Motions, MovesToTarget
    <3>3. QED BY <1>2, <3>1, <3>2, MoveitCases
  <2>4. Older(pose_, pose_')
    BY <2>2, OlderOrder, Pictures DEF GraspInv
  <2>5. QED BY <2>1, <2>2, <2>3, <2>4 DEF GraspInv
<1>3. CASE Moved
  <2>1. TypeOK'
    BY <1>3 DEF GraspInv, TypeOK, Moved, camera, depth, NoAim
  <2>2. (Chain /\ Newest /\ object \in {last, Origin})' /\ pose_' = pose_
    BY <1>3
    DEF GraspInv, Chain, Newest, Moved, camera, depth, SortedScenes, SortedPoints, Older
  <2>3. Motions'
    BY <1>3 DEF GraspInv, Moved, Motions, MovesToTarget
  <2>4. Older(pose_, pose_')
    BY <2>2, OlderOrder, Pictures DEF GraspInv
  <2>5. QED BY <2>1, <2>2, <2>3, <2>4 DEF GraspInv
<1>4. QED BY <1>1, <1>2, <1>3

LEMMA Step == GraspInv /\ [Next]_vars => GraspInv' /\ Older(pose_, pose_')
<1> SUFFICES ASSUME GraspInv, [Next]_vars PROVE GraspInv' /\ Older(pose_, pose_')
  OBVIOUS
<1>1. Older(pose_, pose_)
  BY OlderOrder, Pictures DEF GraspInv
<1>2. CASE SceneChanges \/ TakePicture \/ image_callback
  <2>1. pose_' = pose_
    BY <1>2 DEF SceneChanges, TakePicture, image_callback
  <2>2. QED BY <1>1, <1>2, <2>1, CameraKeeps
<1>3. CASE depth_image_callback \/ center_point_callback
  <2>1. pose_' = pose_
    BY <1>3 DEF depth_image_callback, center_point_callback
  <2>2. QED BY <1>1, <1>3, <2>1, DepthKeeps
<1>4. CASE depthCoordinatesCallback \/ moveitCallback \/ Moved
  BY <1>4, ArmsKeep
<1>5. CASE UNCHANGED vars
  BY <1>1, <1>5
  DEF vars, camera, depth, mover, GraspInv, TypeOK, Chain, Newest, Motions,
      MovesToTarget, SortedScenes, SortedPoints, Older
<1>6. QED BY <1>2, <1>3, <1>4, <1>5 DEF Next

(* The pipeline keeps its order, in every behaviour.                       *)
THEOREM PipelineInvariant == Spec => []GraspInv
<1>1. GraspInv /\ [Next]_vars => GraspInv'
  BY Step
<1>2. QED BY InitKeeps, <1>1, PTL DEF Spec

(* Every variable keeps its type, in particular only points of two         *)
(* pictures that were taken are published (center_point_callback waits for *)
(* the first depth image).                                                 *)
THEOREM TypesCorrect == Spec => []TypeOK
<1>1. GraspInv => TypeOK
  BY DEF GraspInv
<1>2. QED BY <1>1, PipelineInvariant, PTL

(* When nothing is under way the target is the last point, and the frame   *)
(* "object" shows it or the origin.                                        *)
THEOREM BothWaysAgree == Spec => []WaysAgree
<1>1. GraspInv => WaysAgree
  BY DEF GraspInv, WaysAgree, Newest
<1>2. QED BY <1>1, PipelineInvariant, PTL

(* In a motion each arm is on its way to the last point that was taken, to *)
(* the origin if the transform failed, or, without a plan, to the posture, *)
(* whatever arrives meanwhile; both go to the posture in the one blind     *)
(* motion only.                                                            *)
THEOREM MotionsHaveTarget == Spec => []MovesToTarget
<1>1. GraspInv => MovesToTarget
  BY DEF GraspInv, Motions
<1>2. QED BY <1>1, PipelineInvariant, PTL

(* However often planning fails, the arms go to the fixed posture at most  *)
(* once.                                                                   *)
THEOREM OneBlindMotion == Spec => []BlindOnce
<1>1. GraspInv => BlindOnce
  BY DEF GraspInv, Motions, BlindOnce
<1>2. QED BY <1>1, PipelineInvariant, PTL

(* Neither the sighting nor the depth image of the target gets older,      *)
(* whatever the queues lose and however long the motions take.             *)
THEOREM TargetNeverBack == Spec => NeverBack
<1> DEFINE Forward == pose_'.seen >= pose_.seen /\ pose_'.measured >= pose_.measured
<1>1. ASSUME GraspInv, [Next]_vars PROVE Forward
  <2>1. \A a, b \in Nat : a <= b => b >= a
    OBVIOUS
  <2>2. pose_ \in Points /\ pose_' \in Points
    <3>1. TypeOK /\ TypeOK'
      BY <1>1, Step DEF GraspInv
    <3>2. QED BY <3>1 DEF TypeOK, Points
  <2>3. /\ pose_.seen \in Nat /\ pose_.measured \in Nat
        /\ pose_'.seen \in Nat /\ pose_'.measured \in Nat
    BY <2>2, Numbers, Zenon
  <2>4. Older(pose_, pose_')
    BY <1>1, Step
  <2>5. QED BY <2>1, <2>3, <2>4, Zenon DEF Older
<1>2. GraspInv /\ [Next]_vars => [Forward]_vars
  BY <1>1
<1>3. QED BY <1>2, PipelineInvariant, PTL DEF Spec, NeverBack

-----------------------------------------------------------------------------
(* Why the arms catch up with the last point: at most the first n of the   *)
(* messages that wait are of other points.                                 *)
OthersAhead(n) ==
  \A i \in 1 .. Len(depth_coordinates) : i > n => depth_coordinates[i] = last

(* As long as no other point is published, nothing that happens, lost      *)
(* messages included, puts another point ahead, and every message that is  *)
(* taken brings the last one nearer.                                       *)
Approaches ==
  /\ OthersAhead(Depth - 1)
  /\ \A n \in Nat : last' = last /\ OthersAhead(n) =>
       /\ OthersAhead(n)'
       /\ depthCoordinatesCallback =>
            IF n = 0 THEN pose_' = last ELSE OthersAhead(n - 1)'

QueueBounded == Len(depth_coordinates) <= Depth

LEMMA PushedBounded ==
  ASSUME NEW S, NEW q \in Seq(S), NEW m \in S, Len(q) <= Depth
  PROVE  Len(Push(q, m)) <= Depth
<1>1. Len(q) \in Nat
  BY LenProperties
<1>2. CASE Len(q) < Depth
  <2>1. Len(Append(q, m)) = Len(q) + 1
    BY AppendProperties
  <2>2. QED BY <1>1, <1>2, <2>1, Numbers DEF Push
<1>3. CASE ~(Len(q) < Depth)
  <2>1. Len(q) > 0
    BY <1>1, <1>3, Numbers
  <2>2. q # <<>>
    BY <2>1, EmptySeq
  <2>3. Tail(q) \in Seq(S) /\ Len(Tail(q)) = Len(q) - 1
    BY <2>2, HeadTailProperties
  <2>4. Len(Append(Tail(q), m)) = Len(Tail(q)) + 1
    BY <2>3, AppendProperties
  <2>5. QED BY <1>1, <1>3, <2>3, <2>4, Numbers DEF Push
<1>4. QED BY <1>2, <1>3

LEMMA TakingApproaches ==
  ASSUME TypeOK, QueueBounded, depthCoordinatesCallback, NEW n \in Nat
  PROVE  /\ QueueBounded'
         /\ last' = last /\ OthersAhead(n) =>
              /\ OthersAhead(n)'
              /\ IF n = 0 THEN pose_' = last ELSE OthersAhead(n - 1)'
<1> DEFINE q == depth_coordinates
<1>1. /\ q \in Seq(Point) /\ q # <<>> /\ q' = Tail(q) /\ pose_' = Head(q)
  BY DEF depthCoordinatesCallback, TypeOK
<1>2. /\ Head(q) = q[1] /\ Len(q) \in Nat /\ Len(q) > 0 /\ Len(q') = Len(q) - 1
      /\ \A i \in 1 .. Len(q) - 1 : q'[i] = q[i + 1]
  BY <1>1, Taken
<1>3. QueueBounded'
  BY <1>2, Numbers DEF QueueBounded
<1>4. ASSUME last' = last, OthersAhead(n)
      PROVE  /\ OthersAhead(n)'
             /\ IF n = 0 THEN pose_' = last ELSE OthersAhead(n - 1)'
  <2>1. ASSUME NEW i \in 1 .. Len(q'), i + 1 > n PROVE q'[i] = last'
    <3>1. i + 1 \in 1 .. Len(q) /\ q'[i] = q[i + 1]
      BY <1>2
    <3>2. QED BY <1>4, <2>1, <3>1 DEF OthersAhead
  <2>2. OthersAhead(n)'
    BY <1>2, <2>1 DEF OthersAhead
  <2>3. ASSUME n = 0 PROVE pose_' = last
    <3>1. 1 \in 1 .. Len(q) /\ 1 > n
      BY <1>2, <2>3
    <3>2. QED BY <1>1, <1>2, <1>4, <3>1 DEF OthersAhead
  <2>4. ASSUME n # 0 PROVE OthersAhead(n - 1)'
    <3>1. \A i \in Nat : i > n - 1 => i + 1 > n
      OBVIOUS
    <3>2. QED BY <1>2, <2>1, <3>1 DEF OthersAhead
  <2>5. QED BY <2>2, <2>3, <2>4
<1>5. QED BY <1>3, <1>4

LEMMA PublishingApproaches ==
  ASSUME TypeOK, TypeOK', QueueBounded, NEW n \in Nat,
         depth_coordinates' = Push(depth_coordinates, last')
  PROVE  /\ QueueBounded'
         /\ last' = last /\ OthersAhead(n) => OthersAhead(n)'
<1> DEFINE q == depth_coordinates
<1>1. q \in Seq(Points) /\ last' \in Points /\ Len(q) \in Nat
  <2>1. q \in Seq(Point) /\ Point \subseteq Points
    BY DEF TypeOK, Points
  <2>2. QED BY <2>1, LenProperties DEF TypeOK, Points
<1>2. QueueBounded'
  BY <1>1, PushedBounded DEF QueueBounded
<1>3. PICK d \in {0, 1} :
        /\ d <= Len(q) /\ Len(q') = Len(q) + 1 - d
        /\ \A i \in 1 .. Len(q) - d : q'[i] = q[i + d]
        /\ q'[Len(q) + 1 - d] = last'
  BY <1>1, Pushed
<1>4. ASSUME last' = last, OthersAhead(n), NEW i \in 1 .. Len(q'), i > n
      PROVE  q'[i] = last'
  <2>1. CASE i = Len(q')
    BY <1>3, <2>1
  <2>2. CASE i # Len(q')
    <3>1. i + d \in 1 .. Len(q) /\ q'[i] = q[i + d] /\ i + d > n
      BY <1>1, <1>3, <1>4, <2>2
    <3>2. QED BY <1>4, <3>1 DEF OthersAhead
  <2>3. QED BY <2>1, <2>2
<1>5. QED BY <1>2, <1>4 DEF OthersAhead

LEMMA ApproachStep ==
  ASSUME GraspInv, GraspInv', QueueBounded, [Next]_vars
  PROVE  QueueBounded' /\ Approaches
<1>1. TypeOK /\ TypeOK' /\ Len(depth_coordinates) \in Nat
  BY LenProperties DEF GraspInv, TypeOK
<1>2. OthersAhead(Depth - 1)
  <2>1. \A i \in 1 .. Len(depth_coordinates) : i > Depth - 1 => i = Len(depth_coordinates)
    BY <1>1, Numbers DEF QueueBounded
  <2>2. depth_coordinates # <<>> => depth_coordinates[Len(depth_coordinates)] = last
    BY DEF GraspInv, Newest
  <2>3. depth_coordinates = <<>> => Len(depth_coordinates) = 0
    BY EmptySeq
  <2>4. QED BY <2>1, <2>2, <2>3 DEF OthersAhead
<1>3. ASSUME NEW n \in Nat, depthCoordinatesCallback
      PROVE  last' = last /\ OthersAhead(n) =>
               IF n = 0 THEN pose_' = last ELSE OthersAhead(n - 1)'
  BY <1>1, <1>3, TakingApproaches
<1>4. ASSUME NEW n \in Nat
      PROVE  QueueBounded' /\ (last' = last /\ OthersAhead(n) => OthersAhead(n)')
  <2>1. CASE depthCoordinatesCallback
    BY <1>1, <2>1, TakingApproaches
  <2>2. CASE depth_coordinates' = Push(depth_coordinates, last')
    BY <1>1, <2>2, PublishingApproaches
  <2>3. CASE depth_coordinates' = depth_coordinates
    BY <2>3 DEF QueueBounded, OthersAhead
  <2>4. CASE center_point_callback
    <3>1. \/ depth_coordinates' = Push(depth_coordinates, last')
          \/ depth_coordinates' = depth_coordinates
      BY <2>4 DEF center_point_callback
    <3>2. QED BY <2>2, <2>3, <3>1
  <2>5. CASE \/ SceneChanges \/ TakePicture \/ image_callback
             \/ depth_image_callback \/ moveitCallback \/ Moved \/ UNCHANGED vars
    <3>1. depth_coordinates' = depth_coordinates
      BY <2>5 DEF SceneChanges, TakePicture, image_callback, depth_image_callback,
                  moveitCallback, Moved, vars
    <3>2. QED BY <2>3, <3>1
  <2>6. QED BY <2>1, <2>4, <2>5 DEF Next
<1>5. QueueBounded'
  BY <1>4, Numbers
<1>6. QED BY <1>2, <1>3, <1>4, <1>5 DEF Approaches

(* The last point is at most Depth messages from being the target, and     *)
(* every message that is taken brings it nearer, whatever the queue loses  *)
(* and the motions do meanwhile (all_test.cpp:26).  CatchesUp adds that    *)
(* messages are taken.                                                     *)
THEOREM LastPointNears == Spec => [][Approaches]_vars
<1>1. Init => QueueBounded
  BY Numbers, EmptySeq DEF Init, QueueBounded
<1>2. GraspInv /\ GraspInv' /\ QueueBounded /\ [Next]_vars => QueueBounded' /\ [Approaches]_vars
  BY ApproachStep
<1>3. QED BY <1>1, <1>2, PipelineInvariant, PTL DEF Spec
=============================================================================
