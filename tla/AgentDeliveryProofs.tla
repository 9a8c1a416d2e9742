------------------------ MODULE AgentDeliveryProofs ------------------------
(***************************************************************************)
(* What becomes of the messages handed to the Agent, for every value of    *)
(* AgentRun's constants: each is in exactly one place, and the Agent       *)
(* implements PromptDelivery.                                              *)
(***************************************************************************)
EXTENDS AgentRunDelivery, AgentRunProofs

(* Queues are in the order of arrival, so a drain takes the oldest.        *)
InOrder(queue) == \A p, q \in DOMAIN queue : p < q => queue[p].id < queue[q].id

UserIds(s)   == {s[p].id : p \in {q \in DOMAIN s : s[q].role = "user"}}
UsersOnce(s) ==
  \A p, q \in DOMAIN s :
    s[p].role = "user" /\ s[q].role = "user" /\ s[p].id = s[q].id => p = q

(* The places a message can be in are apart, and together they are all.    *)
Places(steering, followUps, drained, transcript, removed, failed, n) ==
  /\ 1 .. n - 1 = steering \union followUps \union drained \union transcript
                    \union removed \union failed
  /\ steering \intersect (followUps \union drained \union transcript \union removed \union failed) = {}
  /\ followUps \intersect (drained \union transcript \union removed \union failed) = {}
  /\ drained \intersect (transcript \union removed \union failed) = {}
  /\ transcript \intersect (removed \union failed) = {}
  /\ removed \intersect failed = {}

PlacesInv ==
  Places(Ids(steeringQueue), Ids(followUpQueue), Ids(hand), UserIds(messages), cleared, lost, nextId)

DeliveryInv ==
  /\ nextId > 0
  /\ PlacesInv
  /\ UsersOnce(messages)
  /\ InOrder(steeringQueue) /\ InOrder(followUpQueue) /\ InOrder(hand)

-----------------------------------------------------------------------------
(* Sequences of messages. *)
LEMMA IdOf ==
  ASSUME NEW s \in Seq(UserMessage), NEW p \in DOMAIN s
  PROVE  s[p].id \in Ids(s) /\ s[p] \in UserMessage /\ s[p].id \in Nat
<1>1. s[p] \in UserMessage
  BY LenProperties, ElementOfSeq
<1> QED BY <1>1 DEF Ids, UserMessage

LEMMA NoIds == Ids(<<>>) = {} /\ InOrder(<<>>) /\ UserIds(<<>>) = {} /\ UsersOnce(<<>>)
<1>1. DOMAIN <<>> = {}
  BY EmptySeq, LenProperties
<1> QED BY <1>1 DEF Ids, InOrder, UserIds, UsersOnce

LEMMA OneId ==
  ASSUME NEW m \in UserMessage
  PROVE  Ids(<<m>>) = {m.id} /\ InOrder(<<m>>)
<1>1. DOMAIN <<m>> = {1} /\ <<m>>[1] = m
  OBVIOUS
<1> QED BY <1>1 DEF Ids, InOrder

(* Draining splits a queue into its older and its newer messages.          *)
LEMMA DrainIds ==
  ASSUME NEW queue \in Seq(UserMessage), InOrder(queue), NEW n \in 0 .. Len(queue)
  PROVE  /\ Ids(queue) = Ids(Drained(queue, n)) \union Ids(Remaining(queue, n))
         /\ \A a \in Ids(Remaining(queue, n)), b \in Ids(Drained(queue, n)) : b < a
         /\ InOrder(Drained(queue, n)) /\ InOrder(Remaining(queue, n))
<1> DEFINE d == Drained(queue, n)
           r == Remaining(queue, n)
<1>1. Len(queue) \in Nat /\ DOMAIN queue = 1 .. Len(queue) /\ n \in Nat /\ n <= Len(queue)
  BY LenProperties
<1>2. \A i \in 1 .. Len(queue) : queue[i] \in UserMessage /\ queue[i].id \in Nat
  BY <1>1, IdOf
<1>3. d \in Seq(UserMessage) /\ DOMAIN d = 1 .. n /\ \A i \in 1 .. n : d[i] = queue[i]
  <2>1. /\ d \in Seq(UserMessage) /\ Len(d) = IF 1 <= n THEN n - 1 + 1 ELSE 0
        /\ \A i \in 1 .. n - 1 + 1 : d[i] = queue[1 + i - 1]
    BY <1>1, <1>2, SubSeqProperties DEF Drained
  <2>2. Len(d) = n /\ \A i \in 1 .. n : d[i] = queue[i]
    BY <1>1, <2>1
  <2> QED BY <2>1, <2>2, LenProperties
<1>4. /\ r \in Seq(UserMessage) /\ DOMAIN r = 1 .. Len(queue) - n
      /\ \A i \in 1 .. Len(queue) - n : r[i] = queue[n + i]
  <2>1. /\ r \in Seq(UserMessage)
        /\ Len(r) = IF n + 1 <= Len(queue) THEN Len(queue) - (n + 1) + 1 ELSE 0
        /\ \A i \in 1 .. Len(queue) - (n + 1) + 1 : r[i] = queue[n + 1 + i - 1]
    <3>1. n + 1 \in Int /\ Len(queue) \in Int /\ \A i \in n + 1 .. Len(queue) : queue[i] \in UserMessage
      BY <1>1, <1>2
    <3> QED BY <3>1, SubSeqProperties DEF Remaining
  <2>2. Len(r) = Len(queue) - n
    <3>1. Len(r) = IF n + 1 <= Len(queue) THEN Len(queue) - (n + 1) + 1 ELSE 0
      BY <2>1
    <3>2. \A k, l \in Nat : k <= l => (IF k + 1 <= l THEN l - (k + 1) + 1 ELSE 0) = l - k
      OBVIOUS
    <3> HIDE DEF r
    <3> QED BY <1>1, <3>1, <3>2
  <2>3. \A i \in 1 .. Len(queue) - n : r[i] = queue[n + i]
    <3> SUFFICES ASSUME NEW i \in 1 .. Len(queue) - n PROVE r[i] = queue[n + i]
      OBVIOUS
    <3>1. i \in 1 .. Len(queue) - (n + 1) + 1 /\ n + 1 + i - 1 = n + i
      BY <1>1
    <3> QED BY <2>1, <3>1
  <2> QED BY <2>1, <2>2, <2>3, LenProperties
<1> HIDE DEF d, r
<1>5. Ids(queue) = Ids(d) \union Ids(r)
  <2>1. \A p \in DOMAIN queue : p \in 1 .. n \/ p - n \in 1 .. Len(queue) - n
    BY <1>1
  <2>2. \A p \in DOMAIN queue : queue[p].id \in Ids(d) \union Ids(r)
    <3> SUFFICES ASSUME NEW p \in DOMAIN queue PROVE queue[p].id \in Ids(d) \union Ids(r)
      OBVIOUS
    <3>1. CASE p \in 1 .. n
      BY <1>3, <3>1 DEF Ids
    <3>2. CASE p - n \in 1 .. Len(queue) - n
      <4>1. r[p - n] = queue[p]
        BY <1>1, <1>4, <3>2
      <4> QED BY <1>4, <3>2, <4>1 DEF Ids
    <3> QED BY <2>1, <3>1, <3>2
  <2>3. \A p \in DOMAIN d : d[p].id \in Ids(queue)
    BY <1>1, <1>3 DEF Ids
  <2>4. \A p \in DOMAIN r : r[p].id \in Ids(queue)
    <3> SUFFICES ASSUME NEW p \in DOMAIN r PROVE r[p].id \in Ids(queue)
      OBVIOUS
    <3>1. n + p \in DOMAIN queue /\ r[p] = queue[n + p]
      BY <1>1, <1>4
    <3> QED BY <3>1 DEF Ids
  <2> QED BY <2>2, <2>3, <2>4 DEF Ids
<1>6. \A a \in Ids(r), b \in Ids(d) : b < a
  <2> SUFFICES ASSUME NEW p \in DOMAIN r, NEW q \in DOMAIN d PROVE d[q].id < r[p].id
    BY DEF Ids
  <2>1. n + p \in DOMAIN queue /\ q \in DOMAIN queue /\ q < n + p
    BY <1>1, <1>3, <1>4
  <2>2. d[q] = queue[q] /\ r[p] = queue[n + p]
    BY <1>3, <1>4
  <2> QED BY <2>1, <2>2 DEF InOrder
<1>7. InOrder(d)
  BY <1>1, <1>3 DEF InOrder
<1>8. InOrder(r)
  <2> SUFFICES ASSUME NEW p \in DOMAIN r, NEW q \in DOMAIN r, p < q PROVE r[p].id < r[q].id
    BY DEF InOrder
  <2>1. n + p \in DOMAIN queue /\ n + q \in DOMAIN queue /\ n + p < n + q
    BY <1>1, <1>4
  <2>2. r[p] = queue[n + p] /\ r[q] = queue[n + q]
    BY <1>4
  <2> QED BY <2>1, <2>2 DEF InOrder
<1> QED BY <1>5, <1>6, <1>7, <1>8 DEF d, r

LEMMA AppendIds ==
  ASSUME NEW queue \in Seq(UserMessage), InOrder(queue), NEW m \in UserMessage,
         \A k \in Ids(queue) : k < m.id
  PROVE  Ids(Append(queue, m)) = Ids(queue) \union {m.id} /\ InOrder(Append(queue, m))
<1> DEFINE t == Append(queue, m)
<1>1. Len(queue) \in Nat /\ DOMAIN queue = 1 .. Len(queue)
  BY LenProperties
<1>2. /\ DOMAIN t = 1 .. Len(queue) + 1
      /\ \A i \in 1 .. Len(queue) : t[i] = queue[i]
      /\ t[Len(queue) + 1] = m
  BY AppendProperties, LenProperties
<1> HIDE DEF t
<1>3. Ids(t) = Ids(queue) \union {m.id}
  <2>1. \A p \in DOMAIN t : t[p].id \in Ids(queue) \union {m.id}
    BY <1>1, <1>2 DEF Ids
  <2>2. \A p \in DOMAIN queue : queue[p].id \in Ids(t)
    BY <1>1, <1>2 DEF Ids
  <2>3. m.id \in Ids(t)
    BY <1>1, <1>2 DEF Ids
  <2> QED BY <2>1, <2>2, <2>3 DEF Ids
<1>4. InOrder(t)
  <2> SUFFICES ASSUME NEW p \in DOMAIN t, NEW q \in DOMAIN t, p < q PROVE t[p].id < t[q].id
    BY DEF InOrder
  <2>1. p \in 1 .. Len(queue)
    BY <1>1, <1>2
  <2>2. CASE q \in 1 .. Len(queue)
    BY <1>1, <1>2, <2>1, <2>2 DEF InOrder
  <2>3. CASE q = Len(queue) + 1
    BY <1>1, <1>2, <2>1, <2>3 DEF Ids
  <2> QED BY <1>1, <1>2, <2>2, <2>3
<1> QED BY <1>3, <1>4 DEF t

LEMMA HeadIds ==
  ASSUME NEW queue \in Seq(UserMessage), InOrder(queue), queue # <<>>
  PROVE  /\ Ids(queue) = {Head(queue).id} \union Ids(Tail(queue))
         /\ \A k \in Ids(Tail(queue)) : Head(queue).id < k
         /\ InOrder(Tail(queue))
<1>1. Len(queue) \in Nat \ {0} /\ DOMAIN queue = 1 .. Len(queue)
  BY EmptySeq, LenProperties
<1>2. 1 \in 0 .. Len(queue)
  BY <1>1
<1>3. Remaining(queue, 1) = Tail(queue)
  BY TailIsSubSeq DEF Remaining
<1>4. Ids(Drained(queue, 1)) = {Head(queue).id}
  <2>1. \A i \in 1 .. 1 : queue[i] \in UserMessage
    BY <1>1, ElementOfSeq
  <2>2. /\ Drained(queue, 1) \in Seq(UserMessage) /\ Len(Drained(queue, 1)) = 1
        /\ Drained(queue, 1)[1] = queue[1]
    BY <2>1, SubSeqProperties DEF Drained
  <2>3. DOMAIN Drained(queue, 1) = {1}
    BY <2>2, LenProperties
  <2>4. Head(queue) = queue[1]
    OBVIOUS
  <2> QED BY <2>2, <2>3, <2>4 DEF Ids
<1>5. /\ Ids(queue) = Ids(Drained(queue, 1)) \union Ids(Remaining(queue, 1))
      /\ \A a \in Ids(Remaining(queue, 1)), b \in Ids(Drained(queue, 1)) : b < a
      /\ InOrder(Remaining(queue, 1))
  BY <1>2, DrainIds
<1> QED BY <1>3, <1>4, <1>5

LEMMA AppendUsers ==
  ASSUME NEW s \in Seq(AgentMessage), UsersOnce(s), NEW m \in AgentMessage
  PROVE  /\ m.role # "user" => UserIds(Append(s, m)) = UserIds(s) /\ UsersOnce(Append(s, m))
         /\ m.role = "user" /\ m.id \notin UserIds(s) =>
              UserIds(Append(s, m)) = UserIds(s) \union {m.id} /\ UsersOnce(Append(s, m))
<1> DEFINE t == Append(s, m)
<1>1. Len(s) \in Nat /\ DOMAIN s = 1 .. Len(s)
  BY LenProperties
<1>2. /\ DOMAIN t = DOMAIN s \union {Len(s) + 1} /\ Len(s) + 1 \notin DOMAIN s
      /\ \A i \in DOMAIN s : t[i] = s[i]
      /\ t[Len(s) + 1] = m
  <2>1. t \in Seq(AgentMessage) /\ Len(t) = Len(s) + 1 /\ t[Len(s) + 1] = m
        /\ \A i \in 1 .. Len(s) : t[i] = s[i]
    BY AppendProperties
  <2>2. DOMAIN t = 1 .. Len(s) + 1
    BY <2>1, LenProperties
  <2> QED BY <1>1, <2>1, <2>2
<1> HIDE DEF t
<1>3. CASE m.role # "user"
  BY <1>2, <1>3 DEF UserIds, UsersOnce, t
<1>4. CASE m.role = "user" /\ m.id \notin UserIds(s)
  <2>1. UserIds(t) = UserIds(s) \union {m.id}
    BY <1>2, <1>4 DEF UserIds
  <2>2. UsersOnce(t)
    BY <1>2, <1>4 DEF UserIds, UsersOnce
  <2> QED BY <1>4, <2>1, <2>2 DEF t
<1> QED BY <1>3, <1>4 DEF t

LEMMA FrontUsers ==
  ASSUME NEW s \in Seq(AgentMessage), s # <<>>, Last(s).role # "user", UsersOnce(s)
  PROVE  UserIds(Front(s)) = UserIds(s) /\ UsersOnce(Front(s))
<1>1. Len(s) \in Nat \ {0} /\ DOMAIN s = 1 .. Len(s)
  BY EmptySeq, LenProperties
<1>2. /\ DOMAIN s = DOMAIN Front(s) \union {Len(s)} /\ Len(s) \notin DOMAIN Front(s)
      /\ \A i \in DOMAIN Front(s) : Front(s)[i] = s[i]
  <2>1. 1 \in Int /\ Len(s) - 1 \in Int /\ \A i \in 1 .. Len(s) - 1 : s[i] \in AgentMessage
    BY <1>1, ElementOfSeq
  <2>2. /\ Front(s) \in Seq(AgentMessage)
        /\ Len(Front(s)) = IF 1 <= Len(s) - 1 THEN Len(s) - 1 - 1 + 1 ELSE 0
        /\ \A i \in 1 .. Len(s) - 1 - 1 + 1 : Front(s)[i] = s[1 + i - 1]
    BY <2>1, SubSeqProperties DEF Front
  <2>3. \A i \in 1 .. Len(s) - 1 : Front(s)[i] = s[i]
    <3> SUFFICES ASSUME NEW i \in 1 .. Len(s) - 1 PROVE Front(s)[i] = s[i]
      OBVIOUS
    <3>1. i \in 1 .. Len(s) - 1 - 1 + 1 /\ 1 + i - 1 = i
      BY <1>1
    <3> QED BY <2>2, <3>1
  <2>4. DOMAIN Front(s) = 1 .. Len(s) - 1
    <3>1. Len(Front(s)) = IF 1 <= Len(s) - 1 THEN Len(s) - 1 - 1 + 1 ELSE 0
      BY <2>2
    <3>2. \A l \in Nat \ {0} : (IF 1 <= l - 1 THEN l - 1 - 1 + 1 ELSE 0) = l - 1
      OBVIOUS
    <3> QED BY <1>1, <2>2, <3>1, <3>2, LenProperties
  <2> QED BY <1>1, <2>3, <2>4
<1>3. s[Len(s)].role # "user"
  BY DEF Last
<1> QED BY <1>2, <1>3 DEF UserIds, UsersOnce

-----------------------------------------------------------------------------
(* The kinds of steps, in terms of the places: each keeps DeliveryInv and  *)
(* is a step of PromptDelivery.                                            *)
DeliveryStep == [Delivery!Next]_(Delivery!delivery)

LEMMA TranscriptIsUsers == TranscriptIds = UserIds(messages) /\ TranscriptIds' = UserIds(messages')
BY DEF TranscriptIds, UserPositions, UserIds

(* Messages of the agent's own come and go in the transcript.              *)
LEMMA OwnStep ==
  ASSUME DeliveryInv,
         UNCHANGED <<steeringQueue, followUpQueue, hand, cleared, lost, nextId>>,
         UserIds(messages') = UserIds(messages), UsersOnce(messages')
  PROVE  DeliveryInv' /\ DeliveryStep
<1>1. DeliveryInv'
  BY DEF DeliveryInv, PlacesInv
<1>2. UNCHANGED Delivery!delivery
  BY TranscriptIsUsers DEF Delivery!delivery
<1> QED BY <1>1, <1>2 DEF DeliveryStep

(* A lane is drained into an empty hand.                                   *)
LEMMA TakeSteering ==
  ASSUME DeliveryInv, TypeInv, hand = <<>>,
         NEW n \in 0 .. Len(steeringQueue),
         hand' = Drained(steeringQueue, n), steeringQueue' = Remaining(steeringQueue, n),
         UNCHANGED <<messages, followUpQueue, cleared, lost, nextId>>
  PROVE  DeliveryInv' /\ DeliveryStep
<1> DEFINE A == Ids(steeringQueue)
           R == Ids(steeringQueue')
           D == Ids(hand')
<1>1. A = D \union R /\ (\A a \in R, b \in D : b < a) /\ InOrder(hand') /\ InOrder(steeringQueue')
  BY DrainIds DEF DeliveryInv, TypeInv, TypeOK, QueueType
<1>2. Ids(hand) = {}
  BY NoIds
<1>3. A \subseteq Nat
  BY IdTypes DEF TypeInv, TypeOK, QueueType
<1>4. D \intersect R = {}
  BY <1>1, <1>3
<1>5. DeliveryInv'
  <2>1. PlacesInv'
    <3> HIDE DEF A, R, D
    <3>1. Places(A, Ids(followUpQueue), {}, UserIds(messages), cleared, lost, nextId)
      BY <1>2 DEF DeliveryInv, PlacesInv, A
    <3>2. Places(R, Ids(followUpQueue), D, UserIds(messages), cleared, lost, nextId)
      BY <3>1, <1>1, <1>4 DEF Places
    <3> QED BY <3>2 DEF PlacesInv, R, D
  <2> QED BY <1>1, <2>1 DEF DeliveryInv
<1>6. Delivery!Take("steer")
  <2>1. D \in SUBSET A /\ R = A \ D /\ \A a \in A \ D, b \in D : b < a
    BY <1>1, <1>4
  <2> HIDE DEF A, R, D
  <2>2. /\ Ids(hand) = {}
        /\ \E S \in SUBSET A : /\ \A a \in A \ S, b \in S : b < a
                              /\ D = S /\ R = A \ S
    BY <1>2, <2>1
  <2> USE DEF A, R, D
  <2> QED BY <2>2, TranscriptIsUsers DEF Delivery!Take, Delivery!Older, A, R, D
<1>7. DeliveryStep
  BY <1>6 DEF DeliveryStep, Delivery!Next, Delivery!QueueLane
<1> QED BY <1>5, <1>7

LEMMA TakeFollowUps ==
  ASSUME DeliveryInv, TypeInv, hand = <<>>,
         NEW n \in 0 .. Len(followUpQueue),
         hand' = Drained(followUpQueue, n), followUpQueue' = Remaining(followUpQueue, n),
         UNCHANGED <<messages, steeringQueue, cleared, lost, nextId>>
  PROVE  DeliveryInv' /\ DeliveryStep
<1> DEFINE A == Ids(followUpQueue)
           R == Ids(followUpQueue')
           D == Ids(hand')
<1>1. A = D \union R /\ (\A a \in R, b \in D : b < a) /\ InOrder(hand') /\ InOrder(followUpQueue')
  BY DrainIds DEF DeliveryInv, TypeInv, TypeOK, QueueType
<1>2. Ids(hand) = {}
  BY NoIds
<1>3. A \subseteq Nat
  BY IdTypes DEF TypeInv, TypeOK, QueueType
<1>4. D \intersect R = {}
  BY <1>1, <1>3
<1>5. DeliveryInv'
  <2>1. PlacesInv'
    <3> HIDE DEF A, R, D
    <3>1. Places(Ids(steeringQueue), A, {}, UserIds(messages), cleared, lost, nextId)
      BY <1>2 DEF DeliveryInv, PlacesInv, A
    <3>2. Places(Ids(steeringQueue), R, D, UserIds(messages), cleared, lost, nextId)
      BY <3>1, <1>1, <1>4 DEF Places
    <3> QED BY <3>2 DEF PlacesInv, R, D
  <2> QED BY <1>1, <2>1 DEF DeliveryInv
<1>6. Delivery!Take("followUp")
  <2>1. D \in SUBSET A /\ R = A \ D /\ \A a \in A \ D, b \in D : b < a
    BY <1>1, <1>4
  <2> HIDE DEF A, R, D
  <2>2. /\ Ids(hand) = {}
        /\ \E S \in SUBSET A : /\ \A a \in A \ S, b \in S : b < a
                              /\ D = S /\ R = A \ S
    BY <1>2, <2>1
  <2> USE DEF A, R, D
  <2> QED BY <2>2, TranscriptIsUsers DEF Delivery!Take, Delivery!Older, A, R, D
<1>7. DeliveryStep
  BY <1>6 DEF DeliveryStep, Delivery!Next, Delivery!QueueLane
<1> QED BY <1>5, <1>7

(* The hand's oldest message joins the transcript.                         *)
LEMMA DeliverHead ==
  ASSUME DeliveryInv, TypeInv, hand # <<>>,
         messages' = Append(messages, Head(hand)), hand' = Tail(hand),
         UNCHANGED <<steeringQueue, followUpQueue, cleared, lost, nextId>>
  PROVE  DeliveryInv' /\ DeliveryStep
<1> DEFINE m == Head(hand).id
           H == Ids(hand)
           R == Ids(hand')
           T == UserIds(messages)
<1>1. H = {m} \union R /\ (\A k \in R : m < k) /\ InOrder(hand')
  BY HeadIds DEF DeliveryInv, TypeInv, TypeOK, LoopType
<1>2. H \subseteq Nat
  BY IdTypes DEF TypeInv, TypeOK, LoopType
<1>3. m \in Nat /\ m \notin R
  <2> HIDE DEF m, R, H
  <2>1. m \in Nat
    BY <1>1, <1>2
  <2>2. ~(m < m)
    BY <2>1
  <2> QED BY <1>1, <2>1, <2>2
<1>4. H \intersect T = {}
  BY DEF DeliveryInv, PlacesInv, Places
<1>5. UserIds(messages') = T \union {m} /\ UsersOnce(messages')
  <2>1. Head(hand) \in UserMessage
    BY HeadTailProperties DEF TypeInv, TypeOK, LoopType
  <2>2. Head(hand) \in AgentMessage /\ Head(hand).role = "user"
    BY <2>1 DEF AgentMessage, UserMessage
  <2>3. m \notin T
    BY <1>1, <1>4
  <2> QED BY <2>2, <2>3, AppendUsers DEF DeliveryInv, TypeInv, TypeOK, StateType
<1>6. DeliveryInv'
  <2>1. PlacesInv'
    <3> HIDE DEF m, H, R, T
    <3>1. Places(Ids(steeringQueue), Ids(followUpQueue), H, T, cleared, lost, nextId)
      BY DEF DeliveryInv, PlacesInv, H, T
    <3>2. Places(Ids(steeringQueue), Ids(followUpQueue), R, T \union {m}, cleared, lost, nextId)
      BY <3>1, <1>1, <1>3 DEF Places
    <3> QED BY <3>2, <1>5 DEF PlacesInv, R
  <2> QED BY <1>1, <1>5, <2>1 DEF DeliveryInv
<1>7. Delivery!Deliver
  <2>1. /\ m \in H /\ R = H \ {m}
        /\ \A b \in H : b = m \/ m < b
    BY <1>1, <1>3
  <2> HIDE DEF m, H, R, T
  <2>2. \E k \in H : /\ \A b \in H : b = k \/ k < b
                     /\ R = H \ {k}
                     /\ UserIds(messages') = T \union {k}
    BY <1>5, <2>1
  <2> QED BY <2>2, TranscriptIsUsers DEF Delivery!Deliver, Delivery!Older, H, R, T
<1>8. DeliveryStep
  BY <1>7 DEF DeliveryStep, Delivery!Next
<1> QED BY <1>6, <1>8

(* A run fails and what it had drained is lost.                            *)
LEMMA LoseHand ==
  ASSUME DeliveryInv, MayThrow, hand' = <<>>, lost' = lost \union Ids(hand),
         UNCHANGED <<messages, steeringQueue, followUpQueue, cleared, nextId>>
  PROVE  DeliveryInv' /\ DeliveryStep
<1>1. DeliveryInv'
  <2>1. PlacesInv'
    <3>1. Places(Ids(steeringQueue), Ids(followUpQueue), {}, UserIds(messages), cleared,
                 lost \union Ids(hand), nextId)
      BY DEF DeliveryInv, PlacesInv, Places
    <3> QED BY <3>1, NoIds DEF PlacesInv
  <2> QED BY <2>1, NoIds DEF DeliveryInv
<1>2. Delivery!Lose
  <2>1. cleared' \union lost' = (cleared \union lost) \union Ids(hand)
    OBVIOUS
  <2> QED BY <2>1, NoIds, TranscriptIsUsers DEF Delivery!Lose
<1> QED BY <1>1, <1>2 DEF DeliveryStep, Delivery!Next

-----------------------------------------------------------------------------
(* A new message has the next number, which no place has yet.              *)
LEMMA NewId ==
  ASSUME DeliveryInv, TypeInv
  PROVE  /\ \A k \in Ids(steeringQueue) \union Ids(followUpQueue) : k < nextId
         /\ nextId \notin UserIds(messages)
         /\ nextId \in Nat \ {0}
         /\ 1 .. (nextId + 1) - 1 = (1 .. nextId - 1) \union {nextId}
         /\ nextId \notin 1 .. nextId - 1
<1>1. nextId \in Nat \ {0}
  BY DEF DeliveryInv, TypeInv, TypeOK, HistoryType
<1> QED BY <1>1 DEF DeliveryInv, PlacesInv, Places

LEMMA EnqueueSteering ==
  ASSUME DeliveryInv, TypeInv, NEW l \in Lane,
         steeringQueue' = Append(steeringQueue, User(nextId, l)), nextId' = nextId + 1,
         UNCHANGED <<messages, followUpQueue, hand, cleared, lost>>
  PROVE  DeliveryInv' /\ DeliveryStep
<1> DEFINE A == Ids(steeringQueue)
<1>1. User(nextId, l) \in UserMessage /\ User(nextId, l).id = nextId
  BY MessageTypes DEF TypeInv, TypeOK, HistoryType, User
<1>2. Ids(steeringQueue') = A \union {nextId} /\ InOrder(steeringQueue')
  BY <1>1, AppendIds, NewId DEF DeliveryInv, TypeInv, TypeOK, QueueType
<1>3. DeliveryInv'
  <2>1. PlacesInv'
    <3> HIDE DEF A
    <3>1. Places(A, Ids(followUpQueue), Ids(hand), UserIds(messages), cleared, lost, nextId)
      BY DEF DeliveryInv, PlacesInv, A
    <3>2. Places(A \union {nextId}, Ids(followUpQueue), Ids(hand), UserIds(messages), cleared,
                 lost, nextId + 1)
      BY <3>1, NewId DEF Places
    <3> QED BY <3>2, <1>2 DEF PlacesInv
  <2>2. nextId' > 0
    BY NewId
  <2> QED BY <1>2, <2>1, <2>2 DEF DeliveryInv
<1>4. Delivery!Enqueue("steer")
  <2> HIDE DEF A
  <2> QED BY <1>2, TranscriptIsUsers DEF Delivery!Enqueue, A
<1> QED BY <1>3, <1>4 DEF DeliveryStep, Delivery!Next, Delivery!QueueLane

LEMMA EnqueueFollowUp ==
  ASSUME DeliveryInv, TypeInv, NEW l \in Lane,
         followUpQueue' = Append(followUpQueue, User(nextId, l)), nextId' = nextId + 1,
         UNCHANGED <<messages, steeringQueue, hand, cleared, lost>>
  PROVE  DeliveryInv' /\ DeliveryStep
<1> DEFINE A == Ids(followUpQueue)
<1>1. User(nextId, l) \in UserMessage /\ User(nextId, l).id = nextId
  BY MessageTypes DEF TypeInv, TypeOK, HistoryType, User
<1>2. Ids(followUpQueue') = A \union {nextId} /\ InOrder(followUpQueue')
  BY <1>1, AppendIds, NewId DEF DeliveryInv, TypeInv, TypeOK, QueueType
<1>3. DeliveryInv'
  <2>1. PlacesInv'
    <3> HIDE DEF A
    <3>1. Places(Ids(steeringQueue), A, Ids(hand), UserIds(messages), cleared, lost, nextId)
      BY DEF DeliveryInv, PlacesInv, A
    <3>2. Places(Ids(steeringQueue), A \union {nextId}, Ids(hand), UserIds(messages), cleared,
                 lost, nextId + 1)
      BY <3>1, NewId DEF Places
    <3> QED BY <3>2, <1>2 DEF PlacesInv
  <2>2. nextId' > 0
    BY NewId
  <2> QED BY <1>2, <2>1, <2>2 DEF DeliveryInv
<1>4. Delivery!Enqueue("followUp")
  <2> HIDE DEF A
  <2> QED BY <1>2, TranscriptIsUsers DEF Delivery!Enqueue, A
<1> QED BY <1>3, <1>4 DEF DeliveryStep, Delivery!Next, Delivery!QueueLane

(* prompt() takes the new message at once. *)
LEMMA TakePrompt ==
  ASSUME DeliveryInv, TypeInv, NEW l \in Lane, hand = <<>>,
         hand' = <<User(nextId, l)>>, nextId' = nextId + 1,
         UNCHANGED <<messages, steeringQueue, followUpQueue, cleared, lost>>
  PROVE  DeliveryInv' /\ DeliveryStep
<1>1. User(nextId, l) \in UserMessage /\ User(nextId, l).id = nextId
  BY MessageTypes DEF TypeInv, TypeOK, HistoryType, User
<1>2. Ids(hand) = {} /\ Ids(hand') = {nextId} /\ InOrder(hand')
  BY <1>1, OneId, NoIds
<1>3. DeliveryInv'
  <2>1. PlacesInv'
    <3>1. Places(Ids(steeringQueue), Ids(followUpQueue), {}, UserIds(messages), cleared, lost,
                 nextId)
      BY <1>2 DEF DeliveryInv, PlacesInv
    <3>2. Places(Ids(steeringQueue), Ids(followUpQueue), {nextId}, UserIds(messages), cleared,
                 lost, nextId + 1)
      BY <3>1, NewId DEF Places
    <3> QED BY <3>2, <1>2 DEF PlacesInv
  <2>2. nextId' > 0
    BY NewId
  <2> QED BY <1>2, <2>1, <2>2 DEF DeliveryInv
<1>4. Delivery!TakeNew
  BY <1>2, TranscriptIsUsers DEF Delivery!TakeNew
<1> QED BY <1>3, <1>4 DEF DeliveryStep, Delivery!Next

(* The owner of an idle agent puts it in the transcript itself. *)
LEMMA DeliverOwn ==
  ASSUME DeliveryInv, TypeInv, NEW l \in Lane, hand = <<>>,
         messages' = Append(messages, User(nextId, l)), nextId' = nextId + 1,
         UNCHANGED <<hand, steeringQueue, followUpQueue, cleared, lost>>
  PROVE  DeliveryInv' /\ DeliveryStep
<1> DEFINE T == UserIds(messages)
<1>1. /\ User(nextId, l) \in UserMessage /\ User(nextId, l).id = nextId
      /\ User(nextId, l).role = "user"
  BY MessageTypes DEF TypeInv, TypeOK, HistoryType, User
<1>2. UserIds(messages') = T \union {nextId} /\ UsersOnce(messages')
  BY <1>1, AppendUsers, NewId DEF DeliveryInv, TypeInv, TypeOK, StateType, AgentMessage
<1>3. DeliveryInv'
  <2>1. PlacesInv'
    <3> HIDE DEF T
    <3>1. Places(Ids(steeringQueue), Ids(followUpQueue), Ids(hand), T, cleared, lost, nextId)
      BY DEF DeliveryInv, PlacesInv, T
    <3>2. Places(Ids(steeringQueue), Ids(followUpQueue), Ids(hand), T \union {nextId}, cleared,
                 lost, nextId + 1)
      BY <3>1, NewId DEF Places
    <3> QED BY <3>2, <1>2 DEF PlacesInv
  <2>2. nextId' > 0
    BY NewId
  <2> QED BY <1>2, <2>1, <2>2 DEF DeliveryInv
<1>4. Delivery!DeliverNew
  <2> HIDE DEF T
  <2> QED BY <1>2, NoIds, TranscriptIsUsers DEF Delivery!DeliverNew, T
<1> QED BY <1>3, <1>4 DEF DeliveryStep, Delivery!Next

LEMMA WithdrawSteering ==
  ASSUME DeliveryInv, steeringQueue' = <<>>, cleared' = cleared \union Ids(steeringQueue),
         UNCHANGED <<messages, followUpQueue, hand, lost, nextId>>
  PROVE  DeliveryInv' /\ DeliveryStep
<1> DEFINE A == Ids(steeringQueue)
<1>1. Ids(steeringQueue') = {} /\ InOrder(steeringQueue')
  BY NoIds
<1>2. DeliveryInv'
  <2>1. PlacesInv'
    <3> HIDE DEF A
    <3>1. Places(A, Ids(followUpQueue), Ids(hand), UserIds(messages), cleared, lost, nextId)
      BY DEF DeliveryInv, PlacesInv, A
    <3>2. Places({}, Ids(followUpQueue), Ids(hand), UserIds(messages), cleared \union A, lost,
                 nextId)
      BY <3>1 DEF Places
    <3> QED BY <3>2, <1>1 DEF PlacesInv, A
  <2> QED BY <1>1, <2>1 DEF DeliveryInv
<1>3. Delivery!Withdraw("steer")
  <2>1. cleared' \union lost' = (cleared \union lost) \union A
    OBVIOUS
  <2> HIDE DEF A
  <2> QED BY <1>1, <2>1, TranscriptIsUsers DEF Delivery!Withdraw, A
<1> QED BY <1>2, <1>3 DEF DeliveryStep, Delivery!Next, Delivery!QueueLane


LEMMA WithdrawFollowUps ==
  ASSUME DeliveryInv, followUpQueue' = <<>>, cleared' = cleared \union Ids(followUpQueue),
         UNCHANGED <<messages, steeringQueue, hand, lost, nextId>>
  PROVE  DeliveryInv' /\ DeliveryStep
<1> DEFINE A == Ids(followUpQueue)
<1>1. Ids(followUpQueue') = {} /\ InOrder(followUpQueue')
  BY NoIds
<1>2. DeliveryInv'
  <2>1. PlacesInv'
    <3> HIDE DEF A
    <3>1. Places(Ids(steeringQueue), A, Ids(hand), UserIds(messages), cleared, lost, nextId)
      BY DEF DeliveryInv, PlacesInv, A
    <3>2. Places(Ids(steeringQueue), {}, Ids(hand), UserIds(messages), cleared \union A, lost,
                 nextId)
      BY <3>1 DEF Places
    <3> QED BY <3>2, <1>1 DEF PlacesInv, A
  <2> QED BY <1>1, <2>1 DEF DeliveryInv
<1>3. Delivery!Withdraw("followUp")
  <2>1. cleared' \union lost' = (cleared \union lost) \union A
    OBVIOUS
  <2> HIDE DEF A
  <2> QED BY <1>1, <2>1, TranscriptIsUsers DEF Delivery!Withdraw, A
<1> QED BY <1>2, <1>3 DEF DeliveryStep, Delivery!Next, Delivery!QueueLane

(* reset() forgets the transcript and both queues. *)
LEMMA ForgetAll ==
  ASSUME DeliveryInv, messages' = <<>>, steeringQueue' = <<>>, followUpQueue' = <<>>,
         cleared' = cleared \union Ids(steeringQueue) \union Ids(followUpQueue)
                            \union TranscriptIds,
         UNCHANGED <<hand, lost, nextId>>
  PROVE  DeliveryInv' /\ DeliveryStep
<1> DEFINE A == Ids(steeringQueue)
           B == Ids(followUpQueue)
           T == UserIds(messages)
<1>1. /\ Ids(steeringQueue') = {} /\ InOrder(steeringQueue')
      /\ Ids(followUpQueue') = {} /\ InOrder(followUpQueue')
      /\ UserIds(messages') = {} /\ UsersOnce(messages')
  BY NoIds
<1>2. cleared' = cleared \union A \union B \union T
  BY TranscriptIsUsers
<1>3. DeliveryInv'
  <2>1. PlacesInv'
    <3> HIDE DEF A, B, T
    <3>1. Places(A, B, Ids(hand), T, cleared, lost, nextId)
      BY DEF DeliveryInv, PlacesInv, A, B, T
    <3>2. Places({}, {}, Ids(hand), {}, cleared \union A \union B \union T, lost, nextId)
      BY <3>1 DEF Places
    <3> QED BY <3>2, <1>1, <1>2 DEF PlacesInv
  <2> QED BY <1>1, <2>1 DEF DeliveryInv
<1>4. Delivery!Forget
  <2>1. cleared' \union lost' = (cleared \union lost) \union T \union A \union B
    BY <1>2
  <2> HIDE DEF A, B, T
  <2> QED BY <1>1, <2>1, TranscriptIsUsers DEF Delivery!Forget, Delivery!QueueLane, A, B, T
<1> QED BY <1>3, <1>4 DEF DeliveryStep, Delivery!Next

-----------------------------------------------------------------------------
(* The actions of the Agent. *)

LEMMA DeliveryCaller ==
  ASSUME DeliveryInv, TypeInv, Caller
  PROVE  DeliveryInv' /\ DeliveryStep
<1>1. CASE Prompt
  <2>1. hand = <<>> /\ "prompt" \in Lane
    BY <1>1 DEF Prompt, StartRun, TypeInv, RunInv, Lane
  <2> QED BY <1>1, <2>1, TakePrompt DEF Prompt, StartRun, queues
<1>2. CASE ContinueWithSteering
  <2>1. hand = <<>>
    BY <1>2 DEF ContinueWithSteering, StartRun, TypeInv, RunInv
  <2>2. PICK n \in DrainSizes(steeringQueue, SteeringModes) :
          /\ StartRun(Drained(steeringQueue, n), TRUE)
          /\ steeringQueue' = Remaining(steeringQueue, n)
    BY <1>2 DEF ContinueWithSteering
  <2>3. n \in 0 .. Len(steeringQueue)
    BY DrainBounds DEF TypeInv, TypeOK, QueueType
  <2> QED BY <1>2, <2>1, <2>2, <2>3, TakeSteering DEF ContinueWithSteering, StartRun
<1>3. CASE ContinueWithFollowUp
  <2>1. hand = <<>>
    BY <1>3 DEF ContinueWithFollowUp, StartRun, TypeInv, RunInv
  <2>2. PICK n \in DrainSizes(followUpQueue, FollowUpModes) :
          /\ StartRun(Drained(followUpQueue, n), FALSE)
          /\ followUpQueue' = Remaining(followUpQueue, n)
    BY <1>3 DEF ContinueWithFollowUp
  <2>3. n \in 0 .. Len(followUpQueue)
    BY DrainBounds DEF TypeInv, TypeOK, QueueType
  <2> QED BY <1>3, <2>1, <2>2, <2>3, TakeFollowUps DEF ContinueWithFollowUp, StartRun
<1>4. CASE ContinueTranscript
  <2>1. hand = <<>> /\ hand' = <<>>
    BY <1>4 DEF ContinueTranscript, StartRun, TypeInv, RunInv
  <2> QED BY <1>4, <2>1, OwnStep DEF ContinueTranscript, StartRun, queues, DeliveryInv
<1>5. CASE Steer
  <2>1. "steer" \in Lane
    BY DEF Lane
  <2> QED BY <1>5, <2>1, EnqueueSteering DEF Steer, state, loop
<1>6. CASE FollowUp
  <2>1. "followUp" \in Lane
    BY DEF Lane
  <2> QED BY <1>6, <2>1, EnqueueFollowUp DEF FollowUp, state, loop
<1>7. CASE ClearSteeringQueue
  BY <1>7, WithdrawSteering DEF ClearSteeringQueue, state, loop
<1>8. CASE ClearFollowUpQueue
  BY <1>8, WithdrawFollowUps DEF ClearFollowUpQueue, state, loop
<1>9. CASE Abort
  BY <1>9, OwnStep DEF Abort, state, queues, loop, DeliveryInv
<1>10. CASE Reset
  BY <1>10, ForgetAll DEF Reset, loop
<1>11. CASE OwnerAppends
  <2>1. hand = <<>> /\ "prompt" \in Lane
    BY <1>11 DEF OwnerAppends, TypeInv, RunInv, Lane
  <2> QED BY <1>11, <2>1, DeliverOwn DEF OwnerAppends, queues, loop
<1>12. CASE OwnerDropsError
  <2>1. messages # <<>> /\ Last(messages).role # "user"
    BY <1>12 DEF OwnerDropsError, AtAssistant
  <2>2. UserIds(messages') = UserIds(messages) /\ UsersOnce(messages')
    BY <1>12, <2>1, FrontUsers DEF OwnerDropsError, DeliveryInv, TypeInv, TypeOK, StateType
  <2> QED BY <1>12, <2>2, OwnStep DEF OwnerDropsError, queues, loop, history
<1> QED BY <1>1, <1>2, <1>3, <1>4, <1>5, <1>6, <1>7, <1>8, <1>9, <1>10, <1>11, <1>12
        DEF Caller

(* Answers, results and reports of failures are not the user's messages.   *)
LEMMA AppendOwn ==
  ASSUME DeliveryInv, TypeInv, NEW m \in AssistantMessage \union ToolResultMessage,
         messages' = Append(messages, m)
  PROVE  UserIds(messages') = UserIds(messages) /\ UsersOnce(messages')
<1>1. m \in AgentMessage /\ m.role # "user"
  BY DEF AgentMessage, AssistantMessage, ToolResultMessage
<1> QED BY <1>1, AppendUsers DEF DeliveryInv, TypeInv, TypeOK, StateType

LEMMA DeliveryInject ==
  ASSUME DeliveryInv, TypeInv, InjectStart \/ InjectEnd
  PROVE  DeliveryInv' /\ DeliveryStep
<1>1. CASE InjectStart
  BY <1>1, OwnStep DEF InjectStart, queues, loop, history, DeliveryInv
<1>2. CASE InjectEnd
  <2>1. hand # <<>>
    BY <1>2 DEF InjectEnd, TypeInv, ShownInv
  <2> QED BY <1>2, <2>1, DeliverHead DEF InjectEnd, queues
<1> QED BY <1>1, <1>2

LEMMA DeliveryPoll ==
  ASSUME DeliveryInv, TypeInv, InitialPoll \/ SteeringPoll \/ FollowUpPoll
  PROVE  DeliveryInv' /\ DeliveryStep
<1>1. hand = <<>>
  BY DEF InitialPoll, SteeringPoll, FollowUpPoll, TypeInv, RunInv
<1>2. \A n \in DrainSizes(steeringQueue, SteeringModes) : n \in 0 .. Len(steeringQueue)
  BY DrainBounds DEF TypeInv, TypeOK, QueueType
<1>3. \A n \in DrainSizes(followUpQueue, FollowUpModes) : n \in 0 .. Len(followUpQueue)
  BY DrainBounds DEF TypeInv, TypeOK, QueueType
<1>4. 0 \in 0 .. Len(steeringQueue)
  BY LenProperties DEF TypeInv, TypeOK, QueueType
<1>5. CASE InitialPoll
  <2>1. PICK n \in 0 .. Len(steeringQueue) :
          hand' = Drained(steeringQueue, n) /\ steeringQueue' = Remaining(steeringQueue, n)
    BY <1>2, <1>4, <1>5 DEF InitialPoll
  <2> QED BY <1>1, <1>5, <2>1, TakeSteering DEF InitialPoll, state, history
<1>6. CASE SteeringPoll
  <2>1. PICK n \in 0 .. Len(steeringQueue) :
          hand' = Drained(steeringQueue, n) /\ steeringQueue' = Remaining(steeringQueue, n)
    BY <1>2, <1>6 DEF SteeringPoll
  <2> QED BY <1>1, <1>6, <2>1, TakeSteering DEF SteeringPoll, state, history
<1>7. CASE FollowUpPoll
  <2>1. PICK n \in 0 .. Len(followUpQueue) :
          hand' = Drained(followUpQueue, n) /\ followUpQueue' = Remaining(followUpQueue, n)
    BY <1>3, <1>7 DEF FollowUpPoll
  <2> QED BY <1>1, <1>7, <2>1, TakeFollowUps DEF FollowUpPoll, state, history
<1> QED BY <1>5, <1>6, <1>7

LEMMA DeliveryTurn ==
  ASSUME DeliveryInv, TypeInv,
         StreamStart \/ StreamEnd \/ AnswerFailed \/ TurnWithoutTools
  PROVE  DeliveryInv' /\ DeliveryStep
<1>1. CASE StreamStart
  BY <1>1, OwnStep DEF StreamStart, queues, DeliveryInv
<1>2. CASE StreamEnd
  <2>1. PICK answer \in Answers : messages' = Append(messages, answer)
    BY <1>2 DEF StreamEnd
  <2>2. answer \in AssistantMessage
    BY AnswerTypes DEF TypeInv, TypeOK, LoopType
  <2> QED BY <1>2, <2>1, <2>2, AppendOwn, OwnStep DEF StreamEnd, queues, history
<1>3. CASE AnswerFailed \/ TurnWithoutTools
  BY <1>3, OwnStep DEF AnswerFailed, TurnWithoutTools, state, queues, loop, history, DeliveryInv
<1> QED BY <1>1, <1>2, <1>3

LEMMA DeliveryBatch ==
  ASSUME DeliveryInv, TypeInv,
         \/ StartBatch \/ Launch \/ ResultEnd \/ FinishBatch \/ ToolStep
         \/ \E i \in CallIndex : CallStart(i) \/ PreparedImmediate(i) \/ Prepared(i) \/ ResultStart(i)
  PROVE  DeliveryInv' /\ DeliveryStep
<1>1. CASE StartBatch \/ Launch \/ FinishBatch
  BY <1>1, OwnStep DEF StartBatch, Launch, FinishBatch, state, queues, loop, history, DeliveryInv
<1>2. CASE ResultEnd
  <2>1. streamingMessage \in ToolResultMessage /\ messages' = Append(messages, streamingMessage)
    BY <1>2 DEF ResultEnd, TypeInv, ShownInv
  <2> QED BY <1>2, <2>1, AppendOwn, OwnStep DEF ResultEnd, queues, loop, history
<1>3. CASE ToolStep
  BY <1>3, OwnStep DEF ToolStep, ToolEnd, queues, loop, history, DeliveryInv
<1>4. CASE \E i \in CallIndex : CallStart(i) \/ PreparedImmediate(i) \/ Prepared(i) \/ ResultStart(i)
  BY <1>4, OwnStep DEF CallStart, PreparedImmediate, Prepared, ResultStart, state, queues, loop,
                       history, DeliveryInv
<1> QED BY <1>1, <1>2, <1>3, <1>4

LEMMA DeliveryFailure ==
  ASSUME DeliveryInv, TypeInv,
         Failure \/ FailureEnd \/ FailureAgentEnd \/ FinishRun \/ \E o \in orphans : OrphanEnd(o)
  PROVE  DeliveryInv' /\ DeliveryStep
<1>1. CASE Failure
  <2>1. MayThrow /\ ReportFailure
    BY <1>1 DEF Failure, Throw, ToolThrow
  <2> QED BY <2>1, LoseHand DEF ReportFailure, queues
<1>2. CASE FailureEnd
  <2>1. streamingMessage \in AssistantMessage /\ messages' = Append(messages, streamingMessage)
    BY <1>2 DEF FailureEnd, TypeInv, ShownInv
  <2> QED BY <1>2, <2>1, AppendOwn, OwnStep DEF FailureEnd, queues, loop, history
<1>3. CASE FailureAgentEnd \/ FinishRun
  BY <1>3, OwnStep DEF FailureAgentEnd, FinishRun, state, queues, loop, history, DeliveryInv
<1>4. CASE \E o \in orphans : OrphanEnd(o)
  BY <1>4, OwnStep DEF OrphanEnd, queues, loop, history, DeliveryInv
<1> QED BY <1>1, <1>2, <1>3, <1>4

-----------------------------------------------------------------------------
LEMMA DeliveryInit == Init => DeliveryInv /\ Delivery!Init
<1> SUFFICES ASSUME Init PROVE DeliveryInv /\ Delivery!Init
  OBVIOUS
<1>1. /\ Ids(steeringQueue) = {} /\ Ids(followUpQueue) = {} /\ Ids(hand) = {}
      /\ UserIds(messages) = {} /\ UsersOnce(messages) /\ cleared = {} /\ lost = {} /\ nextId = 1
      /\ InOrder(steeringQueue) /\ InOrder(followUpQueue) /\ InOrder(hand)
  BY NoIds DEF Init
<1>2. DeliveryInv
  BY <1>1 DEF DeliveryInv, PlacesInv, Places
<1>3. Delivery!Init
  BY <1>1, TranscriptIsUsers DEF Delivery!Init, Delivery!QueueLane
<1> QED BY <1>2, <1>3

LEMMA DeliveryNext ==
  ASSUME DeliveryInv, TypeInv, [Next]_vars
  PROVE  DeliveryInv' /\ DeliveryStep
<1>1. CASE Caller
  BY <1>1, DeliveryCaller
<1>2. CASE LoopStep
  BY <1>2, DeliveryInject, DeliveryPoll, DeliveryTurn, DeliveryBatch, DeliveryFailure DEF LoopStep
<1>3. CASE ToolStep
  BY <1>3, DeliveryBatch
<1>4. CASE Failure \/ \E o \in orphans : OrphanEnd(o)
  BY <1>4, DeliveryFailure
<1>5. CASE UNCHANGED vars
  BY <1>5, OwnStep DEF vars, state, queues, loop, history, DeliveryInv
<1> QED BY <1>1, <1>2, <1>3, <1>4, <1>5 DEF Next

LEMMA DeliveryInvariance == Spec => []DeliveryInv
<1>1. Init => DeliveryInv
  BY DeliveryInit
<1>2. TypeInv /\ DeliveryInv /\ [Next]_vars => DeliveryInv'
  BY DeliveryNext
<1> QED BY <1>1, <1>2, TypeInvariance, PTL DEF Spec

(* A message handed to the agent is in exactly one place: waiting in one   *)
(* queue, in the loop's hand, once in the transcript, withdrawn or lost    *)
(* with a failed run.                                                      *)
THEOREM MessagesInOnePlace == Spec => []EachMessageOnce
<1>1. DeliveryInv => EachMessageOnce
  <2> SUFFICES ASSUME DeliveryInv PROVE EachMessageOnce
    OBVIOUS
  <2> DEFINE places == <<Ids(steeringQueue), Ids(followUpQueue), Ids(hand), TranscriptIds,
                         cleared, lost>>
  <2>1. Places(places[1], places[2], places[3], places[4], places[5], places[6], nextId)
    BY TranscriptIsUsers DEF DeliveryInv, PlacesInv
  <2>2. DOMAIN places = 1 .. 6
    OBVIOUS
  <2>3. 1 .. 6 = {1, 2, 3, 4, 5, 6}
    OBVIOUS
  <2> HIDE DEF places
  <2>4. 1 .. nextId - 1 = UNION {places[k] : k \in DOMAIN places}
    <3>1. UNION {places[k] : k \in {1, 2, 3, 4, 5, 6}} =
            places[1] \union places[2] \union places[3] \union places[4] \union places[5] \union places[6]
      OBVIOUS
    <3> QED BY <2>1, <2>2, <2>3, <3>1 DEF Places
  <2>5. \A k, l \in DOMAIN places : k # l => places[k] \intersect places[l] = {}
    <3>1. \A k, l \in {1, 2, 3, 4, 5, 6} : k # l => places[k] \intersect places[l] = {}
      BY <2>1 DEF Places
    <3> QED BY <2>2, <2>3, <3>1
  <2>6. \A p, q \in UserPositions : messages[p].id = messages[q].id => p = q
    BY DEF DeliveryInv, UsersOnce, UserPositions
  <2> QED BY <2>4, <2>5, <2>6 DEF EachMessageOnce, places
<1> QED BY <1>1, DeliveryInvariance, PTL

(* The Agent implements PromptDelivery: whatever the loop, the tools, the  *)
(* provider and the callers do, messages are taken oldest first, delivered *)
(* once and in order, and dropped only when withdrawn or by a failed run.  *)
THEOREM AgentDelivers == Spec => DeliverySpec
<1>1. Init => Delivery!Init
  BY DeliveryInit
<1>2. TypeInv /\ DeliveryInv /\ [Next]_vars => [Delivery!Next]_(Delivery!delivery)
  BY DeliveryNext DEF DeliveryStep
<1> QED BY <1>1, <1>2, TypeInvariance, DeliveryInvariance, PTL DEF Spec, DeliverySpec, Delivery!Spec
=============================================================================
