----------------------- MODULE SessionRegistryProofs -----------------------
(***************************************************************************)
(* Theorems about SessionRegistry, for any number of sockets, clients and  *)
(* messages, with overlapping registrations and every fault.               *)
(***************************************************************************)
EXTENDS SessionRegistry, SequenceTheorems, TLAPS

-----------------------------------------------------------------------------
(* The strengthening.                                                       *)

\* The sockets that have inserted their generation and not yet removed it.
Owning == {"sender", "active", "serving", "check", "mark", "release", "rmgen"}

\* A socket that has begun to register has a generation.
HasGeneration == \A c \in Conns : pc[c] # "new" => gen[c] # 0

\* The generation in the map is that of a socket whose cleanup is to come.
OwnerLives ==
  connection_gen # 0 =>
    \E c \in Conns : gen[c] = connection_gen /\ pc[c] \in Owning

\* Whoever is registered, somebody is still to remove the sender: the owner of
\* the generation, a task about to remove it, or the socket itself.
RemoverLives ==
  sessions # 0 =>
    \/ connection_gen # 0
    \/ \E d \in Conns : pc[d] \in {"rmgen", "rmsender"}
    \/ admin = "rmsender"
    \/ pc[sessions] \in {"active", "serving", "check", "mark", "release"}

\* A sender is registered only after the queue was replayed to it.
SenderAfterReplay ==
  \A c \in Conns :
    /\ sessions = c => pc[c] \notin {"new", "replay", "forget", "gen", "sender"}
    /\ pc[c] \in {"new", "replay"} => chan[c] = <<>>

\* The messages in the sockets' channels and in the queue were sent.
WasSent(m) == m.n <= sent[m.from]

OnlySent ==
  /\ \A c \in Conns : \A i \in DOMAIN chan[c] : WasSent(chan[c][i])
  /\ \A i \in DOMAIN pending : WasSent(pending[i])

\* The queue is in the order of sending.
QueueOrder ==
  \A i, j \in DOMAIN pending :
    i < j /\ pending[i].from = pending[j].from => pending[i].n < pending[j].n

Ownership == HasGeneration /\ OwnerLives /\ RemoverLives

Delivery ==
  SenderAfterReplay /\ OnlySent /\ QueueOrder /\ ChannelOrder /\ DeliveredOnce

IInv == TypeOK /\ Ownership /\ Delivery /\ QueueBounded

-----------------------------------------------------------------------------
(* Type correctness.                                                        *)

\* What is left of a sequence from a position on.
LEMMA SuffixProperties ==
  ASSUME NEW q \in Seq(Message), NEW k \in 0..Len(q)
  PROVE  /\ SubSeq(q, k + 1, Len(q)) \in Seq(Message)
         /\ Len(SubSeq(q, k + 1, Len(q))) = Len(q) - k
         /\ \A i \in 1..(Len(q) - k) : SubSeq(q, k + 1, Len(q))[i] = q[i + k]
<1> DEFINE r == SubSeq(q, k + 1, Len(q))
<1>1. Len(q) \in Nat /\ k \in Nat /\ \A i \in 1..Len(q) : q[i] \in Message
  OBVIOUS
<1>2. \A i \in (k + 1)..Len(q) : q[i] \in Message
  BY <1>1
<1>3. /\ r \in Seq(Message)
      /\ Len(r) = IF k + 1 <= Len(q) THEN Len(q) - (k + 1) + 1 ELSE 0
      /\ \A i \in 1..(Len(q) - (k + 1) + 1) : r[i] = q[(k + 1) + i - 1]
  <2> HIDE DEF r
  <2> QED BY <1>1, <1>2, SubSeqProperties DEF r
<1> HIDE DEF r
<1>4. Len(r) = Len(q) - k
  BY <1>1, <1>3
<1>5. \A i \in 1..(Len(q) - k) : r[i] = q[i + k]
  BY <1>1, <1>3
<1> QED BY <1>3, <1>4, <1>5 DEF r

LEMMA PrefixElements ==
  ASSUME NEW q \in Seq(Message), NEW k \in 0..Len(q)
  PROVE  Elements(SubSeq(q, 1, k)) \subseteq Message
<1>1. \A i \in 1..k : q[i] \in Message
  OBVIOUS
<1>2. SubSeq(q, 1, k) \in Seq(Message)
  BY <1>1, SubSeqProperties
<1> QED BY <1>2 DEF Elements

LEMMA CrowdRange ==
  ASSUME NEW q \in Seq(Message), Len(q) <= QueueLimit
  PROVE  /\ Crowd(q) \in 0..Len(q)
         /\ Len(q) - Crowd(q) < QueueLimit
BY SessionRegistryAssumption DEF Crowd

\* A message queued: the queue loses its oldest messages and gains a last one.
LEMMA QueueShape ==
  ASSUME TypeOK, QueueBounded, NEW w \in Clients, QueueMessage(w)
  PROVE  \E k \in 0..Len(pending) :
           /\ Len(pending) - k < QueueLimit
           /\ pending' \in Seq(Message)
           /\ Len(pending') = Len(pending) - k + 1
           /\ \A i \in 1..(Len(pending) - k) : pending'[i] = pending[i + k]
           /\ pending'[Len(pending) - k + 1] = NextOf(w)
           /\ dropped' = dropped \union Elements(SubSeq(pending, 1, k))
<1> DEFINE k == Crowd(pending)
           r == SubSeq(pending, k + 1, Len(pending))
<1>1. k \in 0..Len(pending) /\ Len(pending) - k < QueueLimit
  BY CrowdRange DEF TypeOK, QueueBounded
<1>2. NextOf(w) \in Message
  BY DEF NextOf, Message, TypeOK
<1>3. pending' = Append(r, NextOf(w))
      /\ dropped' = dropped \union Elements(SubSeq(pending, 1, k))
  BY DEF QueueMessage
<1> HIDE DEF k
<1>4. /\ r \in Seq(Message)
      /\ Len(r) = Len(pending) - k
      /\ \A i \in 1..(Len(pending) - k) : r[i] = pending[i + k]
  BY <1>1, SuffixProperties DEF TypeOK
<1> HIDE DEF r
<1>5. /\ pending' \in Seq(Message)
      /\ Len(pending') = Len(pending) - k + 1
      /\ \A i \in 1..(Len(pending) - k) : pending'[i] = pending[i + k]
      /\ pending'[Len(pending) - k + 1] = NextOf(w)
  BY <1>2, <1>3, <1>4
<1> QED BY <1>1, <1>3, <1>5

\* A replay: the queue goes to the socket but for what is too old, or, if the
\* socket refuses, nothing does and the queue loses its first messages.
LEMMA ReplayShape ==
  ASSUME TypeOK, NEW c \in Conns, ReplayPending(c)
  PROVE  /\ \/ /\ chan' = chan
               /\ \E k \in 0..Len(pending) :
                    pending' = SubSeq(pending, k + 1, Len(pending))
            \/ /\ \E k \in 0..Len(pending) :
                    chan' = [chan EXCEPT ![c] =
                               @ \o SubSeq(pending, k + 1, Len(pending))]
               /\ pending' = <<>>
         /\ dropped' \subseteq Message
<1>1. PICK old \in 0..Len(pending) :
        LET fresh   == SubSeq(pending, old + 1, Len(pending))
            refused == closed[c] /\ fresh # <<>>
        IN  /\ chan' = IF closed[c] THEN chan
                       ELSE [chan EXCEPT ![c] = @ \o fresh]
            /\ pending' = IF refused THEN Tail(fresh) ELSE <<>>
            /\ dropped' = dropped \union Elements(SubSeq(pending, 1, old))
                            \union (IF refused THEN {fresh[1]} ELSE {})
  BY DEF ReplayPending
<1> DEFINE fresh == SubSeq(pending, old + 1, Len(pending))
<1>2. /\ fresh \in Seq(Message)
      /\ Len(fresh) = Len(pending) - old
      /\ \A i \in 1..(Len(pending) - old) : fresh[i] = pending[i + old]
  BY SuffixProperties DEF TypeOK
<1>3. Elements(SubSeq(pending, 1, old)) \subseteq Message /\ dropped \subseteq Message
  BY PrefixElements DEF TypeOK
<1>4. CASE closed[c] /\ fresh # <<>>
  <2>1. chan' = chan /\ pending' = Tail(fresh)
    BY <1>1, <1>4
  <2>2. Len(fresh) # 0 /\ fresh[1] \in Message /\ old + 1 \in 1..Len(pending)
    <3> HIDE DEF fresh
    <3> QED BY <1>2, <1>4 DEF TypeOK
  <2>3. Tail(fresh) = SubSeq(pending, (old + 1) + 1, Len(pending))
    BY <2>2, HeadTailOfSubSeq DEF TypeOK
  <2>4. dropped' \subseteq Message
    <3>1. dropped' = dropped \union Elements(SubSeq(pending, 1, old))
                       \union {fresh[1]}
      BY <1>1, <1>4
    <3> QED BY <3>1, <2>2, <1>3
  <2>5. \E k \in 0..Len(pending) : pending' = SubSeq(pending, k + 1, Len(pending))
    <3>1. old + 1 \in 0..Len(pending)
          /\ pending' = SubSeq(pending, (old + 1) + 1, Len(pending))
      BY <2>1, <2>2, <2>3
    <3> QED BY <3>1
  <2> QED BY <2>1, <2>4, <2>5
<1>5. CASE closed[c] /\ fresh = <<>>
  <2>1. chan' = chan /\ pending' = fresh
        /\ dropped' = dropped \union Elements(SubSeq(pending, 1, old))
    BY <1>1, <1>5
  <2> QED BY <2>1, <1>3
<1>6. CASE ~closed[c]
  <2>1. /\ chan' = [chan EXCEPT ![c] = @ \o fresh] /\ pending' = <<>>
        /\ dropped' = dropped \union Elements(SubSeq(pending, 1, old))
    BY <1>1, <1>6
  <2> QED BY <2>1, <1>3
<1> QED BY <1>4, <1>5, <1>6 DEF TypeOK

LEMMA TypeInit == Init => TypeOK
BY SessionRegistryAssumption DEF Init, TypeOK, FirstGeneration, Conns

LEMMA TypeStep == TypeOK /\ QueueBounded /\ [Next]_vars => TypeOK'
<1> SUFFICES ASSUME TypeOK, QueueBounded, [Next]_vars PROVE TypeOK'
  OBVIOUS
<1> USE SessionRegistryAssumption DEF TypeOK, Conns, Goto, maps, clients, sockets,
        others, Registering, Leaving
<1>1. ASSUME NEW c \in Conns, RegisterStep(c) PROVE TypeOK'
  <2>1. CASE TakeGeneration(c)
    BY <2>1 DEF TakeGeneration
  <2>2. CASE ReplayPending(c)
    <3>1. pending' \in Seq(Message) /\ chan' \in [Conns -> Seq(Message)]
          /\ dropped' \subseteq Message
      <4>1. CASE /\ chan' = chan
                 /\ \E k \in 0..Len(pending) :
                      pending' = SubSeq(pending, k + 1, Len(pending))
        BY <4>1, <2>2, ReplayShape, SuffixProperties
      <4>2. CASE /\ \E k \in 0..Len(pending) :
                      chan' = [chan EXCEPT ![c] =
                                 @ \o SubSeq(pending, k + 1, Len(pending))]
                 /\ pending' = <<>>
        BY <4>2, <2>2, ReplayShape, SuffixProperties
      <4> QED BY <4>1, <4>2, <2>2, ReplayShape
    <3> QED BY <3>1, <2>2 DEF ReplayPending
  <2>3. CASE ForgetQueue(c)
    BY <2>3 DEF ForgetQueue
  <2>4. CASE InsertGeneration(c)
    BY <2>4 DEF InsertGeneration
  <2>5. CASE InsertSender(c)
    BY <2>5 DEF InsertSender
  <2>6. CASE MarkActive(c)
    BY <2>6 DEF MarkActive
  <2> QED BY <1>1, <2>1, <2>2, <2>3, <2>4, <2>5, <2>6 DEF RegisterStep
<1>2. ASSUME NEW c \in Conns, CleanupStep(c) PROVE TypeOK'
  <2>1. CASE CheckCurrent(c)
    BY <2>1 DEF CheckCurrent
  <2>2. CASE MarkDisconnected(c)
    BY <2>2 DEF MarkDisconnected, Disconnected
  <2>3. CASE CompareGeneration(c)
    BY <2>3 DEF CompareGeneration
  <2>4. CASE RemoveGeneration(c)
    BY <2>4 DEF RemoveGeneration
  <2>5. CASE RemoveSender(c)
    BY <2>5 DEF RemoveSender
  <2>6. CASE AbortSendTask(c)
    BY <2>6 DEF AbortSendTask
  <2> QED BY <1>2, <2>1, <2>2, <2>3, <2>4, <2>5, <2>6 DEF CleanupStep
<1>3. ASSUME NEW c \in Conns, SendTaskStops(c) \/ SocketEnds(c) PROVE TypeOK'
  BY <1>3 DEF SendTaskStops, SocketEnds
<1>4. ASSUME NEW w \in Clients, ClientStep(w) PROVE TypeOK'
  <2>1. NextOf(w) \in Message
    BY DEF NextOf, Message
  <2>2. CASE SendDirect(w)
    <3>1. sessions \in Conns /\ Append(chan[sessions], NextOf(w)) \in Seq(Message)
      BY <2>1, <2>2 DEF SendDirect
    <3> QED BY <2>2, <3>1 DEF SendDirect
  <2>3. CASE FindNoProxy(w)
    BY <2>3 DEF FindNoProxy
  <2>4. CASE QueueMessage(w)
    <3>1. pending' \in Seq(Message) /\ dropped' \subseteq Message
      BY <2>4, QueueShape, PrefixElements
    <3> QED BY <2>4, <3>1 DEF QueueMessage
  <2> QED BY <1>4, <2>2, <2>3, <2>4 DEF ClientStep
<1>5. CASE CleanerStep
  BY <1>5 DEF CleanerStep, SnapshotKeys, LoadActive, MarkStale, Disconnected
<1>6. CASE AdminStep
  BY <1>6 DEF AdminStep, ForceRemoveGeneration, ForceRemoveSender, DeleteSession
<1>7. CASE UNCHANGED vars
  BY <1>7 DEF vars
<1> QED BY <1>1, <1>2, <1>3, <1>4, <1>5, <1>6, <1>7 DEF Next, SocketStep

-----------------------------------------------------------------------------
(* The queue's limit.                                                       *)

LEMMA BoundStep == TypeOK /\ QueueBounded /\ [Next]_vars => QueueBounded'
<1> SUFFICES ASSUME TypeOK, QueueBounded, [Next]_vars PROVE QueueBounded'
  OBVIOUS
<1>1. ASSUME NEW c \in Conns, ReplayPending(c) PROVE QueueBounded'
  <2>1. Len(pending') <= Len(pending)
    BY <1>1, ReplayShape, SuffixProperties DEF TypeOK
  <2> QED BY <2>1, SessionRegistryAssumption, TypeStep DEF QueueBounded, TypeOK
<1>2. ASSUME NEW c \in Conns, ForgetQueue(c) PROVE QueueBounded'
  BY <1>2, SessionRegistryAssumption DEF ForgetQueue, QueueBounded
<1>3. ASSUME NEW w \in Clients, QueueMessage(w) PROVE QueueBounded'
  BY <1>3, QueueShape, SessionRegistryAssumption DEF QueueBounded, TypeOK
<1>4. CASE UNCHANGED pending
  BY <1>4 DEF QueueBounded
<1>5. \/ UNCHANGED pending
      \/ \E c \in Conns : ReplayPending(c) \/ ForgetQueue(c)
      \/ \E w \in Clients : QueueMessage(w)
  BY DEF Next, SocketStep, RegisterStep, CleanupStep, ClientStep, CleanerStep,
         AdminStep, TakeGeneration, InsertGeneration, InsertSender, MarkActive,
         CheckCurrent, MarkDisconnected, CompareGeneration, RemoveGeneration,
         RemoveSender, AbortSendTask, SendTaskStops, SocketEnds, SendDirect,
         FindNoProxy, SnapshotKeys, LoadActive, MarkStale, ForceRemoveGeneration,
         ForceRemoveSender, DeleteSession, maps, vars
<1> QED BY <1>1, <1>2, <1>3, <1>4, <1>5

-----------------------------------------------------------------------------
(* Who is still to remove the sender.                                       *)

LEMMA OwnershipInit == Init => Ownership
BY DEF Init, Ownership, HasGeneration, OwnerLives, RemoverLives, Conns

LEMMA OwnershipStep ==
  TypeOK /\ TypeOK' /\ Ownership /\ [Next]_vars => Ownership'
<1> SUFFICES ASSUME TypeOK, TypeOK', Ownership, [Next]_vars PROVE Ownership'
  OBVIOUS
<1> USE DEF TypeOK, Ownership, HasGeneration, OwnerLives, RemoverLives, Owning, Goto,
        maps, clients, sockets, others
<1>0. \A c \in Conns : c # 0
  BY DEF Conns
<1>1. ASSUME NEW c \in Conns, RegisterStep(c) PROVE Ownership'
  <2>1. CASE TakeGeneration(c)
    BY <2>1 DEF TakeGeneration
  <2>2. CASE ReplayPending(c)
    BY <2>2 DEF ReplayPending
  <2>3. CASE ForgetQueue(c)
    BY <2>3 DEF ForgetQueue
  <2>4. CASE InsertGeneration(c)
    BY <2>4 DEF InsertGeneration
  <2>5. CASE InsertSender(c)
    BY <2>5 DEF InsertSender
  <2>6. CASE MarkActive(c)
    BY <2>6 DEF MarkActive
  <2> QED BY <1>1, <2>1, <2>2, <2>3, <2>4, <2>5, <2>6 DEF RegisterStep
<1>2. ASSUME NEW c \in Conns, CleanupStep(c) PROVE Ownership'
  <2>1. CASE CheckCurrent(c)
    BY <2>1 DEF CheckCurrent
  <2>2. CASE MarkDisconnected(c)
    BY <2>2 DEF MarkDisconnected
  <2>3. CASE CompareGeneration(c)
    BY <2>3 DEF CompareGeneration
  <2>4. CASE RemoveGeneration(c)
    BY <2>4 DEF RemoveGeneration
  <2>5. CASE RemoveSender(c)
    BY <2>5 DEF RemoveSender
  <2>6. CASE AbortSendTask(c)
    BY <2>6 DEF AbortSendTask
  <2> QED BY <1>2, <2>1, <2>2, <2>3, <2>4, <2>5, <2>6 DEF CleanupStep
<1>3. ASSUME NEW c \in Conns, SendTaskStops(c) \/ SocketEnds(c) PROVE Ownership'
  <2>1. CASE SendTaskStops(c)
    BY <2>1 DEF SendTaskStops
  <2>2. CASE SocketEnds(c)
    BY <2>2 DEF SocketEnds
  <2> QED BY <1>3, <2>1, <2>2
<1>4. ASSUME NEW w \in Clients, ClientStep(w) PROVE Ownership'
  BY <1>4 DEF ClientStep, SendDirect, FindNoProxy, QueueMessage
<1>5. CASE CleanerStep
  BY <1>5 DEF CleanerStep, SnapshotKeys, LoadActive, MarkStale
<1>6. CASE AdminStep
  BY <1>6 DEF AdminStep, ForceRemoveGeneration, ForceRemoveSender, DeleteSession
<1>7. CASE UNCHANGED vars
  BY <1>7 DEF vars
<1> QED BY <1>1, <1>2, <1>3, <1>4, <1>5, <1>6, <1>7 DEF Next, SocketStep

LEMMA OwnershipEmpties == TypeOK /\ Ownership => EmptyWhenAllGone
<1> SUFFICES ASSUME TypeOK, Ownership,
                    \A c \in Conns : pc[c] \in {"new", "abort", "done"}
             PROVE  sessions = 0 \/ admin = "rmsender"
  BY DEF EmptyWhenAllGone
<1>1. connection_gen = 0
  BY DEF Ownership, OwnerLives, Owning
<1>2. ~ \E d \in Conns : pc[d] \in {"rmgen", "rmsender"}
  OBVIOUS
<1>3. sessions # 0 => sessions \in Conns
  BY SessionRegistryAssumption DEF TypeOK, Conns
<1> QED BY <1>1, <1>2, <1>3 DEF Ownership, RemoverLives

-----------------------------------------------------------------------------
(* What the channels and the queue hold.                                    *)

\* Delivery reads only these.
LEMMA DeliveryFrame ==
  ASSUME Delivery, UNCHANGED <<sessions, pending, pc, chan, sent>>
  PROVE  Delivery'
BY DEF Delivery, SenderAfterReplay, OnlySent, WasSent, QueueOrder, ChannelOrder,
       DeliveredOnce

\* A step of a socket that leaves the queue and the channels alone.
LEMMA DeliveryMove ==
  ASSUME Delivery, UNCHANGED <<pending, chan, sent>>, SenderAfterReplay'
  PROVE  Delivery'
BY DEF Delivery, OnlySent, WasSent, QueueOrder, ChannelOrder, DeliveredOnce

\* A queue that lost its first messages.
LEMMA ShorterQueue ==
  ASSUME TypeOK, Delivery, NEW k \in 0..Len(pending),
         pending' = SubSeq(pending, k + 1, Len(pending)),
         UNCHANGED <<chan, sent>>, SenderAfterReplay'
  PROVE  Delivery'
<1>1. /\ pending' \in Seq(Message)
      /\ Len(pending') = Len(pending) - k
      /\ \A i \in 1..(Len(pending) - k) : pending'[i] = pending[i + k]
  BY SuffixProperties DEF TypeOK
<1>2. \A i \in DOMAIN pending' : i + k \in DOMAIN pending /\ pending'[i] = pending[i + k]
  BY <1>1 DEF TypeOK
<1>3. OnlySent'
  BY <1>2 DEF Delivery, OnlySent, WasSent
<1>4. QueueOrder'
  <2> SUFFICES ASSUME NEW i \in DOMAIN pending', NEW j \in DOMAIN pending',
                      i < j, pending'[i].from = pending'[j].from
               PROVE  pending'[i].n < pending'[j].n
    BY DEF QueueOrder
  <2>1. i + k < j + k
    BY <1>1 DEF TypeOK
  <2> QED BY <1>2, <2>1 DEF Delivery, QueueOrder
<1>5. ChannelOrder' /\ DeliveredOnce'
  BY <1>2 DEF Delivery, ChannelOrder, DeliveredOnce
<1> QED BY <1>3, <1>4, <1>5 DEF Delivery

\* The queue moves to a channel that was empty.
LEMMA QueueReplayed ==
  ASSUME TypeOK, Delivery, NEW c \in Conns, chan[c] = <<>>,
         NEW k \in 0..Len(pending),
         chan' = [chan EXCEPT ![c] = @ \o SubSeq(pending, k + 1, Len(pending))],
         pending' = <<>>, UNCHANGED sent, SenderAfterReplay'
  PROVE  Delivery'
<1> DEFINE r == SubSeq(pending, k + 1, Len(pending))
<1>1. /\ r \in Seq(Message)
      /\ Len(r) = Len(pending) - k
      /\ \A i \in 1..(Len(pending) - k) : r[i] = pending[i + k]
  BY SuffixProperties DEF TypeOK
<1>2. chan' = [chan EXCEPT ![c] = r]
  <2> HIDE DEF r
  <2>1. chan[c] \o r = r
    BY <1>1
  <2> QED BY <2>1 DEF r
<1> HIDE DEF r
<1>3. \A i \in DOMAIN r : i + k \in DOMAIN pending /\ r[i] = pending[i + k]
  BY <1>1 DEF TypeOK
<1>4. /\ chan'[c] = r
      /\ \A d \in Conns \ {c} : chan'[d] = chan[d]
  BY <1>2 DEF TypeOK
<1>5. DOMAIN pending' = {}
  OBVIOUS
<1>6. \A i, j \in DOMAIN r : i < j => i + k < j + k
  BY <1>1 DEF TypeOK
<1>7. OnlySent'
  BY <1>3, <1>4, <1>5 DEF Delivery, OnlySent, WasSent
<1>8. ChannelOrder'
  <2>1. \A i, j \in DOMAIN r :
          i < j /\ r[i].from = r[j].from => r[i].n < r[j].n
    BY <1>3, <1>6 DEF Delivery, QueueOrder
  <2> SUFFICES ASSUME NEW d \in Conns, NEW i \in DOMAIN chan'[d],
                      NEW j \in DOMAIN chan'[d],
                      i < j, chan'[d][i].from = chan'[d][j].from
               PROVE  chan'[d][i].n < chan'[d][j].n
    BY DEF ChannelOrder
  <2>2. CASE d = c
    BY <1>4, <2>1, <2>2
  <2>3. CASE d # c
    BY <1>4, <2>3 DEF Delivery, ChannelOrder
  <2> QED BY <2>2, <2>3
<1>9. \A i, j \in DOMAIN r : r[i] = r[j] => i = j
  <2> SUFFICES ASSUME NEW i \in DOMAIN r, NEW j \in DOMAIN r, r[i] = r[j], i # j
               PROVE  FALSE
    OBVIOUS
  <2>1. i < j \/ j < i
    BY <1>1 DEF TypeOK
  <2>2. r[i].n < r[j].n \/ r[j].n < r[i].n
    BY <2>1, <1>3, <1>6 DEF Delivery, QueueOrder
  <2>3. r[i] \in Message
    BY <1>1
  <2>4. r[i].n \in Nat
    BY <2>3 DEF Message
  <2> QED BY <2>2, <2>4
<1>10. \A d \in Conns \ {c} : \A i \in DOMAIN r, j \in DOMAIN chan[d] :
         chan[d][j] # r[i]
  BY <1>3 DEF Delivery, DeliveredOnce
<1>11. DeliveredOnce'
  <2> SUFFICES ASSUME NEW d \in Conns, NEW e \in Conns,
                      NEW i \in DOMAIN chan'[d], NEW j \in DOMAIN chan'[e],
                      chan'[d][i] = chan'[e][j]
               PROVE  d = e /\ i = j
    BY <1>5 DEF DeliveredOnce
  <2>1. CASE d = c /\ e = c
    BY <1>4, <1>9, <2>1
  <2>2. CASE d = c /\ e # c
    BY <1>4, <1>10, <2>2
  <2>3. CASE d # c /\ e = c
    BY <1>4, <1>10, <2>3
  <2>4. CASE d # c /\ e # c
    BY <1>4, <2>4 DEF Delivery, DeliveredOnce
  <2> QED BY <2>1, <2>2, <2>3, <2>4
<1> QED BY <1>5, <1>7, <1>8, <1>11 DEF Delivery, QueueOrder

\* A client's next message has a number above those it sent.
LEMMA NextIsNew ==
  ASSUME TypeOK, NEW w \in Clients, NEW x, x = NextOf(w),
         sent' = [sent EXCEPT ![w] = @ + 1]
  PROVE  /\ x \in Message
         /\ x.n <= sent'[x.from]
         /\ \A m \in Message : WasSent(m) =>
              /\ m.n <= sent'[m.from]
              /\ m # x
              /\ m.from = x.from => m.n < x.n
<1>1. x = [from |-> w, n |-> sent[w] + 1] /\ sent[w] \in Nat
  BY DEF NextOf, TypeOK
<1>2. x \in Message /\ x.from = w /\ x.n = sent[w] + 1
  BY <1>1 DEF Message
<1>3. \A u \in Clients :
        /\ sent[u] \in Nat
        /\ sent'[u] = IF u = w THEN sent[w] + 1 ELSE sent[u]
  BY DEF TypeOK
<1>4. \A m \in Message : m.from \in Clients /\ m.n \in Nat
  BY DEF Message
<1>5. ASSUME NEW m \in Message, WasSent(m)
      PROVE  /\ m.n <= sent'[m.from]
             /\ m # x
             /\ m.from = x.from => m.n < x.n
  <2>1. m.from \in Clients /\ m.n \in Nat /\ m.n <= sent[m.from]
    BY <1>4, <1>5 DEF WasSent
  <2>2. m.n <= sent'[m.from]
    BY <1>3, <2>1
  <2>3. m.from = x.from => m.n < x.n
    BY <1>2, <1>3, <2>1
  <2>4. m # x
    BY <1>2, <2>1, <2>3
  <2> QED BY <2>2, <2>3, <2>4
<1> QED BY <1>2, <1>3, <1>5

\* The messages of the channels and of the queue are messages.
LEMMA Contents ==
  ASSUME TypeOK
  PROVE  /\ \A c \in Conns : \A i \in DOMAIN chan[c] : chan[c][i] \in Message
         /\ \A i \in DOMAIN pending : pending[i] \in Message
BY DEF TypeOK

\* A message handed to the registered socket.
LEMMA DirectStep ==
  ASSUME TypeOK, Delivery, NEW w \in Clients, SendDirect(w)
  PROVE  Delivery'
<1> DEFINE x == NextOf(w)
           s == sessions
           old == chan[s]
           len == Len(old)
<1>1. s \in Conns /\ old \in Seq(Message) /\ len \in Nat
  BY SessionRegistryAssumption DEF SendDirect, TypeOK, Conns
<1>2. /\ chan' = [chan EXCEPT ![s] = Append(old, x)]
      /\ sent' = [sent EXCEPT ![w] = @ + 1]
      /\ UNCHANGED <<sessions, pending, pc>>
  BY DEF SendDirect, maps
<1>3. /\ x \in Message
      /\ x.n <= sent'[x.from]
      /\ \A m \in Message : WasSent(m) =>
           /\ m.n <= sent'[m.from]
           /\ m # x
           /\ m.from = x.from => m.n < x.n
  BY <1>2, NextIsNew
<1> HIDE DEF x
<1>4. /\ DOMAIN chan'[s] = 1..(len + 1)
      /\ \A i \in DOMAIN old : i \in 1..len /\ chan'[s][i] = old[i]
      /\ chan'[s][len + 1] = x
      /\ DOMAIN old = 1..len
  BY <1>1, <1>2, <1>3 DEF TypeOK
<1>5. \A d \in Conns \ {s} : chan'[d] = chan[d]
  BY <1>2 DEF TypeOK
<1>6. \A i \in DOMAIN chan'[s] : i \in DOMAIN old \/ i = len + 1
  BY <1>1, <1>4
<1>7. \A d \in Conns : \A i \in DOMAIN chan[d] :
        /\ chan[d][i] \in Message
        /\ WasSent(chan[d][i])
  BY Contents DEF Delivery, OnlySent
<1>8. \A i \in DOMAIN pending : pending[i] \in Message /\ WasSent(pending[i])
  BY Contents DEF Delivery, OnlySent
<1>9. SenderAfterReplay'
  <2> SUFFICES ASSUME NEW d \in Conns
               PROVE  /\ sessions = d =>
                           pc[d] \notin {"new", "replay", "forget", "gen", "sender"}
                      /\ pc[d] \in {"new", "replay"} => chan'[d] = <<>>
    BY <1>2 DEF SenderAfterReplay
  <2> QED BY <1>5 DEF Delivery, SenderAfterReplay
<1>10. OnlySent'
  <2>1. ASSUME NEW d \in Conns, NEW i \in DOMAIN chan'[d]
        PROVE  chan'[d][i].n <= sent'[chan'[d][i].from]
    <3>1. CASE d = s
      BY <1>3, <1>4, <1>6, <1>7, <1>1, <3>1
    <3>2. CASE d # s
      BY <1>3, <1>5, <1>7, <3>2
    <3> QED BY <3>1, <3>2
  <2>2. \A i \in DOMAIN pending' : pending'[i].n <= sent'[pending'[i].from]
    BY <1>2, <1>3, <1>8
  <2> QED BY <2>1, <2>2 DEF OnlySent, WasSent
<1>11. QueueOrder'
  BY <1>2 DEF Delivery, QueueOrder
<1>12. ChannelOrder'
  <2> SUFFICES ASSUME NEW d \in Conns, NEW i \in DOMAIN chan'[d],
                      NEW j \in DOMAIN chan'[d],
                      i < j, chan'[d][i].from = chan'[d][j].from
               PROVE  chan'[d][i].n < chan'[d][j].n
    BY DEF ChannelOrder
  <2>1. CASE d # s
    BY <1>5, <2>1 DEF Delivery, ChannelOrder
  <2>2. CASE d = s /\ j \in DOMAIN old
    <3>1. i \in DOMAIN old
      BY <1>1, <1>4, <1>6, <2>2
    <3> QED BY <1>1, <1>4, <2>2, <3>1 DEF Delivery, ChannelOrder
  <2>3. CASE d = s /\ j = len + 1
    <3>1. i \in DOMAIN old
      BY <1>1, <1>4, <1>6, <2>3
    <3>2. chan'[d][i] \in Message /\ WasSent(chan'[d][i]) /\ chan'[d][j] = x
      BY <1>1, <1>4, <1>7, <2>3, <3>1
    <3> QED BY <1>3, <3>2
  <2> QED BY <1>6, <2>1, <2>2, <2>3
<1>13. DeliveredOnce'
  <2>1. ASSUME NEW d \in Conns, NEW e \in Conns,
               NEW i \in DOMAIN chan'[d], NEW j \in DOMAIN chan'[e],
               chan'[d][i] = chan'[e][j]
        PROVE  d = e /\ i = j
    <3>1. ASSUME NEW f \in Conns, NEW k \in DOMAIN chan'[f]
          PROVE  \/ f = s /\ k = len + 1 /\ chan'[f][k] = x
                 \/ /\ k \in DOMAIN chan[f] /\ chan'[f][k] = chan[f][k]
                    /\ chan[f][k] # x
      <4>1. CASE f = s
        BY <1>1, <1>3, <1>4, <1>6, <1>7, <4>1
      <4>2. CASE f # s
        BY <1>3, <1>5, <1>7, <4>2
      <4> QED BY <4>1, <4>2
    <3>2. CASE chan'[d][i] = x
      <4>1. d = s /\ i = len + 1
        BY <2>1, <3>1, <3>2
      <4>2. e = s /\ j = len + 1
        BY <2>1, <3>1, <3>2
      <4> QED BY <4>1, <4>2
    <3>3. CASE chan'[d][i] # x
      BY <2>1, <3>1, <3>3 DEF Delivery, DeliveredOnce
    <3> QED BY <3>2, <3>3
  <2>2. ASSUME NEW d \in Conns, NEW i \in DOMAIN chan'[d], NEW j \in DOMAIN pending'
        PROVE  chan'[d][i] # pending'[j]
    <3>1. CASE d = s /\ i = len + 1
      <4>1. chan'[d][i] = x /\ pending'[j] = pending[j] /\ j \in DOMAIN pending
        BY <1>2, <1>4, <2>2, <3>1
      <4> QED BY <1>3, <1>8, <4>1
    <3>2. CASE d = s /\ i \in DOMAIN old
      BY <1>1, <1>2, <1>4, <3>2 DEF Delivery, DeliveredOnce
    <3>3. CASE d # s
      BY <1>2, <1>5, <3>3 DEF Delivery, DeliveredOnce
    <3> QED BY <1>6, <3>1, <3>2, <3>3
  <2> QED BY <2>1, <2>2 DEF DeliveredOnce
<1> QED BY <1>9, <1>10, <1>11, <1>12, <1>13 DEF Delivery

\* A message put at the end of the queue, which may lose its first ones.
LEMMA QueueStep ==
  ASSUME TypeOK, QueueBounded, Delivery, NEW w \in Clients, QueueMessage(w)
  PROVE  Delivery'
<1> DEFINE x == NextOf(w)
<1>1. PICK k \in 0..Len(pending) :
        /\ pending' \in Seq(Message)
        /\ Len(pending') = Len(pending) - k + 1
        /\ \A i \in 1..(Len(pending) - k) : pending'[i] = pending[i + k]
        /\ pending'[Len(pending) - k + 1] = x
  BY QueueShape
<1>2. /\ sent' = [sent EXCEPT ![w] = @ + 1]
      /\ UNCHANGED <<sessions, chan, pc>>
  BY DEF QueueMessage, sockets
<1>3. /\ x \in Message
      /\ x.n <= sent'[x.from]
      /\ \A m \in Message : WasSent(m) =>
           /\ m.n <= sent'[m.from]
           /\ m # x
           /\ m.from = x.from => m.n < x.n
  BY <1>2, NextIsNew
<1> HIDE DEF x
<1>4. Len(pending) \in Nat /\ DOMAIN pending = 1..Len(pending)
  BY DEF TypeOK
<1>5. \A i \in DOMAIN pending' :
        \/ i = Len(pending') /\ pending'[i] = x
        \/ i < Len(pending') /\ i + k \in DOMAIN pending /\ pending'[i] = pending[i + k]
  BY <1>1, <1>4
<1>6. \A d \in Conns : \A i \in DOMAIN chan[d] :
        chan[d][i] \in Message /\ WasSent(chan[d][i])
  BY Contents DEF Delivery, OnlySent
<1>7. \A i \in DOMAIN pending : pending[i] \in Message /\ WasSent(pending[i])
  BY Contents DEF Delivery, OnlySent
<1>8. SenderAfterReplay'
  BY <1>2 DEF Delivery, SenderAfterReplay
<1>9. OnlySent'
  <2>1. \A i \in DOMAIN pending' : pending'[i].n <= sent'[pending'[i].from]
    BY <1>3, <1>5, <1>7
  <2>2. \A d \in Conns : \A i \in DOMAIN chan'[d] :
          chan'[d][i].n <= sent'[chan'[d][i].from]
    BY <1>2, <1>3, <1>6
  <2> QED BY <2>1, <2>2 DEF OnlySent, WasSent
<1>10. QueueOrder'
  <2> SUFFICES ASSUME NEW i \in DOMAIN pending', NEW j \in DOMAIN pending',
                      i < j, pending'[i].from = pending'[j].from
               PROVE  pending'[i].n < pending'[j].n
    BY DEF QueueOrder
  <2>1. i < Len(pending') /\ i + k \in DOMAIN pending /\ pending'[i] = pending[i + k]
    BY <1>1, <1>5
  <2>2. CASE pending'[j] = x
    BY <1>3, <1>7, <2>1, <2>2
  <2>3. CASE j + k \in DOMAIN pending /\ pending'[j] = pending[j + k]
    <3>1. i + k < j + k
      BY <1>1
    <3> QED BY <2>1, <2>3, <3>1 DEF Delivery, QueueOrder
  <2> QED BY <1>5, <2>2, <2>3
<1>11. ChannelOrder'
  BY <1>2 DEF Delivery, ChannelOrder
<1>12. DeliveredOnce'
  <2>1. ASSUME NEW d \in Conns, NEW i \in DOMAIN chan[d], NEW j \in DOMAIN pending'
        PROVE  chan[d][i] # pending'[j]
    <3>1. CASE pending'[j] = x
      BY <1>3, <1>6, <3>1
    <3>2. CASE j + k \in DOMAIN pending /\ pending'[j] = pending[j + k]
      BY <3>2 DEF Delivery, DeliveredOnce
    <3> QED BY <1>5, <3>1, <3>2
  <2> QED BY <1>2, <2>1 DEF Delivery, DeliveredOnce
<1> QED BY <1>8, <1>9, <1>10, <1>11, <1>12 DEF Delivery

LEMMA DeliveryInit == Init => Delivery
BY DEF Init, Delivery, SenderAfterReplay, OnlySent, QueueOrder, ChannelOrder,
       DeliveredOnce, Conns

LEMMA DeliveryStep ==
  TypeOK /\ QueueBounded /\ Delivery /\ [Next]_vars => Delivery'
<1> SUFFICES ASSUME TypeOK, QueueBounded, Delivery, [Next]_vars PROVE Delivery'
  OBVIOUS
<1> USE DEF Goto, maps, clients, sockets, others
<1>0. pc \in [Conns -> {"new", "serving", "done"} \union Registering \union Leaving]
      /\ SenderAfterReplay
  BY DEF TypeOK, Delivery
<1>1. ASSUME NEW c \in Conns, ReplayPending(c) PROVE Delivery'
  <2>1. SenderAfterReplay'
    <3>1. pc' = [pc EXCEPT ![c] = "forget"] /\ pc[c] = "replay"
          /\ UNCHANGED sessions /\ \A d \in Conns \ {c} : chan'[d] = chan[d]
      BY <1>1, ReplayShape DEF ReplayPending, TypeOK
    <3> QED BY <1>0, <3>1 DEF SenderAfterReplay
  <2>2. chan[c] = <<>> /\ UNCHANGED sent
    BY <1>0, <1>1 DEF ReplayPending, SenderAfterReplay
  <2> QED BY <1>1, <2>1, <2>2, ReplayShape, ShorterQueue, QueueReplayed
<1>2. ASSUME NEW c \in Conns, ForgetQueue(c) PROVE Delivery'
  <2>1. SenderAfterReplay' /\ UNCHANGED <<chan, sent>>
    BY <1>0, <1>2 DEF ForgetQueue, SenderAfterReplay
  <2>2. Len(pending) \in 0..Len(pending)
        /\ pending' = SubSeq(pending, Len(pending) + 1, Len(pending))
    <3>1. pending \in Seq(Message) /\ Len(pending) \in Nat
      BY DEF TypeOK
    <3>2. SubSeq(pending, Len(pending) + 1, Len(pending)) = <<>>
      BY <3>1, SubSeqEmpty
    <3> QED BY <1>2, <3>1, <3>2 DEF ForgetQueue
  <2> QED BY <2>1, <2>2, ShorterQueue
<1>3. ASSUME NEW c \in Conns,
             \/ TakeGeneration(c) \/ InsertGeneration(c) \/ InsertSender(c)
             \/ MarkActive(c) \/ SocketEnds(c) \/ CleanupStep(c)
      PROVE  Delivery'
  <2>1. UNCHANGED <<pending, chan, sent>>
    BY <1>3 DEF TakeGeneration, InsertGeneration, InsertSender, MarkActive,
                SocketEnds, CleanupStep, CheckCurrent, MarkDisconnected,
                CompareGeneration, RemoveGeneration, RemoveSender, AbortSendTask
  <2>2. SenderAfterReplay'
    <3>1. CASE TakeGeneration(c)
      BY <1>0, <3>1 DEF TakeGeneration, SenderAfterReplay
    <3>2. CASE InsertGeneration(c) \/ MarkActive(c) \/ SocketEnds(c)
      BY <1>0, <3>2 DEF InsertGeneration, MarkActive, SocketEnds, SenderAfterReplay
    <3>3. CASE InsertSender(c)
      BY <1>0, <3>3 DEF InsertSender, SenderAfterReplay
    <3>4. CASE CheckCurrent(c) \/ CompareGeneration(c)
      BY <1>0, <3>4 DEF CheckCurrent, CompareGeneration, SenderAfterReplay
    <3>5. CASE MarkDisconnected(c) \/ RemoveGeneration(c) \/ AbortSendTask(c)
      BY <1>0, <3>5 DEF MarkDisconnected, RemoveGeneration, AbortSendTask,
                        SenderAfterReplay
    <3>6. CASE RemoveSender(c)
      <4>1. \A d \in Conns : d # 0
        BY DEF Conns
      <4> QED BY <1>0, <3>6, <4>1 DEF RemoveSender, SenderAfterReplay
    <3> QED BY <1>3, <3>1, <3>2, <3>3, <3>4, <3>5, <3>6 DEF CleanupStep
  <2> QED BY <2>1, <2>2, DeliveryMove
<1>4. ASSUME NEW c \in Conns, SendTaskStops(c) PROVE Delivery'
  BY <1>4, DeliveryFrame DEF SendTaskStops
<1>5. ASSUME NEW w \in Clients, ClientStep(w) PROVE Delivery'
  <2>1. CASE FindNoProxy(w)
    BY <2>1, DeliveryFrame DEF FindNoProxy
  <2> QED BY <1>5, <2>1, DirectStep, QueueStep DEF ClientStep
<1>6. CASE CleanerStep
  BY <1>6, DeliveryFrame DEF CleanerStep, SnapshotKeys, LoadActive, MarkStale
<1>7. CASE AdminStep
  <2>1. UNCHANGED <<pending, chan, sent>>
    BY <1>7 DEF AdminStep, ForceRemoveGeneration, ForceRemoveSender, DeleteSession
  <2>2. SenderAfterReplay'
    <3>1. \A d \in Conns : d # 0
      BY DEF Conns
    <3> QED BY <1>0, <1>7, <3>1 DEF AdminStep, ForceRemoveGeneration,
               ForceRemoveSender, DeleteSession, SenderAfterReplay
  <2> QED BY <2>1, <2>2, DeliveryMove
<1>8. CASE UNCHANGED vars
  BY <1>8, DeliveryFrame DEF vars
<1> QED BY <1>1, <1>2, <1>3, <1>4, <1>5, <1>6, <1>7, <1>8
        DEF Next, SocketStep, RegisterStep

-----------------------------------------------------------------------------
(* The theorems.                                                            *)

LEMMA IInvInit == Init => IInv
<1>1. Init => QueueBounded
  BY SessionRegistryAssumption DEF Init, QueueBounded
<1> QED BY <1>1, TypeInit, OwnershipInit, DeliveryInit DEF IInv

LEMMA IInvStep == IInv /\ [Next]_vars => IInv'
BY TypeStep, BoundStep, OwnershipStep, DeliveryStep DEF IInv

\* Every variable keeps its type, for any number of sockets and clients.
THEOREM TypeCorrect == Spec => []TypeOK
<1>1. IInv => TypeOK
  BY DEF IInv
<1> QED BY <1>1, IInvInit, IInvStep, PTL DEF Spec

\* However registrations, cleanups and an administrator's removal interleave,
\* when all sockets are gone none of them is registered.
THEOREM NobodyLeftBehind == Spec => []EmptyWhenAllGone
<1>1. IInv => EmptyWhenAllGone
  BY OwnershipEmpties DEF IInv
<1> QED BY <1>1, IInvInit, IInvStep, PTL DEF Spec

\* A socket gets the messages of each client in the order of sending, those that
\* waited in the queue before those that were sent to it.
THEOREM Ordered == Spec => []ChannelOrder
<1>1. IInv => ChannelOrder
  BY DEF IInv, Delivery
<1> QED BY <1>1, IInvInit, IInvStep, PTL DEF Spec

\* However the queue is replayed while clients send and sockets replace each other,
\* no message is in two places of the sockets' channels and of the queue, and none
\* is twice in one.
THEOREM OnceAtMost == Spec => []DeliveredOnce
<1>1. IInv => DeliveredOnce
  BY DEF IInv, Delivery
<1> QED BY <1>1, IInvInit, IInvStep, PTL DEF Spec

\* The queue stays within its limit.
THEOREM QueueStaysBounded == Spec => []QueueBounded
<1>1. IInv => QueueBounded
  BY DEF IInv
<1> QED BY <1>1, IInvInit, IInvStep, PTL DEF Spec
=============================================================================
