------------------------ MODULE OutputDeliveryProofs ------------------------
(***************************************************************************)
(* Theorems about OutputDelivery.                                          *)
(***************************************************************************)
EXTENDS OutputDeliveryInv, FiniteSetTheorems, SequenceTheorems, TLAPS

-----------------------------------------------------------------------------
(* Type correctness.                                                        *)

LEMMA TypeInit == Init => TypeOK
BY OutputDeliveryAssumption
   DEF Init, TypeOK, FreshBuffer, Buffer, NoMsg, Msg, Conns

LEMMA PushType ==
  ASSUME TypeOK, NEW i \in Nat, Push(i)
  PROVE  /\ NextMsg(i) \in Msg
         /\ buf' \in Buffer
         /\ pushed' \subseteq Msg
         /\ overflowed' \subseteq Msg
<1> DEFINE grown == buf.pending \union {NextMsg(i)}
<1>1. /\ buf.next \in Nat /\ buf.ack \in Nat /\ buf.pending \subseteq Msg
      /\ buf = [next |-> buf.next, ack |-> buf.ack, pending |-> buf.pending]
  BY DEF TypeOK, Buffer
<1>2. NextMsg(i) \in Msg
  BY <1>1 DEF NextMsg, Msg
<1>3. Trimmed(grown) \subseteq grown /\ grown \subseteq Msg
  BY <1>1, <1>2 DEF Trimmed
<1>4. buf' = [next |-> buf.next + 1, ack |-> buf.ack,
              pending |-> grown \ Trimmed(grown)]
  BY <1>1 DEF Push
<1>5. buf' \in Buffer
  BY <1>1, <1>3, <1>4 DEF Buffer
<1> QED
  BY <1>2, <1>3, <1>5 DEF Push, TypeOK

LEMMA SendType ==
  ASSUME TypeOK, NEW m \in Msg, Send(m)
  PROVE  wire' \in [Conns -> Seq(Msg)]
<1>1. CASE cur \in Conns
  <2>1. Append(wire[cur], m) \in Seq(Msg)
    BY <1>1 DEF TypeOK
  <2> QED BY <1>1, <2>1 DEF TypeOK, Send
<1>2. CASE cur \notin Conns
  BY <1>2 DEF TypeOK, Send
<1> QED BY <1>1, <1>2

LEMMA SendAckType ==
  ASSUME TypeOK, NEW c \in Conns, NEW a \in Nat, SendAck(c, a)
  PROVE  acks' \in Seq(Nat)
BY DEF TypeOK, SendAck

LEMMA LeaveType ==
  ASSUME TypeOK, LeaveConnection
  PROVE  /\ chan' \in Seq(Nat)
         /\ fwd' \in [at : {"recv", "push", "send", "dead"}, m : Msg]
         /\ main' \in [at : {"select", "push", "send"}, m : Msg]
         /\ acks' \in Seq(Nat)
         /\ link' \in [Conns -> {"unused", "open", "cut"}]
         /\ wire' \in [Conns -> Seq(Msg)]
         /\ cur' \in 0..MaxConn
         /\ cursor' \in Nat
BY DEF TypeOK, LeaveConnection, NoMsg, Msg

LEMMA BackendType ==
  ASSUME TypeOK, NEW c \in Conns, BackendStep(c)
  PROVE  TypeOK'
<1> USE DEF proxyVars, networkVars, backendVars, history
<1>0. /\ hand[c] \in [at : {"idle", "store", "ack"}, m : Msg]
      /\ hand[c].m \in Msg
      /\ wire[c] \in Seq(Msg)
      /\ NoMsg \in Msg
  BY DEF TypeOK, NoMsg, Msg
<1>1. CASE BackendSkip(c)
  <2>1. Head(wire[c]) \in Msg /\ Tail(wire[c]) \in Seq(Msg)
    BY <1>0, <1>1 DEF BackendSkip
  <2>2. Head(wire[c]).seq \in Nat
    BY <2>1 DEF Msg
  <2>3. acks' \in Seq(Nat)
    BY <1>1, <2>2, SendAckType DEF BackendSkip
  <2> QED BY <1>1, <2>1, <2>3 DEF BackendSkip, TypeOK
<1>2. CASE BackendAccept(c)
  <2>1. Head(wire[c]) \in Msg /\ Tail(wire[c]) \in Seq(Msg)
    BY <1>0, <1>2 DEF BackendAccept
  <2> QED BY <1>2, <2>1 DEF BackendAccept, TypeOK
<1>3. CASE BackendStore(c)
  <2>1. Append(rows, hand[c].m) \in Seq(Msg)
    BY <1>0 DEF TypeOK
  <2> QED BY <1>0, <1>3, <2>1 DEF BackendStore, TypeOK
<1>4. CASE BackendStoreFails(c)
  BY <1>0, <1>4 DEF BackendStoreFails, TypeOK
<1>5. CASE BackendNoConnection(c)
  BY <1>0, <1>5 DEF BackendNoConnection, TypeOK
<1>6. CASE BackendAck(c)
  <2>1. hand[c].m.seq \in Nat
    BY <1>0 DEF Msg
  <2>2. acks' \in Seq(Nat)
    BY <1>6, <2>1, SendAckType DEF BackendAck
  <2> QED BY <1>0, <1>6, <2>1, <2>2 DEF BackendAck, TypeOK
<1>7. CASE BackendSocketEnds(c)
  BY <1>7 DEF BackendSocketEnds, TypeOK
<1> QED
  BY <1>1, <1>2, <1>3, <1>4, <1>5, <1>6, <1>7 DEF BackendStep

LEMMA ProxyType ==
  ASSUME TypeOK, ProxyStep
  PROVE  TypeOK'
<1> USE OutputDeliveryAssumption DEF proxyVars, networkVars, backendVars, history
<1>0. made + 1 \in Nat /\ NoMsg \in Msg
  BY DEF TypeOK, NoMsg, Msg
<1>1. CASE Connect
  BY <1>1 DEF Connect, TypeOK, Conns
<1>2. CASE ReplayNext
  <2>1. PICK m \in Unsent : Send(m) /\ cursor' = m.seq + 1
    BY <1>2 DEF ReplayNext
  <2>2. m \in Msg
    BY DEF Unsent, TypeOK, Buffer
  <2>3. cursor' \in Nat
    BY <2>1, <2>2 DEF Msg
  <2>4. wire' \in [Conns -> Seq(Msg)]
    BY <2>1, <2>2, SendType
  <2> QED BY <1>2, <2>3, <2>4 DEF ReplayNext, TypeOK
<1>3. CASE Announce
  <2>1. Push(made + 1) /\ Send(NextMsg(made + 1))
    BY <1>3 DEF Announce
  <2>2. wire' \in [Conns -> Seq(Msg)]
    BY <1>0, <2>1, PushType, SendType
  <2> QED BY <1>0, <1>3, <2>1, <2>2, PushType DEF Announce, TypeOK
<1>4. CASE ClaudeOutput
  <2>1. Append(chan, made + 1) \in Seq(Nat)
    BY <1>0 DEF TypeOK
  <2> QED BY <1>0, <1>4, <2>1 DEF ClaudeOutput, TypeOK
<1>5. CASE WiggumPush
  <2>1. Push(made + 1) /\ main' = [at |-> "send", m |-> NextMsg(made + 1)]
    BY <1>5 DEF WiggumPush
  <2> QED BY <1>0, <1>5, <2>1, PushType DEF WiggumPush, TypeOK
<1>6. CASE RawOutput
  <2>1. Push(made + 1) /\ main' = [at |-> "send", m |-> NextMsg(made + 1)]
    BY <1>6 DEF RawOutput
  <2> QED BY <1>0, <1>6, <2>1, PushType DEF RawOutput, TypeOK
<1>7. CASE MainSend
  <2>1. main.m \in Msg
    BY DEF TypeOK
  <2>2. wire' \in [Conns -> Seq(Msg)]
    BY <1>7, <2>1, SendType DEF MainSend
  <2> QED BY <1>0, <1>7, <2>2 DEF MainSend, TypeOK
<1>8. CASE ForwarderTake
  <2>1. [seq |-> 0, item |-> Head(chan)] \in Msg /\ Tail(chan) \in Seq(Nat)
    BY <1>8 DEF ForwarderTake, TypeOK, Msg
  <2> QED BY <1>8, <2>1 DEF ForwarderTake, TypeOK
<1>9. CASE ForwarderPush
  <2>1. Push(fwd.m.item) /\ fwd' = [at |-> "send", m |-> NextMsg(fwd.m.item)]
    BY <1>9 DEF ForwarderPush
  <2>2. fwd.m.item \in Nat
    BY DEF TypeOK, Msg
  <2> QED BY <1>9, <2>1, <2>2, PushType DEF ForwarderPush, TypeOK
<1>10. CASE ForwarderSend
  <2>1. fwd.m \in Msg
    BY DEF TypeOK
  <2>2. wire' \in [Conns -> Seq(Msg)]
    BY <1>10, <2>1, SendType DEF ForwarderSend
  <2>3. [seq |-> 0, item |-> made + 1] \in Msg
    BY <1>0 DEF Msg
  <2> QED BY <1>0, <1>10, <2>2, <2>3 DEF ForwarderSend, TypeOK
<1>11. CASE ForwarderFails
  BY <1>0, <1>11 DEF ForwarderFails, TypeOK
<1>12. CASE ReceiveAck
  <2>1. Head(acks) \in Nat /\ Tail(acks) \in Seq(Nat)
    BY <1>12 DEF ReceiveAck, TypeOK
  <2>2. Acknowledged(buf, Head(acks)) \in Buffer
    BY <2>1 DEF Acknowledged, TypeOK, Buffer
  <2> QED BY <1>12, <2>1, <2>2 DEF ReceiveAck, TypeOK
<1>13. CASE Disconnect
  BY <1>13, LeaveType DEF Disconnect, TypeOK
<1>14. CASE OutputWithoutForwarder
  BY <1>0, <1>14, LeaveType DEF OutputWithoutForwarder, TypeOK
<1>15. CASE ProxyExit
  BY <1>15, LeaveType DEF ProxyExit, TypeOK
<1>16. CASE ProxyCrash
  BY <1>16, LeaveType DEF ProxyCrash, TypeOK
<1>17. CASE ProxyStart
  <2>1. Loaded(disk) \in Buffer
    BY DEF Loaded, TypeOK, Buffer
  <2> QED BY <1>17, <2>1 DEF ProxyStart, TypeOK
<1> QED
  BY <1>1, <1>2, <1>3, <1>4, <1>5, <1>6, <1>7, <1>8, <1>9, <1>10, <1>11,
     <1>12, <1>13, <1>14, <1>15, <1>16, <1>17 DEF ProxyStep

LEMMA TypeStep == TypeOK /\ [Next]_vars => TypeOK'
<1> SUFFICES ASSUME TypeOK, [Next]_vars PROVE TypeOK'
  OBVIOUS
<1> USE DEF proxyVars, networkVars, backendVars, history
<1>1. CASE LinkCut
  BY <1>1, OutputDeliveryAssumption DEF LinkCut, TypeOK
<1>2. CASE BackendRestart
  BY <1>2 DEF BackendRestart, TypeOK, NoMsg, Msg
<1>3. CASE UNCHANGED vars
  BY <1>3 DEF vars, TypeOK
<1> QED
  BY <1>1, <1>2, <1>3, ProxyType, BackendType DEF Next

\* Every variable keeps its type, whatever the bounds, the agent and the faults.
THEOREM TypeCorrect == Spec => []TypeOK
BY TypeInit, TypeStep, PTL DEF Spec

-----------------------------------------------------------------------------
(* The inductive invariant: the initial state, and the steps that neither   *)
(* push nor store.                                                          *)

LEMMA InvInit == Init => IInv
<1> SUFFICES ASSUME Init PROVE IInv
  OBVIOUS
<1> USE OutputDeliveryAssumption DEF Init
<1>1. TypeOK
  BY TypeInit
<1>2. Numbering /\ Persisted /\ OneSender /\ Covered /\ Kept
  BY DEF Numbering, Persisted, OneSender, Covered, Kept, Settled, FreshBuffer,
         NoMsg
<1>3. Gapless /\ Resent
  BY DEF Gapless, Resent, Below, NoMsg
<1> QED BY <1>1, <1>2, <1>3 DEF IInv

LEMMA Numbers ==
  ASSUME TypeOK
  PROVE  /\ \A m \in Msg : m.seq \in Nat /\ m.item \in Nat
         /\ \A m \in pushed : m \in Msg /\ m.seq \in Nat
         /\ \A m \in buf.pending : m \in Msg /\ m.seq \in Nat
         /\ buf.next \in Nat /\ buf.ack \in Nat /\ cursor \in Nat
         /\ made \in Nat /\ last_ack \in Nat
         /\ \A i \in DOMAIN acks : acks[i] \in Nat
BY DEF TypeOK, Msg, Buffer

\* Appending to and taking from a wire, seen as what is ahead of a position.
LEMMA Appended ==
  ASSUME NEW w \in Seq(Msg), NEW m \in Msg
  PROVE  /\ DOMAIN Append(w, m) = 1..(Len(w) + 1)
         /\ DOMAIN w = 1..Len(w) /\ Len(w) \in Nat
         /\ Append(w, m)[Len(w) + 1] = m
         /\ \A i \in 1..Len(w) : Append(w, m)[i] = w[i]
         /\ Len(Append(w, m)) = Len(w) + 1
         /\ Upto(Append(w, m), Len(w) + 1) = Upto(w, Len(w)) \union {m}
         /\ \A i \in 1..(Len(w) + 1) : Upto(Append(w, m), i - 1) = Upto(w, i - 1)
<1>1. /\ DOMAIN Append(w, m) = 1..(Len(w) + 1)
      /\ Len(Append(w, m)) = Len(w) + 1
      /\ DOMAIN w = 1..Len(w) /\ Len(w) \in Nat
      /\ Append(w, m)[Len(w) + 1] = m
      /\ \A i \in 1..Len(w) : Append(w, m)[i] = w[i]
  OBVIOUS
<1>2. Upto(Append(w, m), Len(w) + 1) = Upto(w, Len(w)) \union {m}
  BY <1>1 DEF Upto
<1>3. \A i \in 1..(Len(w) + 1) : Upto(Append(w, m), i - 1) = Upto(w, i - 1)
  BY <1>1 DEF Upto
<1> QED BY <1>1, <1>2, <1>3

LEMMA Taken ==
  ASSUME NEW w \in Seq(Msg), w # <<>>
  PROVE  /\ DOMAIN w = 1..Len(w) /\ Len(w) \in Nat \ {0}
         /\ Head(w) = w[1] /\ Head(w) \in Msg
         /\ \A i \in DOMAIN Tail(w) :
              /\ i \in Nat /\ i + 1 \in DOMAIN w /\ Tail(w)[i] = w[i + 1]
              /\ Upto(w, (i + 1) - 1) = {Head(w)} \union Upto(Tail(w), i - 1)
         /\ Upto(w, Len(w)) = {Head(w)} \union Upto(Tail(w), Len(Tail(w)))
<1>1. /\ DOMAIN w = 1..Len(w) /\ Len(w) \in Nat \ {0}
      /\ Head(w) = w[1] /\ Head(w) \in Msg
      /\ DOMAIN Tail(w) = 1..(Len(w) - 1)
      /\ Len(Tail(w)) = Len(w) - 1
      /\ \A i \in 1..(Len(w) - 1) : Tail(w)[i] = w[i + 1]
  OBVIOUS
<1>2. \A i \in 1..Len(w) : Upto(w, i) = {Head(w)} \union Upto(Tail(w), i - 1)
  <2> SUFFICES ASSUME NEW i \in 1..Len(w)
               PROVE  {w[j] : j \in 1..i}
                        = {Head(w)} \union {Tail(w)[j] : j \in 1..(i - 1)}
    BY DEF Upto
  <2>1. \A j \in 1..i : j = 1 \/ (j - 1 \in 1..(i - 1) /\ w[j] = Tail(w)[j - 1])
    BY <1>1
  <2>2. \A j \in 1..(i - 1) : j + 1 \in 1..i /\ Tail(w)[j] = w[j + 1]
    BY <1>1
  <2>3. 1 \in 1..i
    BY <1>1
  <2> QED BY <1>1, <2>1, <2>2, <2>3
<1>3. \A i \in DOMAIN Tail(w) : /\ i \in 1..Len(w) /\ (i + 1) - 1 = i
                               /\ i + 1 \in DOMAIN w
  BY <1>1
<1>4. Len(w) \in 1..Len(w)
  BY <1>1
<1> QED BY <1>1, <1>2, <1>3, <1>4

\* A send on the current connection keeps the wires free of gaps.
LEMMA SendKeeps ==
  ASSUME IInv, cur \in Conns, NEW m \in Msg, Send(m), hand' = hand, cur' = cur,
         link[cur] = "open" => Below(m.seq, Coming(cur))
  PROVE  /\ \A c \in Conns : \A i \in DOMAIN wire'[c] :
              /\ wire'[c][i] \in pushed \union {m}
              /\ Below(wire'[c][i].seq, Ahead(c, i)')
         /\ link[cur] = "open" => Coming(cur)' = Coming(cur) \union {m}
<1>0. \A c \in Conns : Storing(c)' = Storing(c)
  BY DEF Storing
<1>1. CASE link[cur] = "open"
  <2>1. wire[cur] \in Seq(Msg) /\ wire'[cur] = Append(wire[cur], m)
    BY <1>1 DEF Send, IInv, TypeOK
  <2>2. \A c \in Conns \ {cur} : wire'[c] = wire[c]
    BY <1>1 DEF Send, IInv, TypeOK
  <2>3. ASSUME NEW c \in Conns \ {cur}, NEW i \in DOMAIN wire'[c]
        PROVE  wire'[c][i] \in pushed /\ Below(wire'[c][i].seq, Ahead(c, i)')
    <3>1. Ahead(c, i)' = Ahead(c, i)
      BY <1>0, <2>2 DEF Ahead
    <3> QED BY <2>2, <3>1 DEF IInv, Numbering, Gapless
  <2>4. ASSUME NEW i \in DOMAIN wire'[cur]
        PROVE  /\ wire'[cur][i] \in pushed \union {m}
               /\ Below(wire'[cur][i].seq, Ahead(cur, i)')
    <3>0. i \in 1..(Len(wire[cur]) + 1)
      BY <2>1, Appended
    <3>1. Ahead(cur, i)' = Ahead(cur, i)
      BY <1>0, <2>1, <3>0, Appended DEF Ahead
    <3>2. CASE i \in 1..Len(wire[cur])
      BY <2>1, <3>1, <3>2, Appended DEF IInv, Numbering, Gapless
    <3>3. CASE i = Len(wire[cur]) + 1
      <4>1. wire'[cur][i] = m /\ i - 1 = Len(wire[cur])
        BY <2>1, <3>3, Appended
      <4>2. Ahead(cur, i) = Coming(cur)
        BY <4>1 DEF Ahead, Coming
      <4> QED BY <1>1, <3>1, <4>1, <4>2
    <3> QED BY <3>0, <3>2, <3>3, <2>1, Appended
  <2>5. Coming(cur)' = Coming(cur) \union {m}
    BY <1>0, <2>1, Appended DEF Coming
  <2> QED BY <1>1, <2>3, <2>4, <2>5
<1>2. CASE link[cur] # "open"
  <2>1. wire' = wire
    BY <1>2 DEF Send
  <2>2. \A c \in Conns : \A i \in DOMAIN wire[c] : Ahead(c, i)' = Ahead(c, i)
    BY <1>0, <2>1 DEF Ahead
  <2> QED BY <1>2, <2>1, <2>2 DEF IInv, Numbering, Gapless
<1> QED BY <1>1, <1>2

LEMMA ConnectInv ==
  ASSUME IInv, TypeOK', Connect
  PROVE  IInv'
<1> USE DEF Connect, backendVars, history
<1>0. Stored' = Stored
  BY DEF Stored
<1>1. Numbering'
  BY <1>0 DEF IInv, TypeOK, Numbering, Conns, Buffer
<1>2. Persisted' /\ OneSender'
  BY DEF IInv, Persisted, OneSender
<1>3. Covered' /\ Kept'
  BY <1>0 DEF IInv, Covered, Kept, Settled
<1>4. Gapless'
  BY <1>0 DEF IInv, Gapless, Settled, Below, Ahead, Storing
<1>5. Resent'
  <2>1. mode' = "replay" /\ cursor' = 0
    OBVIOUS
  <2>2. cur' \in Conns
    BY OutputDeliveryAssumption DEF IInv, TypeOK, Conns
  <2>3. \A m \in pushed' : m.seq \in Nat
    BY DEF TypeOK, Msg
  <2>4. \A m \in pushed' : ~(1 <= m.seq /\ m.seq < 0)
    BY <2>3
  <2>5. \A X : Below(0, X)'
    BY <2>4 DEF Below
  <2> QED BY <2>1, <2>2, <2>5 DEF Resent
<1> QED BY <1>1, <1>2, <1>3, <1>4, <1>5 DEF IInv

LEMMA ReplayNextInv ==
  ASSUME IInv, TypeOK', ReplayNext
  PROVE  IInv'
<1> USE DEF ReplayNext, backendVars, history
<1>0. Stored' = Stored
  BY DEF Stored
<1>1. PICK m \in Unsent : IsOldest(m, Unsent) /\ Send(m) /\ cursor' = m.seq + 1
  OBVIOUS
<1>2. m \in pushed /\ m \in Msg /\ m.seq \in Nat /\ cur \in Conns
  BY DEF Unsent, IInv, Numbering, TypeOK, Resent, Msg
<1>4. link[cur] = "open" =>
        Below(m.seq, Coming(cur)) /\ Below(m.seq + 1, Coming(cur) \union {m})
  <2> SUFFICES ASSUME link[cur] = "open", NEW n \in pushed, 1 <= n.seq,
                      n.seq <= m.seq, n \notin Stored \union overflowed,
                      n # m
               PROVE  n \in Coming(cur) /\ n.seq < m.seq
    BY <1>2, Numbers DEF Below, IInv
  <2>1. n.seq # m.seq
    BY <1>2 DEF IInv, Numbering
  <2>2. n \in buf.pending
    BY DEF IInv, Kept
  <2>3. n.seq < cursor
    BY <2>1, <2>2, <1>1, <1>2, Numbers DEF Unsent, IsOldest, IInv
  <2>4. n.seq < m.seq
    BY <2>1, <1>2, Numbers DEF IInv
  <2> QED BY <2>3, <2>4 DEF IInv, Resent, Below
<1>5. Numbering'
  <2>1. m.seq + 1 <= buf.next
    BY <1>2, Numbers DEF IInv, Numbering
  <2> QED BY <1>1, <1>2, <1>4, <2>1, SendKeeps DEF IInv, Numbering
<1>7. Gapless'
  BY <1>0, <1>1, <1>2, <1>4, SendKeeps DEF IInv, Gapless, Settled, Below
<1>8. Resent'
  BY <1>0, <1>1, <1>2, <1>4, SendKeeps DEF IInv, Resent, Below
<1>6. Persisted' /\ OneSender' /\ Covered' /\ Kept'
  BY <1>0 DEF IInv, Persisted, OneSender, Covered, Kept, Settled
<1> QED BY <1>5, <1>6, <1>7, <1>8 DEF IInv

LEMMA ClaudeOutputInv ==
  ASSUME IInv, Reliable, TypeOK', ClaudeOutput
  PROVE  IInv'
<1> USE DEF ClaudeOutput, networkVars, backendVars, history
<1>0. Stored' = Stored /\ main' = main
  BY DEF Stored, Reliable
<1>1. Numbering' /\ Persisted' /\ OneSender' /\ Covered' /\ Kept'
  BY <1>0 DEF IInv, Numbering, Persisted, OneSender, Covered, Kept, Settled
<1>2. Gapless' /\ Resent'
  BY <1>0 DEF IInv, Gapless, Resent, Settled, Below, Ahead, Storing, Coming,
              Unwritten
<1> QED BY <1>1, <1>2 DEF IInv

LEMMA ForwarderTakeInv ==
  ASSUME IInv, TypeOK', ForwarderTake
  PROVE  IInv'
<1> USE DEF ForwarderTake, networkVars, backendVars, history
<1>0. Stored' = Stored /\ Unwritten(fwd)' = Unwritten(fwd)
  BY DEF Stored, Unwritten
<1>1. Numbering' /\ Persisted' /\ OneSender' /\ Covered' /\ Kept'
  BY <1>0, OutputDeliveryAssumption
     DEF IInv, Numbering, Persisted, OneSender, Covered, Kept, Settled
<1>2. Gapless' /\ Resent'
  BY <1>0 DEF IInv, Gapless, Resent, Settled, Below, Ahead, Storing, Coming,
              Unwritten
<1> QED BY <1>1, <1>2 DEF IInv

LEMMA ForwarderFailsInv ==
  ASSUME IInv, TypeOK', ForwarderFails
  PROVE  IInv'
<1> USE DEF ForwarderFails, networkVars, backendVars, history
<1>0. Stored' = Stored
  BY DEF Stored
<1>1. Numbering' /\ Persisted' /\ OneSender' /\ Covered' /\ Kept'
  BY <1>0, OutputDeliveryAssumption
     DEF IInv, Numbering, Persisted, OneSender, Covered, Kept, Settled
<1>2. Gapless' /\ Resent'
  BY <1>0 DEF IInv, Gapless, Resent, Settled, Below, Ahead, Storing, Coming
<1> QED BY <1>1, <1>2 DEF IInv

LEMMA MainSendInv ==
  ASSUME IInv, TypeOK', MainSend
  PROVE  IInv'
<1> USE DEF MainSend, backendVars, history
<1> DEFINE m == main.m
<1>0. Stored' = Stored
  BY DEF Stored
<1>1. m \in pushed /\ m \in Msg /\ m.seq + 1 = buf.next /\ cur \in Conns
  BY DEF IInv, TypeOK, OneSender, Resent
<1>2. Unwritten(fwd) = {} /\ Unwritten(main) = {m} /\ Unwritten(main)' = {}
  BY OutputDeliveryAssumption DEF IInv, OneSender, Unwritten
<1>3. link[cur] = "open" => Below(m.seq, Coming(cur))
  <2> SUFFICES ASSUME link[cur] = "open", NEW n \in pushed, 1 <= n.seq,
                      n.seq < m.seq, n \notin Stored \union overflowed
               PROVE  n \in Coming(cur)
    BY DEF Below
  <2>1. n # m /\ n.seq < buf.next
    BY <1>1, Numbers DEF IInv
  <2> QED BY <1>2, <2>1 DEF IInv, Resent, Below
<1>4. Numbering'
  BY <1>0, <1>1, <1>3, SendKeeps DEF IInv, Numbering
<1>5. Persisted' /\ OneSender' /\ Covered' /\ Kept'
  BY <1>0 DEF IInv, Persisted, OneSender, Covered, Kept, Settled
<1>6. Gapless'
  BY <1>0, <1>1, <1>3, SendKeeps DEF IInv, Gapless, Settled, Below
<1>7. Resent'
  <2>1. link[cur] = "open" => Coming(cur)' = Coming(cur) \union {m}
    BY <1>1, <1>3, SendKeeps DEF IInv
  <2> QED BY <1>0, <1>2, <2>1 DEF IInv, Resent, Below
<1> QED BY <1>4, <1>5, <1>6, <1>7 DEF IInv

LEMMA ForwarderSendInv ==
  ASSUME IInv, TypeOK', ForwarderSend
  PROVE  IInv'
<1> USE DEF ForwarderSend, backendVars, history
<1> DEFINE m == fwd.m
<1>0. Stored' = Stored
  BY DEF Stored
<1>1. m \in pushed /\ m \in Msg /\ m.seq + 1 = buf.next /\ cur \in Conns
  BY DEF IInv, TypeOK, OneSender, Resent
<1>2. Unwritten(main) = {} /\ Unwritten(fwd) = {m} /\ Unwritten(fwd)' = {}
  BY OutputDeliveryAssumption DEF IInv, OneSender, Unwritten
<1>3. link[cur] = "open" => Below(m.seq, Coming(cur))
  <2> SUFFICES ASSUME link[cur] = "open", NEW n \in pushed, 1 <= n.seq,
                      n.seq < m.seq, n \notin Stored \union overflowed
               PROVE  n \in Coming(cur)
    BY DEF Below
  <2>1. n # m /\ n.seq < buf.next
    BY <1>1, Numbers DEF IInv
  <2> QED BY <1>2, <2>1 DEF IInv, Resent, Below
<1>4. Numbering'
  BY <1>0, <1>1, <1>3, SendKeeps DEF IInv, Numbering
<1>5. Persisted' /\ OneSender' /\ Covered' /\ Kept'
  BY <1>0, OutputDeliveryAssumption
     DEF IInv, Persisted, OneSender, Covered, Kept, Settled
<1>6. Gapless'
  BY <1>0, <1>1, <1>3, SendKeeps DEF IInv, Gapless, Settled, Below
<1>7. Resent'
  <2>1. link[cur] = "open" => Coming(cur)' = Coming(cur) \union {m}
    BY <1>1, <1>3, SendKeeps DEF IInv
  <2>2. Unwritten(main)' = {}
    BY <1>2 DEF Unwritten
  <2> QED BY <1>0, <1>2, <2>1, <2>2 DEF IInv, Resent, Below
<1> QED BY <1>4, <1>5, <1>6, <1>7 DEF IInv

LEMMA ReceiveAckInv ==
  ASSUME IInv, TypeOK', ReceiveAck
  PROVE  IInv'
<1> USE DEF ReceiveAck, backendVars, history
<1> DEFINE a == Head(acks)
<1>0. Stored' = Stored
  BY DEF Stored
<1>1. /\ 1 \in DOMAIN acks /\ a = acks[1] /\ a \in Nat
      /\ \A i \in DOMAIN acks' : i + 1 \in DOMAIN acks /\ acks'[i] = acks[i + 1]
  BY DEF IInv, TypeOK
<1>2. /\ buf'.next = buf.next
      /\ buf'.ack \in {buf.ack, a}
      /\ buf'.pending \subseteq buf.pending
      /\ \A m \in buf.pending \ buf'.pending : m.seq <= a
  <2>1. /\ buf = [next |-> buf.next, ack |-> buf.ack, pending |-> buf.pending]
        /\ \A m \in buf.pending : m.seq \in Nat
    BY Numbers DEF IInv, TypeOK, Buffer
  <2>2. CASE a <= buf.ack
    BY <2>2 DEF Acknowledged
  <2>3. CASE ~(a <= buf.ack)
    <3>1. buf' = [next |-> buf.next, ack |-> a,
                  pending |-> {m \in buf.pending : m.seq > a}]
      BY <2>1, <2>3 DEF Acknowledged
    <3> QED BY <1>1, <2>1, <3>1
  <2> QED BY <2>2, <2>3
<1>3. Settled(a) /\ a < buf.next
  BY <1>1 DEF IInv, Covered, Numbering
<1>4. Numbering' /\ Covered'
  BY <1>0, <1>1, <1>2, <1>3 DEF IInv, Numbering, Covered, Settled
<1>5. Persisted' /\ OneSender'
  BY <1>2 DEF IInv, Persisted, OneSender, Selecting
<1>6. Kept'
  BY <1>0, <1>2, <1>3 DEF IInv, Kept, Settled
<1>7. Gapless' /\ Resent'
  BY <1>0, <1>2 DEF IInv, Gapless, Resent, Settled, Below, Ahead, Storing,
                    Coming, Unwritten
<1> QED BY <1>4, <1>5, <1>6, <1>7 DEF IInv

\* What leaving a connection keeps, whether or not the proxy goes down.
LEMMA LeaveInv ==
  ASSUME IInv, TypeOK', LeaveConnection,
         mode' \in {"down", "backoff"}, buf' = buf, disk' = buf,
         UNCHANGED <<backendVars, history>>
  PROVE  IInv'
<1> USE DEF LeaveConnection, backendVars, history
<1>0. Stored' = Stored
  BY DEF Stored
<1>1. Numbering'
  BY <1>0 DEF IInv, Numbering
<1>2. Persisted' /\ OneSender' /\ Covered' /\ Kept'
  BY <1>0, OutputDeliveryAssumption
     DEF IInv, Persisted, OneSender, Covered, Kept, Settled
<1>3. Gapless' /\ Resent'
  BY <1>0 DEF IInv, Gapless, Resent, Settled, Below, Ahead, Storing
<1> QED BY <1>1, <1>2, <1>3 DEF IInv

LEMMA ProxyStartInv ==
  ASSUME IInv, TypeOK', ProxyStart
  PROVE  IInv'
<1> USE DEF ProxyStart, networkVars, backendVars, history
<1>0. Stored' = Stored
  BY DEF Stored
<1>1. /\ buf'.next = buf.next /\ buf'.ack = buf.ack
      /\ buf'.pending \subseteq buf.pending
      /\ \A m \in buf.pending \ buf'.pending : m.seq <= buf.ack
  BY Numbers DEF IInv, Persisted, TypeOK, Buffer, Loaded
<1>2. Numbering'
  BY <1>0, <1>1 DEF IInv, Numbering
<1>3. Persisted' /\ OneSender' /\ Covered'
  BY <1>0, <1>1, OutputDeliveryAssumption
     DEF IInv, Persisted, OneSender, Covered, Settled
<1>4. Kept'
  BY <1>0, <1>1 DEF IInv, Kept, Covered, Settled
<1>5. Gapless' /\ Resent'
  BY <1>0 DEF IInv, Gapless, Resent, Settled, Below, Ahead, Storing
<1> QED BY <1>2, <1>3, <1>4, <1>5 DEF IInv

LEMMA LinkCutInv ==
  ASSUME IInv, TypeOK', LinkCut
  PROVE  IInv'
<1> USE DEF LinkCut, proxyVars, backendVars, history
<1>0. Stored' = Stored
  BY DEF Stored
<1>1. Numbering' /\ Persisted' /\ OneSender' /\ Covered' /\ Kept'
  BY <1>0 DEF IInv, Numbering, Persisted, OneSender, Covered, Kept, Settled
<1>2. Gapless' /\ Resent'
  BY <1>0 DEF IInv, TypeOK, Gapless, Resent, Settled, Below, Ahead, Storing
<1> QED BY <1>1, <1>2 DEF IInv

-----------------------------------------------------------------------------
(* The backend's steps.                                                     *)

\* Taking the first message of a wire: nothing that matters came before it.
LEMMA HeadCovered ==
  ASSUME IInv, NEW c \in Conns, wire[c] # <<>>, hand[c].at = "idle"
  PROVE  /\ wire[c] \in Seq(Msg)
         /\ Head(wire[c]) \in pushed /\ Head(wire[c]) \in Msg
         /\ Below(Head(wire[c]).seq, {})
<1>1. wire[c] \in Seq(Msg)
  BY DEF IInv, TypeOK
<1>2. 1 \in DOMAIN wire[c] /\ Head(wire[c]) = wire[c][1] /\ Head(wire[c]) \in Msg
  BY <1>1, Taken
<1>3. Ahead(c, 1) = {}
  BY DEF Ahead, Storing, Upto
<1> QED BY <1>1, <1>2, <1>3 DEF IInv, Numbering, Gapless

LEMMA SendAckKeeps ==
  ASSUME IInv, NEW c \in Conns, NEW a \in Nat, SendAck(c, a),
         a < buf.next, Settled(a)
  PROVE  \A i \in DOMAIN acks' : acks'[i] < buf.next /\ Settled(acks'[i])
<1>1. acks \in Seq(Nat)
  BY DEF IInv, TypeOK
<1>2. ASSUME NEW i \in DOMAIN acks'
      PROVE  (i \in DOMAIN acks /\ acks'[i] = acks[i]) \/ acks'[i] = a
  BY <1>1 DEF SendAck
<1> QED BY <1>2 DEF IInv, Numbering, Covered

LEMMA BackendSkipInv ==
  ASSUME IInv, TypeOK', NEW c \in Conns, BackendSkip(c)
  PROVE  IInv'
<1> USE DEF BackendSkip, proxyVars, backendVars, history
<1> DEFINE m == Head(wire[c])
<1>0. Stored' = Stored
  BY DEF Stored
<1>1. wire[c] \in Seq(Msg) /\ m \in pushed /\ m \in Msg
  BY HeadCovered
<1>2. m.seq \in Nat /\ m.seq < buf.next /\ Settled(m.seq)
  BY <1>1, Numbers DEF IInv, Numbering, Covered, Settled
<1>3. \A i \in DOMAIN acks' : acks'[i] < buf.next /\ Settled(acks'[i])
  BY <1>2, SendAckKeeps
<1>4. \A d \in Conns \ {c} : wire'[d] = wire[d]
  BY DEF IInv, TypeOK
<1>5. /\ wire'[c] = Tail(wire[c])
      /\ Storing(c) = {} /\ Storing(c)' = {}
  BY DEF IInv, TypeOK, Storing
<1>6. ASSUME NEW i \in DOMAIN wire'[c]
      PROVE  /\ i + 1 \in DOMAIN wire[c] /\ wire'[c][i] = wire[c][i + 1]
             /\ Ahead(c, i + 1) = {m} \union Ahead(c, i)'
  <2>1. wire[c] # <<>> /\ i \in DOMAIN Tail(wire[c])
    BY <1>5
  <2>2. /\ i + 1 \in DOMAIN wire[c] /\ Tail(wire[c])[i] = wire[c][i + 1]
        /\ Upto(wire[c], (i + 1) - 1) = {m} \union Upto(Tail(wire[c]), i - 1)
    BY <1>1, <2>1, Taken
  <2>3. Upto(wire[c], i - 1)' = Upto(Tail(wire[c]), i - 1)
    BY <1>5 DEF Upto
  <2> QED BY <1>5, <2>2, <2>3 DEF Ahead
<1>7. Coming(c) = {m} \union Coming(c)'
  BY <1>1, <1>5, Taken DEF Coming
<1>8. m.seq = 0 \/ m \in Stored \union overflowed
  BY <1>1, <1>2 DEF Settled
<1>9. Numbering'
  BY <1>3, <1>4, <1>6 DEF IInv, Numbering
<1>10. Persisted' /\ OneSender' /\ Covered' /\ Kept'
  BY <1>0, <1>3 DEF IInv, Persisted, OneSender, Covered, Kept, Settled
<1>11. Gapless'
  <2>1. ASSUME NEW d \in Conns, NEW i \in DOMAIN wire'[d], d # c
        PROVE  Below(wire'[d][i].seq, Ahead(d, i))
    BY <1>4, <2>1 DEF IInv, Gapless
  <2>2. \A d \in Conns \ {c} : \A i \in DOMAIN wire'[d] : Ahead(d, i)' = Ahead(d, i)
    BY <1>4 DEF Ahead, Storing
  <2>3. ASSUME NEW i \in DOMAIN wire'[c]
        PROVE  Below(wire'[c][i].seq, Ahead(c, i)')
    BY <1>6, <1>8 DEF IInv, Gapless, Below
  <2>4. \A d \in Conns : \A i \in DOMAIN wire'[d] : Below(wire'[d][i].seq, Ahead(d, i)')
    BY <2>1, <2>2, <2>3
  <2> QED BY <1>0, <2>4 DEF IInv, Gapless, Settled, Below
<1>12. Resent'
  <2>1. cur # c /\ cur \in Conns => Coming(cur)' = Coming(cur)
    BY <1>4 DEF Coming, Storing
  <2> QED BY <1>0, <1>7, <1>8, <2>1 DEF IInv, Resent, Below, Unwritten
<1> QED BY <1>9, <1>10, <1>11, <1>12 DEF IInv

LEMMA BackendAcceptInv ==
  ASSUME IInv, TypeOK', NEW c \in Conns, BackendAccept(c)
  PROVE  IInv'
<1> USE DEF BackendAccept, proxyVars, history
<1> DEFINE m == Head(wire[c])
<1>0. Stored' = Stored
  BY DEF Stored
<1>1. wire[c] \in Seq(Msg) /\ m \in pushed /\ m \in Msg /\ Below(m.seq, {})
  BY HeadCovered
<1>4. \A d \in Conns \ {c} : wire'[d] = wire[d] /\ hand'[d] = hand[d]
  BY DEF IInv, TypeOK
<1>5. /\ wire'[c] = Tail(wire[c]) /\ hand'[c] = [at |-> "store", m |-> m]
      /\ Storing(c) = {} /\ Storing(c)' = {m}
  BY DEF IInv, TypeOK, Storing
<1>6. ASSUME NEW i \in DOMAIN wire'[c]
      PROVE  /\ i + 1 \in DOMAIN wire[c] /\ wire'[c][i] = wire[c][i + 1]
             /\ Ahead(c, i + 1) = Ahead(c, i)'
  <2>1. wire[c] # <<>> /\ i \in DOMAIN Tail(wire[c])
    BY <1>5
  <2>2. /\ i + 1 \in DOMAIN wire[c] /\ Tail(wire[c])[i] = wire[c][i + 1]
        /\ Upto(wire[c], (i + 1) - 1) = {m} \union Upto(Tail(wire[c]), i - 1)
    BY <1>1, <2>1, Taken
  <2>3. Upto(wire[c], i - 1)' = Upto(Tail(wire[c]), i - 1)
    BY <1>5 DEF Upto
  <2> QED BY <1>5, <2>2, <2>3 DEF Ahead
<1>7. Coming(c) = Coming(c)'
  BY <1>1, <1>5, Taken DEF Coming
<1>9. Numbering'
  BY <1>1, <1>4, <1>5, <1>6 DEF IInv, Numbering
<1>10. Persisted' /\ OneSender' /\ Covered' /\ Kept'
  BY <1>0 DEF IInv, Persisted, OneSender, Covered, Kept, Settled
<1>11. Gapless'
  <2>1. ASSUME NEW d \in Conns, NEW i \in DOMAIN wire'[d], d # c
        PROVE  Below(wire'[d][i].seq, Ahead(d, i))
    BY <1>4, <2>1 DEF IInv, Gapless
  <2>2. \A d \in Conns \ {c} : \A i \in DOMAIN wire'[d] : Ahead(d, i)' = Ahead(d, i)
    BY <1>4 DEF Ahead, Storing
  <2>3. ASSUME NEW i \in DOMAIN wire'[c]
        PROVE  Below(wire'[c][i].seq, Ahead(c, i)')
    BY <1>6 DEF IInv, Gapless
  <2>4. \A d \in Conns : \A i \in DOMAIN wire'[d] : Below(wire'[d][i].seq, Ahead(d, i)')
    BY <2>1, <2>2, <2>3
  <2>5. \A d \in Conns : hand'[d].at = "store" => Below(hand'[d].m.seq, {})
    BY <1>1, <1>4, <1>5 DEF IInv, Gapless
  <2>6. \A d \in Conns : hand'[d].at = "ack" => Settled(hand'[d].m.seq)
    BY <1>4, <1>5 DEF IInv, Gapless
  <2> QED BY <1>0, <2>4, <2>5, <2>6 DEF Gapless, Settled, Below
<1>12. Resent'
  <2>1. cur # c /\ cur \in Conns => Coming(cur)' = Coming(cur)
    BY <1>4 DEF Coming, Storing
  <2> QED BY <1>0, <1>7, <2>1 DEF IInv, Resent, Below, Unwritten
<1> QED BY <1>9, <1>10, <1>11, <1>12 DEF IInv

LEMMA BackendStoreInv ==
  ASSUME IInv, TypeOK', NEW c \in Conns, BackendStore(c)
  PROVE  IInv'
<1> USE DEF BackendStore, proxyVars, networkVars, history
<1> DEFINE m == hand[c].m
<1>1. m \in pushed /\ m \in Msg /\ m.seq \in Nat /\ Below(m.seq, {})
  BY Numbers DEF IInv, Numbering, Gapless
<1>2. Stored' = Stored \union {m}
  <2>1. rows \in Seq(Msg) /\ rows' = Append(rows, m)
    BY DEF IInv, TypeOK
  <2>2. /\ DOMAIN rows' = 1..(Len(rows) + 1) /\ DOMAIN rows = 1..Len(rows)
        /\ {Append(rows, m)[j] : j \in 1..(Len(rows) + 1)}
             = {rows[j] : j \in 1..Len(rows)} \union {m}
    BY <1>1, <2>1, Appended
  <2> QED BY <2>1, <2>2 DEF Stored
<1>3. \A d \in Conns \ {c} : hand'[d] = hand[d]
  BY DEF IInv, TypeOK
<1>4. /\ hand'[c].at = "ack" /\ hand'[c].m = m
      /\ Storing(c) = {m} /\ Storing(c)' = {}
  BY DEF IInv, TypeOK, Storing
<1>5. \A d \in Conns, i \in Nat : Ahead(d, i) \subseteq Ahead(d, i)' \union {m}
  BY <1>3, <1>4 DEF Ahead, Storing
<1>6. \A d \in Conns : Coming(d) \subseteq Coming(d)' \union {m}
  BY <1>3, <1>4 DEF Coming, Storing
<1>7. (\A n \in pushed : 1 <= n.seq /\ n.seq <= m.seq
                           => n \in Stored \union overflowed \union {m})
  BY <1>1, Numbers DEF IInv, Numbering, Below
<1>8. Numbering'
  BY <1>3, <1>4 DEF IInv, Numbering
<1>9. Persisted' /\ OneSender' /\ Covered' /\ Kept'
  BY <1>2 DEF IInv, Persisted, OneSender, Covered, Kept, Settled
<1>10. Gapless'
  <2>1. \A d \in Conns : \A i \in DOMAIN wire[d] : i \in Nat
    BY DEF IInv, TypeOK
  <2>2. \A d \in Conns : \A i \in DOMAIN wire[d] : Below(wire[d][i].seq, Ahead(d, i))'
    <3> SUFFICES ASSUME NEW d \in Conns, NEW i \in DOMAIN wire[d], NEW n \in pushed,
                        1 <= n.seq, n.seq < wire[d][i].seq
                 PROVE  n \in Stored' \union overflowed \union Ahead(d, i)'
      BY SMT DEF Below
    <3>1. n \in Stored \union overflowed \union Ahead(d, i)
      BY DEF IInv, Gapless, Below
    <3>2. Ahead(d, i) \subseteq Ahead(d, i)' \union {m}
      BY <1>5, <2>1
    <3> QED BY <1>2, <3>1, <3>2
  <2>3. \A d \in Conns : hand'[d].at = "store" => Below(hand[d].m.seq, {})'
    <3> SUFFICES ASSUME NEW d \in Conns, hand'[d].at = "store", NEW n \in pushed,
                        1 <= n.seq, n.seq < hand'[d].m.seq
                 PROVE  n \in Stored' \union overflowed
      BY DEF Below
    <3>1. hand'[d] = hand[d]
      BY <1>3, <1>4
    <3>2. n \in Stored \union overflowed
      BY <3>1 DEF IInv, Gapless, Below
    <3> QED BY <1>2, <3>2
  <2>4. \A d \in Conns : hand'[d].at = "ack" => Settled(hand[d].m.seq)'
    BY <1>2, <1>3, <1>4, <1>7 DEF IInv, Gapless, Settled
  <2> QED BY <2>2, <2>3, <2>4 DEF Gapless
<1>11. Resent'
  BY <1>2, <1>6 DEF IInv, Resent, Below, Unwritten
<1> QED BY <1>8, <1>9, <1>10, <1>11 DEF IInv

LEMMA BackendAckInv ==
  ASSUME IInv, TypeOK', NEW c \in Conns, BackendAck(c)
  PROVE  IInv'
<1> USE DEF BackendAck, proxyVars, history
<1> DEFINE m == hand[c].m
<1>0. Stored' = Stored
  BY DEF Stored
<1>1. m \in pushed /\ m.seq \in Nat /\ m.seq < buf.next /\ Settled(m.seq)
  BY Numbers DEF IInv, Numbering, Gapless
<1>2. \A i \in DOMAIN acks' : acks'[i] < buf.next /\ Settled(acks'[i])
  BY <1>1, SendAckKeeps
<1>3. \A d \in Conns \ {c} : hand'[d] = hand[d]
  BY DEF IInv, TypeOK
<1>4. hand'[c].at = "idle"
  BY DEF IInv, TypeOK
<1>5. \A d \in Conns : Storing(d)' = Storing(d)
  BY <1>3, <1>4 DEF Storing
<1>6. last_ack' = 0 \/ last_ack' < buf.next
  BY <1>1 DEF IInv, Numbering
<1>7. Settled(last_ack')
  BY <1>1 DEF IInv, Covered
<1>8. Numbering'
  BY <1>2, <1>3, <1>4, <1>6 DEF IInv, Numbering
<1>9. Persisted' /\ OneSender' /\ Covered' /\ Kept'
  BY <1>0, <1>2, <1>7 DEF IInv, Persisted, OneSender, Covered, Kept, Settled
<1>10. Gapless'
  BY <1>0, <1>3, <1>4, <1>5 DEF IInv, Gapless, Settled, Below, Ahead
<1>11. Resent'
  BY <1>0, <1>5 DEF IInv, Resent, Below, Unwritten, Coming
<1> QED BY <1>8, <1>9, <1>10, <1>11 DEF IInv

LEMMA BackendSocketEndsInv ==
  ASSUME IInv, TypeOK', NEW c \in Conns, BackendSocketEnds(c)
  PROVE  IInv'
<1> USE DEF BackendSocketEnds, proxyVars, backendVars, history
<1>0. Stored' = Stored
  BY DEF Stored
<1>1. wire'[c] = <<>> /\ \A d \in Conns \ {c} : wire'[d] = wire[d]
  BY DEF IInv, TypeOK
<1>2. Numbering'
  BY <1>0, <1>1 DEF IInv, Numbering
<1>3. Persisted' /\ OneSender' /\ Covered' /\ Kept'
  BY <1>0 DEF IInv, Persisted, OneSender, Covered, Kept, Settled
<1>4. Gapless'
  BY <1>0, <1>1 DEF IInv, Gapless, Settled, Below, Ahead, Storing
<1>5. Resent'
  <2>1. cur # c /\ cur \in Conns => Coming(cur)' = Coming(cur)
    BY <1>1 DEF Coming, Storing
  <2> QED BY <1>0, <2>1 DEF IInv, Resent, Below, Unwritten
<1> QED BY <1>2, <1>3, <1>4, <1>5 DEF IInv

LEMMA BackendRestartInv ==
  ASSUME IInv, TypeOK', BackendRestart
  PROVE  IInv'
<1> USE DEF BackendRestart, proxyVars, history
<1>0. Stored' = Stored
  BY DEF Stored
<1>1. Numbering'
  BY <1>0 DEF IInv, Numbering
<1>2. Persisted' /\ OneSender' /\ Covered' /\ Kept'
  BY <1>0, Numbers DEF IInv, Persisted, OneSender, Covered, Kept, Settled
<1>3. Gapless'
  BY DEF Gapless
<1>4. Resent'
  BY DEF IInv, TypeOK, Resent
<1> QED BY <1>1, <1>2, <1>3, <1>4 DEF IInv

-----------------------------------------------------------------------------
(* The steps that push.                                                     *)

LEMMA PushKeeps ==
  ASSUME IInv, NEW i \in Nat, Push(i), rows' = rows
  PROVE  /\ NextMsg(i) \in Msg /\ NextMsg(i).seq = buf.next
         /\ pushed' = pushed \union {NextMsg(i)}
         /\ buf'.next = buf.next + 1 /\ buf'.ack = buf.ack
         /\ buf'.pending \subseteq pushed'
         /\ Stored' = Stored
         /\ \A m, n \in pushed' : m.seq = n.seq => m = n
         /\ \A m \in pushed' : m.seq < buf'.next
         /\ Kept'
         /\ \A s \in Nat : \A X :
              s <= buf.next /\ Below(s, X) =>
                \A n \in pushed' : 1 <= n.seq /\ n.seq < s =>
                  n \in Stored' \union overflowed' \union X
         /\ \A s \in Nat :
              (s = 0 \/ s < buf.next) /\ Settled(s) =>
                \A n \in pushed' : 1 <= n.seq /\ n.seq <= s =>
                  n \in Stored' \union overflowed'
<1> DEFINE m == NextMsg(i)
           grown == buf.pending \union {m}
<1>1. /\ buf = [next |-> buf.next, ack |-> buf.ack, pending |-> buf.pending]
      /\ buf.next \in Nat
  BY Numbers DEF IInv, TypeOK, Buffer
<1>2. m \in Msg /\ m.seq = buf.next
  BY <1>1 DEF NextMsg, Msg
<1>3. /\ buf'.next = buf.next + 1 /\ buf'.ack = buf.ack
      /\ buf'.pending = grown \ Trimmed(grown)
      /\ pushed' = pushed \union {m}
      /\ overflowed' = overflowed \union Trimmed(grown)
  BY <1>1 DEF Push
<1>4. Stored' = Stored
  BY DEF Stored
<1>5. buf'.pending \subseteq pushed'
  BY <1>3 DEF IInv, Numbering
<1>6. \A n \in pushed : n.seq \in Nat /\ n.seq < buf.next
  BY Numbers DEF IInv, Numbering
<1>7. /\ \A p, n \in pushed' : p.seq = n.seq => p = n
      /\ \A n \in pushed' : n.seq < buf'.next
  BY <1>1, <1>2, <1>3, <1>6 DEF IInv, Numbering
<1>8. Kept'
  BY <1>3, <1>4 DEF IInv, Kept
<1>9. ASSUME NEW s \in Nat, NEW X, s <= buf.next, Below(s, X),
             NEW n \in pushed', 1 <= n.seq, n.seq < s
      PROVE  n \in Stored' \union overflowed' \union X
  BY <1>1, <1>2, <1>3, <1>4, <1>6, <1>9 DEF Below
<1>10. ASSUME NEW s \in Nat, s = 0 \/ s < buf.next, Settled(s),
              NEW n \in pushed', 1 <= n.seq, n.seq <= s
       PROVE  n \in Stored' \union overflowed'
  BY <1>1, <1>2, <1>3, <1>4, <1>6, <1>10 DEF Settled
<1> QED BY <1>2, <1>3, <1>4, <1>5, <1>7, <1>8, <1>9, <1>10

\* What a push that leaves the network and the backend alone keeps.
LEMMA QuietPush ==
  ASSUME IInv, NEW i \in Nat, Push(i), mode' = mode, mode = "loop",
         UNCHANGED <<cur, cursor, networkVars, backendVars>>
  PROVE  Numbering' /\ Persisted' /\ Covered' /\ Gapless' /\ Kept'
<1> USE DEF networkVars, backendVars
<1>1. Numbering'
  BY PushKeeps, Numbers DEF IInv, Numbering
<1>2. Persisted'
  BY DEF Persisted
<1>3. Covered'
  <2>1. /\ buf.ack \in Nat /\ (buf.ack = 0 \/ buf.ack < buf.next)
        /\ last_ack \in Nat /\ (last_ack = 0 \/ last_ack < buf.next)
        /\ \A j \in DOMAIN acks : acks[j] \in Nat /\ acks[j] < buf.next
    BY Numbers DEF IInv, Numbering
  <2>2. Settled(buf.ack)'
    BY <2>1, PushKeeps DEF IInv, Covered, Settled
  <2>3. Settled(last_ack)'
    BY <2>1, PushKeeps DEF IInv, Covered, Settled
  <2>4. ASSUME NEW j \in DOMAIN acks PROVE Settled(acks[j])'
    BY <2>1, PushKeeps DEF IInv, Covered, Settled
  <2> QED BY <2>2, <2>3, <2>4 DEF Covered
<1>4. Gapless'
  <2>1. \A c \in Conns : hand[c].at # "idle" => hand[c].m.seq \in Nat /\ hand[c].m.seq < buf.next
    BY Numbers DEF IInv, Numbering
  <2>2. \A c \in Conns : \A j \in DOMAIN wire[c] :
          wire[c][j].seq \in Nat /\ wire[c][j].seq < buf.next
    BY Numbers DEF IInv, Numbering
  <2>3. ASSUME NEW c \in Conns, hand[c].at = "store",
               NEW n \in pushed', 1 <= n.seq, n.seq < hand[c].m.seq
        PROVE  n \in Stored' \union overflowed'
    <3>1. Below(hand[c].m.seq, {})
      BY <2>3 DEF IInv, Gapless
    <3>2. hand[c].m.seq \in Nat /\ hand[c].m.seq <= buf.next
      BY <2>1, <2>3, Numbers DEF IInv
    <3>3. \A p \in pushed' : 1 <= p.seq /\ p.seq < hand[c].m.seq =>
            p \in Stored' \union overflowed' \union {}
      BY <3>1, <3>2, PushKeeps
    <3> QED BY <2>3, <3>3
  <2>4. \A c \in Conns : hand[c].at = "ack" => Settled(hand[c].m.seq)'
    BY <2>1, PushKeeps DEF IInv, Gapless, Settled
  <2>5. ASSUME NEW c \in Conns, NEW j \in DOMAIN wire[c],
               NEW n \in pushed', 1 <= n.seq, n.seq < wire[c][j].seq
        PROVE  n \in Stored' \union overflowed' \union Ahead(c, j)
    <3>1. Below(wire[c][j].seq, Ahead(c, j))
      BY DEF IInv, Gapless
    <3>2. wire[c][j].seq \in Nat /\ wire[c][j].seq <= buf.next
      BY <2>2, Numbers DEF IInv
    <3>3. \A p \in pushed' : 1 <= p.seq /\ p.seq < wire[c][j].seq =>
            p \in Stored' \union overflowed' \union Ahead(c, j)
      BY <3>1, <3>2, PushKeeps
    <3> QED BY <2>5, <3>3
  <2>6. \A c \in Conns : \A j \in DOMAIN wire[c] : Ahead(c, j)' = Ahead(c, j)
    BY DEF Ahead, Storing
  <2> QED BY <2>3, <2>4, <2>5, <2>6 DEF Gapless, Below
<1> QED BY <1>1, <1>2, <1>3, <1>4, PushKeeps

LEMMA RawOutputInv ==
  ASSUME Reliable, IInv, TypeOK', RawOutput
  PROVE  IInv'
<1> USE DEF RawOutput, Selecting
<1> DEFINE m == NextMsg(made + 1)
<1>a. Agent = "codex"
  BY DEF Reliable
<1>0. made + 1 \in Nat
  BY DEF IInv, TypeOK
<1>1. Numbering' /\ Persisted' /\ Covered' /\ Gapless' /\ Kept'
  BY <1>0, QuietPush
<1>2. /\ pushed' = pushed \union {m} /\ m.seq = buf.next /\ buf'.next = buf.next + 1
      /\ buf.next \in Nat /\ Stored' = Stored
  BY <1>0, PushKeeps, Numbers DEF IInv, backendVars
<1>3. OneSender'
  BY <1>a, <1>2 DEF IInv, OneSender
<1>4. Resent'
  <2>1. /\ Unwritten(main)' = {m} /\ Unwritten(main) = {}
        /\ Unwritten(fwd)' = Unwritten(fwd) /\ Coming(cur)' = Coming(cur)
    BY DEF Unwritten, Coming, Storing, networkVars, backendVars
  <2>2. cur \in Conns
    BY DEF IInv, Resent
  <2>3. ASSUME link[cur] = "open", NEW n \in pushed', 1 <= n.seq, n # m
        PROVE  n \in Stored' \union overflowed' \union Coming(cur) \union Unwritten(fwd)
    <3>1. n \in pushed /\ n.seq < buf.next
      BY <1>2, <2>3 DEF IInv, Numbering
    <3> QED BY <1>2, <2>1, <2>3, <3>1 DEF IInv, Resent, Below, Push
  <2> QED BY <2>1, <2>2, <2>3 DEF Resent, Below, networkVars
<1> QED BY <1>1, <1>3, <1>4 DEF IInv

LEMMA ForwarderPushInv ==
  ASSUME IInv, TypeOK', ForwarderPush
  PROVE  IInv'
<1> USE DEF ForwarderPush
<1> DEFINE m == NextMsg(fwd.m.item)
<1>0. fwd.m.item \in Nat
  BY DEF IInv, TypeOK, Msg
<1>1. Numbering' /\ Persisted' /\ Covered' /\ Gapless' /\ Kept'
  BY <1>0, QuietPush
<1>2. /\ pushed' = pushed \union {m} /\ m.seq = buf.next /\ buf'.next = buf.next + 1
      /\ buf.next \in Nat /\ Stored' = Stored
  BY <1>0, PushKeeps, Numbers DEF IInv, backendVars
<1>3. OneSender'
  BY <1>2, OutputDeliveryAssumption DEF IInv, OneSender
<1>4. Resent'
  <2>1. /\ Unwritten(fwd)' = {m} /\ Unwritten(fwd) = {}
        /\ Unwritten(main)' = Unwritten(main) /\ Coming(cur)' = Coming(cur)
    BY DEF Unwritten, Coming, Storing, networkVars, backendVars
  <2>2. cur \in Conns
    BY DEF IInv, Resent
  <2>3. ASSUME link[cur] = "open", NEW n \in pushed', 1 <= n.seq, n # m
        PROVE  n \in Stored' \union overflowed' \union Coming(cur) \union Unwritten(main)
    <3>1. n \in pushed /\ n.seq < buf.next
      BY <1>2, <2>3 DEF IInv, Numbering
    <3> QED BY <1>2, <2>1, <2>3, <3>1 DEF IInv, Resent, Below, Push
  <2> QED BY <2>1, <2>2, <2>3 DEF Resent, Below, networkVars
<1> QED BY <1>1, <1>3, <1>4 DEF IInv

LEMMA AnnounceInv ==
  ASSUME IInv, TypeOK', Announce
  PROVE  IInv'
<1> USE DEF Announce, backendVars
<1> DEFINE m == NextMsg(made + 1)
<1>0. made + 1 \in Nat /\ cur \in Conns
  BY DEF IInv, TypeOK, Resent
<1>1. /\ m \in Msg /\ m.seq = buf.next /\ buf.next \in Nat
      /\ pushed' = pushed \union {m} /\ buf'.next = buf.next + 1 /\ buf'.ack = buf.ack
      /\ Stored' = Stored /\ overflowed \subseteq overflowed'
  BY <1>0, PushKeeps, Numbers DEF IInv, Push
<1>2. Below(buf.next, Coming(cur)) \/ link[cur] # "open"
  <2> SUFFICES ASSUME link[cur] = "open", NEW n \in pushed, 1 <= n.seq,
                      n \notin Stored \union overflowed
               PROVE  n \in Coming(cur)
    BY DEF Below
  <2>1. n \in buf.pending /\ n \notin Unsent
    BY DEF IInv, Kept
  <2>2. n.seq < cursor
    BY <2>1, Numbers DEF Unsent, IInv
  <2> QED BY <2>2 DEF IInv, Resent, Below
<1>3. /\ \A c \in Conns : \A i \in DOMAIN wire'[c] :
           /\ wire'[c][i] \in pushed \union {m}
           /\ Below(wire'[c][i].seq, Ahead(c, i)')
      /\ link[cur] = "open" => Coming(cur)' = Coming(cur) \union {m}
  BY <1>0, <1>1, <1>2, SendKeeps
<1>4. Numbering'
  BY <1>0, <1>1, <1>3, PushKeeps, Numbers DEF IInv, Numbering
<1>5. Persisted' /\ Kept'
  BY <1>0, PushKeeps DEF Persisted
<1>6. OneSender'
  BY <1>1 DEF IInv, OneSender
<1>7. Covered'
  <2>1. /\ buf.ack \in Nat /\ (buf.ack = 0 \/ buf.ack < buf.next)
        /\ last_ack \in Nat /\ (last_ack = 0 \/ last_ack < buf.next)
        /\ \A j \in DOMAIN acks : acks[j] \in Nat /\ acks[j] < buf.next
    BY Numbers DEF IInv, Numbering
  <2>2. Settled(buf.ack)'
    BY <1>0, <2>1, PushKeeps DEF IInv, Covered, Settled
  <2>3. Settled(last_ack)'
    BY <1>0, <2>1, PushKeeps DEF IInv, Covered, Settled
  <2>4. ASSUME NEW j \in DOMAIN acks PROVE Settled(acks[j])'
    BY <1>0, <2>1, PushKeeps DEF IInv, Covered, Settled
  <2> QED BY <2>2, <2>3, <2>4 DEF Covered
<1>8. Gapless'
  <2>1. \A c \in Conns : hand[c].at # "idle" => hand[c].m.seq \in Nat /\ hand[c].m.seq < buf.next
    BY Numbers DEF IInv, Numbering
  <2>2. \A c \in Conns : \A j \in DOMAIN wire'[c] :
          wire'[c][j].seq \in Nat /\ wire'[c][j].seq <= buf.next
    BY <1>1, <1>3, Numbers DEF IInv, Numbering
  <2>3. ASSUME NEW c \in Conns, hand[c].at = "store",
               NEW n \in pushed', 1 <= n.seq, n.seq < hand[c].m.seq
        PROVE  n \in Stored' \union overflowed'
    <3>1. Below(hand[c].m.seq, {})
      BY <2>3 DEF IInv, Gapless
    <3>2. hand[c].m.seq \in Nat /\ hand[c].m.seq <= buf.next
      BY <2>1, <2>3, Numbers DEF IInv
    <3>3. \A p \in pushed' : 1 <= p.seq /\ p.seq < hand[c].m.seq =>
            p \in Stored' \union overflowed' \union {}
      BY <1>0, <3>1, <3>2, PushKeeps
    <3> QED BY <2>3, <3>3
  <2>4. \A c \in Conns : hand[c].at = "ack" => Settled(hand[c].m.seq)'
    BY <1>0, <2>1, PushKeeps DEF IInv, Gapless, Settled
  <2>5. \A c \in Conns : \A j \in DOMAIN wire'[c] :
          \A n \in pushed' : 1 <= n.seq /\ n.seq < wire'[c][j].seq =>
            n \in Stored' \union overflowed' \union Ahead(c, j)'
    BY <1>0, <1>3, <2>2, PushKeeps
  <2> QED BY <2>3, <2>4, <2>5 DEF Gapless, Below
<1>9. Resent'
  <2>1. Unwritten(fwd)' = {} /\ Unwritten(main)' = {}
    BY DEF IInv, OneSender, Unwritten
  <2>2. ASSUME link[cur] = "open", NEW n \in pushed', 1 <= n.seq
        PROVE  n \in Stored' \union overflowed' \union Coming(cur)'
    <3>1. n = m \/ (n \in pushed /\ n.seq < buf.next)
      BY <1>1 DEF IInv, Numbering
    <3> QED BY <1>1, <1>2, <1>3, <2>2, <3>1 DEF Below
  <2> QED BY <1>0, <2>1, <2>2 DEF Resent, Below
<1> QED BY <1>4, <1>5, <1>6, <1>7, <1>8, <1>9 DEF IInv

-----------------------------------------------------------------------------
(* The theorems, for a session without wiggum mode whose proxy is not       *)
(* killed and whose inserts succeed.                                        *)

LEMMA ProxyInv ==
  ASSUME Reliable, IInv, TypeOK', ProxyStep
  PROVE  IInv'
<1>1. CASE Disconnect
  BY <1>1, LeaveInv DEF Disconnect
<1>2. CASE OutputWithoutForwarder
  BY <1>2, LeaveInv DEF OutputWithoutForwarder
<1>3. CASE ProxyExit
  BY <1>3, LeaveInv DEF ProxyExit
<1>4. ~WiggumPush /\ ~ProxyCrash
  BY DEF Reliable, IInv, OneSender, WiggumPush, ProxyCrash
<1> QED
  BY <1>1, <1>2, <1>3, <1>4, ConnectInv, ReplayNextInv, AnnounceInv,
     ClaudeOutputInv, RawOutputInv, MainSendInv, ForwarderTakeInv,
     ForwarderPushInv, ForwarderSendInv, ForwarderFailsInv, ReceiveAckInv,
     ProxyStartInv DEF ProxyStep

LEMMA InvStep == Reliable /\ IInv /\ [Next]_vars => IInv'
<1> SUFFICES ASSUME Reliable, IInv, [Next]_vars PROVE IInv'
  OBVIOUS
<1>1. TypeOK'
  BY TypeStep DEF IInv
<1>2. CASE ProxyStep
  BY <1>1, <1>2, ProxyInv
<1>3. CASE LinkCut
  BY <1>1, <1>3, LinkCutInv
<1>4. CASE BackendRestart
  BY <1>1, <1>4, BackendRestartInv
<1>5. ASSUME NEW c \in Conns, BackendStep(c) PROVE IInv'
  <2>1. ~BackendStoreFails(c) /\ ~BackendNoConnection(c)
    BY DEF Reliable, BackendStoreFails, BackendNoConnection
  <2> QED
    BY <1>1, <1>5, <2>1, BackendSkipInv, BackendAcceptInv, BackendStoreInv,
       BackendAckInv, BackendSocketEndsInv DEF BackendStep
<1>6. CASE UNCHANGED vars
  <2> USE <1>6 DEF vars, proxyVars, networkVars, backendVars, history
  <2>1. Stored' = Stored
    BY DEF Stored
  <2>2. Numbering' /\ Persisted' /\ OneSender' /\ Covered' /\ Kept'
    BY <2>1 DEF IInv, Numbering, Persisted, OneSender, Covered, Kept, Settled
  <2>3. Gapless' /\ Resent'
    BY <2>1 DEF IInv, Gapless, Resent, Settled, Below, Ahead, Storing, Coming,
                Unwritten
  <2> QED BY <1>1, <2>2, <2>3 DEF IInv
<1> QED
  BY <1>2, <1>3, <1>4, <1>5, <1>6 DEF Next

\* The strengthening holds in every reachable state.
THEOREM Invariance == Reliable => (Spec => []IInv)
<1> SUFFICES ASSUME Reliable PROVE Spec => []IInv
  OBVIOUS
<1>1. IInv /\ [Next]_vars => IInv'
  BY InvStep
<1> QED BY InvInit, <1>1, PTL DEF Spec

\* No acknowledgment the proxy acts on covers a message that is not in the
\* messages table (numbers from 1), for any number of outputs, connections,
\* disconnects, proxy exits and backend restarts and any buffer capacity.
THEOREM AcksAreSafe == Reliable => (Spec => []AckConfirmsStorage)
<1>1. IInv => AckConfirmsStorage
  BY DEF IInv, Covered, AckConfirmsStorage
<1> QED BY <1>1, Invariance, PTL

\* Under the same conditions the buffer never loses a message the backend has
\* not stored, but for those its capacity made it trim.
THEOREM NothingDropped == Reliable => (Spec => []BufferHoldsUnstored)
<1>1. IInv => BufferHoldsUnstored
  BY DEF IInv, Kept, BufferHoldsUnstored
<1> QED BY <1>1, Invariance, PTL

\* A message is first stored when all those before it are: the history a web
\* client reads has no hole that is filled later.
THEOREM InOrder == Reliable => (Spec => StoredInOrder)
<1> SUFFICES ASSUME Reliable PROVE Spec => StoredInOrder
  OBVIOUS
<1> DEFINE Step == \A m \in Stored' \ Stored : Settled(m.seq - 1)
<1>1. IInv /\ [Next]_vars => [Step]_vars
  <2> SUFFICES ASSUME IInv, Next, NEW m \in Stored', m \notin Stored
               PROVE  Settled(m.seq - 1)
    OBVIOUS
  <2>1. PICK c \in Conns : BackendStore(c)
    <3>1. CASE rows' = rows
      BY <3>1 DEF Stored
    <3> QED BY <3>1 DEF Next, ProxyStep, BackendStep, Connect, ReplayNext,
         Announce, ClaudeOutput, WiggumPush, RawOutput, MainSend,
         ForwarderTake, ForwarderPush, ForwarderSend, ForwarderFails,
         ReceiveAck, Disconnect, OutputWithoutForwarder, ProxyExit,
         ProxyCrash, ProxyStart, LinkCut, BackendRestart, BackendSkip,
         BackendAccept, BackendStoreFails, BackendNoConnection, BackendAck,
         BackendSocketEnds, backendVars
  <2>2. /\ hand[c].m \in pushed /\ hand[c].m.seq \in Nat
        /\ Below(hand[c].m.seq, {})
    BY <2>1, Numbers DEF IInv, Numbering, Gapless, BackendStore
  <2>3. m = hand[c].m
    <3>1. rows \in Seq(Msg) /\ hand[c].m \in Msg /\ rows' = Append(rows, hand[c].m)
      BY <2>1, <2>2, Numbers DEF IInv, TypeOK, BackendStore
    <3> QED BY <3>1, Appended DEF Stored
  <2> QED BY <2>2, <2>3, Numbers DEF IInv, Settled, Below
<1> QED BY <1>1, Invariance, PTL DEF Spec, StoredInOrder

-----------------------------------------------------------------------------
(* The refinement of the abstract log: what it needs of the path.           *)

LEMMA LogInvInit == Init => LogInv
<1> SUFFICES ASSUME Init PROVE LogInv
  OBVIOUS
<1>1. Numbered /\ Storable
  BY DEF Init, Numbered, Storable, FreshBuffer
<1>2. Produced
  BY OutputDeliveryAssumption DEF Init, Produced
<1>3. Counted
  <2>1. IsFiniteSet({}) /\ Cardinality({}) = 0
    BY FS_EmptySet
  <2> QED BY <2>1 DEF Init, Counted, FreshBuffer
<1> QED BY <1>1, <1>2, <1>3, InvInit DEF LogInv

LEMMA Sizes ==
  ASSUME TypeOK
  PROVE  /\ made \in Nat /\ cur \in Nat /\ cur <= MaxConn /\ MaxOutputs \in Nat
         /\ MaxConn \in Nat /\ Capacity \in Nat
         /\ buf.next \in Nat /\ Len(chan) \in Nat
         /\ chan \in Seq(Nat)
BY OutputDeliveryAssumption DEF TypeOK, Buffer

\* A push that fits into the buffer trims nothing.
LEMMA PushFits ==
  ASSUME TypeOK, Counted, NEW i \in Nat, Push(i)
  PROVE  /\ buf'.next = buf.next + 1
         /\ IsFiniteSet(buf'.pending) /\ Cardinality(buf'.pending) <= buf'.next
         /\ buf.next + 1 <= Capacity => overflowed' = overflowed
<1> DEFINE grown == buf.pending \union {NextMsg(i)}
<1>1. buf.next \in Nat /\ Capacity \in Nat
  BY Sizes
<1>2. /\ buf'.next = buf.next + 1
      /\ buf'.pending = grown \ Trimmed(grown)
      /\ overflowed' = overflowed \union Trimmed(grown)
  BY DEF TypeOK, Buffer, Push
<1>3. IsFiniteSet(grown) /\ Cardinality(grown) <= buf.next + 1
  <2>1. IsFiniteSet(buf.pending) /\ Cardinality(buf.pending) <= buf.next
    BY DEF Counted
  <2>2. /\ IsFiniteSet(grown)
        /\ Cardinality(grown) = Cardinality(buf.pending)
           \/ Cardinality(grown) = Cardinality(buf.pending) + 1
    BY <2>1, FS_AddElement
  <2>3. Cardinality(buf.pending) \in Nat
    BY <2>1, FS_CardinalityType
  <2> QED BY <1>1, <2>1, <2>2, <2>3
<1>4. Cardinality(grown) \in Nat
  BY <1>3, FS_CardinalityType
<1>5. IsFiniteSet(grown \ Trimmed(grown)) /\ Cardinality(grown \ Trimmed(grown)) <= Cardinality(grown)
  BY <1>3, FS_Subset
<1>6. Cardinality(grown \ Trimmed(grown)) \in Nat
  BY <1>5, FS_CardinalityType
<1>7. buf.next + 1 <= Capacity => Trimmed(grown) = {}
  BY <1>1, <1>3, <1>4 DEF Trimmed
<1> HIDE DEF grown
<1> QED BY <1>1, <1>2, <1>3, <1>4, <1>5, <1>6, <1>7

LEMMA Shrinks ==
  ASSUME TypeOK, Counted, buf'.next = buf.next, buf'.pending \subseteq buf.pending
  PROVE  IsFiniteSet(buf'.pending) /\ Cardinality(buf'.pending) <= buf'.next
<1>1. /\ IsFiniteSet(buf.pending) /\ Cardinality(buf.pending) <= buf.next
      /\ IsFiniteSet(buf'.pending) /\ Cardinality(buf'.pending) <= Cardinality(buf.pending)
  BY FS_Subset DEF Counted
<1>2. Cardinality(buf.pending) \in Nat /\ Cardinality(buf'.pending) \in Nat
  BY <1>1, FS_CardinalityType
<1> QED BY <1>1, <1>2, Sizes

LEMMA LeavingCounts ==
  ASSUME IInv, Produced, Counted, LeaveConnection, buf' = buf,
         made' \in {made, made + 1}, made' > made => made < MaxOutputs,
         mode' \in {"down", "backoff"}
  PROVE  Produced' /\ Counted'
<1>1. chan' = <<>> /\ Len(chan') = 0 /\ DOMAIN chan' = {} /\ fwd'.at = "recv" /\ cur' = cur
  BY DEF LeaveConnection
<1>2. Produced'
  BY <1>1, Sizes DEF IInv, Produced
<1>3. Counted'
  BY <1>1, Sizes DEF IInv, Counted
<1> QED BY <1>2, <1>3

LEMMA SenderCounts ==
  ASSUME IInv, Produced, Counted,
         Connect \/ ReplayNext \/ Announce \/ ClaudeOutput \/ RawOutput
  PROVE  Produced' /\ Counted'
<1>1. CASE Connect
  BY <1>1, Sizes DEF IInv, Produced, Counted, Connect
<1>2. CASE ReplayNext
  BY <1>2 DEF Produced, Counted, ReplayNext
<1>3. CASE Announce
  <2>1. made + 1 \in Nat
    BY Sizes DEF IInv
  <2>2. /\ buf'.next = buf.next + 1
        /\ IsFiniteSet(buf'.pending) /\ Cardinality(buf'.pending) <= buf'.next
    BY <1>3, <2>1, PushFits DEF IInv, Announce
  <2>3. mode = "replay" /\ mode' = "loop" /\ made' = made + 1 /\ UNCHANGED <<cur, chan, fwd>>
    BY <1>3 DEF Announce
  <2>4. Produced'
    BY <2>3, Sizes DEF IInv, Produced
  <2> QED BY <2>2, <2>3, <2>4, Sizes DEF IInv, Counted
<1>4. CASE ClaudeOutput
  <2>1. /\ made < MaxOutputs /\ made' = made + 1 /\ chan' = Append(chan, made + 1)
        /\ mode = "loop" /\ UNCHANGED <<mode, cur, buf, fwd>>
    BY <1>4 DEF ClaudeOutput, Selecting
  <2>2. /\ Len(chan') = Len(chan) + 1 /\ DOMAIN chan' = 1..(Len(chan) + 1)
        /\ DOMAIN chan = 1..Len(chan) /\ chan'[Len(chan) + 1] = made + 1
        /\ \A i \in 1..Len(chan) : chan'[i] = chan[i]
    BY <2>1, Sizes DEF IInv
  <2>3. \A i \in DOMAIN chan' : chan'[i] \in 1..made'
    <3>1. \A i \in 1..Len(chan) : chan[i] \in 1..made
      BY <2>2 DEF Produced
    <3> QED BY <2>1, <2>2, <3>1, Sizes DEF IInv
  <2>4. Produced'
    BY <2>1, <2>3, Sizes DEF IInv, Produced
  <2> QED BY <2>1, <2>2, <2>4, Sizes DEF IInv, Counted
<1>5. CASE RawOutput
  <2>1. made + 1 \in Nat
    BY Sizes DEF IInv
  <2>2. /\ buf'.next = buf.next + 1
        /\ IsFiniteSet(buf'.pending) /\ Cardinality(buf'.pending) <= buf'.next
    BY <1>5, <2>1, PushFits DEF IInv, RawOutput
  <2>3. /\ mode = "loop" /\ made < MaxOutputs /\ made' = made + 1
        /\ UNCHANGED <<mode, cur, chan, fwd>>
    BY <1>5 DEF RawOutput, Selecting
  <2>4. Produced'
    BY <2>3, Sizes DEF IInv, Produced
  <2> QED BY <2>2, <2>3, <2>4, Sizes DEF IInv, Counted
<1> QED BY <1>1, <1>2, <1>3, <1>4, <1>5

LEMMA ForwarderCounts ==
  ASSUME IInv, Produced, Counted,
         ForwarderTake \/ ForwarderPush \/ ForwarderSend \/ ForwarderFails
  PROVE  Produced' /\ Counted'
<1>1. CASE ForwarderTake
  <2>1. /\ fwd.at = "recv" /\ chan # <<>> /\ chan' = Tail(chan)
        /\ fwd'.at = "push" /\ fwd'.m.item = Head(chan)
        /\ UNCHANGED <<made, mode, cur, buf>>
    BY <1>1 DEF ForwarderTake
  <2>2. /\ DOMAIN chan = 1..Len(chan) /\ 1 \in DOMAIN chan /\ Head(chan) = chan[1]
        /\ Len(chan') = Len(chan) - 1 /\ DOMAIN chan' = 1..(Len(chan) - 1)
        /\ \A i \in 1..(Len(chan) - 1) : i + 1 \in DOMAIN chan /\ chan'[i] = chan[i + 1]
    BY <2>1, Sizes DEF IInv
  <2>3. Produced'
    BY <2>1, <2>2 DEF Produced
  <2> QED BY <2>1, <2>2, <2>3, Sizes DEF IInv, Counted
<1>2. CASE ForwarderPush
  <2>1. fwd.at = "push" /\ Push(fwd.m.item) /\ fwd'.at = "send" /\ UNCHANGED <<made, mode, cur, chan>>
    BY <1>2 DEF ForwarderPush
  <2>2. fwd.m.item \in Nat
    BY <2>1, Sizes DEF IInv, Produced
  <2>3. /\ buf'.next = buf.next + 1
        /\ IsFiniteSet(buf'.pending) /\ Cardinality(buf'.pending) <= buf'.next
    BY <2>1, <2>2, PushFits DEF IInv
  <2>4. Produced'
    BY <2>1 DEF Produced
  <2> QED BY <2>1, <2>3, <2>4, Sizes DEF IInv, Counted
<1>3. CASE ForwarderSend
  <2>1. fwd.at = "send" /\ mode = "loop" /\ UNCHANGED <<mode, cur, buf, chan>>
    BY <1>3 DEF ForwarderSend
  <2>2. CASE fwd'.at = "recv" /\ made' = made
    BY <2>1, <2>2 DEF Produced, Counted
  <2>3. CASE /\ made < MaxOutputs /\ made' = made + 1
             /\ fwd'.at = "push" /\ fwd'.m.item = made + 1
    <3>1. Produced'
      BY <2>1, <2>3, Sizes DEF IInv, Produced
    <3> QED BY <2>1, <2>3, <3>1, Sizes DEF IInv, Counted
  <2> QED BY <1>3, <2>2, <2>3 DEF ForwarderSend
<1>4. CASE ForwarderFails
  <2>1. fwd.at = "send" /\ fwd'.at = "dead" /\ UNCHANGED <<made, mode, cur, buf, chan>>
    BY <1>4 DEF ForwarderFails
  <2> QED BY <2>1 DEF Produced, Counted
<1> QED BY <1>1, <1>2, <1>3, <1>4

LEMMA BufferCounts ==
  ASSUME IInv, Produced, Counted, ReceiveAck \/ ProxyStart
  PROVE  Produced' /\ Counted'
<1>1. buf'.next = buf.next /\ buf'.pending \subseteq buf.pending
  <2>1. /\ Acknowledged(buf, Head(acks)).next = buf.next
        /\ Acknowledged(buf, Head(acks)).pending \subseteq buf.pending
        /\ Loaded(buf).next = buf.next /\ Loaded(buf).pending \subseteq buf.pending
    BY DEF IInv, TypeOK, Buffer, Acknowledged, Loaded
  <2>2. mode = "down" => disk = buf
    BY DEF IInv, Persisted
  <2> QED BY <2>1, <2>2 DEF ReceiveAck, ProxyStart
<1>2. UNCHANGED <<made, cur, chan, fwd>> /\ mode' \in {mode, "backoff"}
  BY DEF ReceiveAck, ProxyStart
<1>3. Produced'
  BY <1>2 DEF Produced
<1> QED BY <1>1, <1>2, <1>3, Shrinks, Sizes DEF IInv, Counted

LEMMA CountStep ==
  ASSUME Reliable, IInv, Produced, Counted, [Next]_vars
  PROVE  Produced' /\ Counted'
<1>1. CASE UNCHANGED proxyVars
  BY <1>1 DEF proxyVars, Produced, Counted
<1>2. CASE Connect \/ ReplayNext \/ Announce \/ ClaudeOutput \/ RawOutput
  BY <1>2, SenderCounts
<1>3. CASE ForwarderTake \/ ForwarderPush \/ ForwarderSend \/ ForwarderFails
  BY <1>3, ForwarderCounts
<1>4. CASE ReceiveAck \/ ProxyStart
  BY <1>4, BufferCounts
<1>5. CASE Disconnect \/ OutputWithoutForwarder \/ ProxyExit \/ ProxyCrash
  <2>1. /\ LeaveConnection /\ buf' = buf /\ mode' \in {"down", "backoff"}
        /\ made' \in {made, made + 1}
        /\ made' # made => made < MaxOutputs
    BY <1>5 DEF Disconnect, OutputWithoutForwarder, ProxyExit, ProxyCrash
  <2>2. made' > made => made < MaxOutputs
    BY <2>1, Sizes DEF IInv
  <2> QED BY <2>1, <2>2, LeavingCounts
<1>6. CASE MainSend
  BY <1>6 DEF MainSend, Produced, Counted
<1>7. CASE WiggumPush
  BY <1>7 DEF WiggumPush, IInv, OneSender
<1>8. CASE LinkCut \/ BackendRestart \/ \E c \in Conns : BackendStep(c)
  <2>1. UNCHANGED proxyVars
    BY <1>8 DEF LinkCut, BackendRestart, BackendStep, BackendSkip, BackendAccept,
       BackendStore, BackendStoreFails, BackendNoConnection, BackendAck, BackendSocketEnds
  <2> QED BY <1>1, <2>1
<1> QED BY <1>1, <1>2, <1>3, <1>4, <1>5, <1>6, <1>7, <1>8 DEF Next, ProxyStep, vars

\* A step pushes a content, or stores a message, or does nothing to the log.
LEMMA LogSteps ==
  ASSUME Reliable, IInv, Produced, [Next]_vars
  PROVE  \/ rows' = rows /\ \E i \in Contents : Push(i)
         \/ /\ pushed' = pushed /\ buf'.next = buf.next
            /\ rows' = rows \/ \E c \in Conns : BackendStore(c)
<1>1. CASE Announce
  <2>1. made + 1 \in Contents
    BY <1>1, Sizes DEF IInv, Produced, Contents, Announce
  <2> QED BY <1>1, <2>1 DEF Announce, backendVars
<1>2. CASE RawOutput
  <2>1. made + 1 \in Contents
    BY <1>2, Sizes DEF IInv, Contents, RawOutput
  <2> QED BY <1>2, <2>1 DEF RawOutput, backendVars
<1>3. CASE ForwarderPush
  <2>1. fwd.m.item \in Contents
    BY <1>3, Sizes DEF IInv, Produced, Contents, ForwarderPush
  <2> QED BY <1>3, <2>1 DEF ForwarderPush, backendVars
<1>4. CASE WiggumPush
  BY <1>4 DEF WiggumPush, IInv, OneSender
<1>5. CASE ReceiveAck \/ ProxyStart
  <2>1. /\ Acknowledged(buf, Head(acks)).next = buf.next /\ Loaded(buf).next = buf.next
        /\ mode = "down" => disk = buf
    BY DEF IInv, Persisted, TypeOK, Buffer, Acknowledged, Loaded
  <2> QED BY <1>5, <2>1 DEF ReceiveAck, ProxyStart, backendVars, history
<1>6. CASE \/ Connect \/ ReplayNext \/ ClaudeOutput \/ MainSend \/ ForwarderTake
           \/ ForwarderSend \/ ForwarderFails
           \/ Disconnect \/ OutputWithoutForwarder \/ ProxyExit \/ ProxyCrash
  BY <1>6 DEF Connect, ReplayNext, ClaudeOutput, MainSend, ForwarderTake, ForwarderSend,
     ForwarderFails, Disconnect, OutputWithoutForwarder, ProxyExit, ProxyCrash,
     backendVars, history
<1>7. CASE LinkCut \/ BackendRestart \/ \E c \in Conns : BackendStep(c)
  BY <1>7 DEF LinkCut, BackendRestart, BackendStep, BackendSkip, BackendAccept,
     BackendStore, BackendStoreFails, BackendNoConnection, BackendAck, BackendSocketEnds,
     proxyVars, backendVars, history
<1>8. CASE UNCHANGED vars
  BY <1>8 DEF vars, proxyVars, backendVars, history
<1> QED BY <1>1, <1>2, <1>3, <1>4, <1>5, <1>6, <1>7, <1>8 DEF Next, ProxyStep

LEMMA NumberedStep ==
  ASSUME Reliable, IInv, Produced, Numbered, [Next]_vars
  PROVE  Numbered'
<1>1. CASE pushed' = pushed /\ buf'.next = buf.next
  BY <1>1 DEF Numbered
<1>2. CASE rows' = rows /\ \E i \in Contents : Push(i)
  <2>1. PICK i \in Contents : Push(i)
    BY <1>2
  <2>2. i \in Nat
    BY Sizes DEF Contents, IInv
  <2>3. /\ NextMsg(i).seq = buf.next /\ pushed' = pushed \union {NextMsg(i)}
        /\ buf'.next = buf.next + 1
    BY <1>2, <2>1, <2>2, PushKeeps
  <2> QED BY <2>3, Sizes DEF IInv, Numbered
<1> QED BY <1>1, <1>2, LogSteps

LEMMA StorableStep ==
  ASSUME IInv, Storable, [Next]_vars
  PROVE  Storable'
<1>1. CASE UNCHANGED hand
  BY <1>1 DEF Storable
<1>2. CASE BackendRestart
  BY <1>2 DEF BackendRestart, Storable
<1>3. ASSUME NEW c \in Conns, BackendStep(c) PROVE Storable'
  <2> SUFFICES ASSUME NEW d \in Conns, hand'[d].at = "store" PROVE 1 <= hand'[d].m.seq
    BY DEF Storable
  <2>1. CASE BackendAccept(c)
    <3>1. DOMAIN hand = Conns
      BY DEF IInv, TypeOK
    <3>2. CASE d = c
      <4>1. hand'[d].m = Head(wire[c]) /\ last_ack < Head(wire[c]).seq
        BY <2>1, <3>1, <3>2 DEF BackendAccept
      <4>2. Head(wire[c]) \in Msg
        BY <2>1 DEF IInv, TypeOK, BackendAccept
      <4> QED BY <4>1, <4>2, Numbers DEF IInv
    <3>3. CASE d # c
      BY <2>1, <3>1, <3>3 DEF BackendAccept, Storable
    <3> QED BY <3>2, <3>3
  <2>2. CASE ~BackendAccept(c)
    <3>1. hand'[d] = hand[d]
      BY <1>3, <2>2 DEF BackendStep, BackendSkip, BackendStore, BackendStoreFails,
         BackendNoConnection, BackendAck, BackendSocketEnds, IInv, TypeOK, backendVars
    <3> QED BY <3>1 DEF Storable
  <2> QED BY <2>1, <2>2
<1>4. CASE ProxyStep \/ LinkCut \/ UNCHANGED vars
  <2>1. UNCHANGED hand
    BY <1>4 DEF ProxyStep, Connect, ReplayNext, Announce, ClaudeOutput, WiggumPush,
       RawOutput, MainSend, ForwarderTake, ForwarderPush, ForwarderSend, ForwarderFails,
       ReceiveAck, Disconnect, OutputWithoutForwarder, ProxyExit, ProxyCrash, ProxyStart,
       LinkCut, vars, backendVars
  <2> QED BY <1>1, <2>1
<1> QED BY <1>2, <1>3, <1>4 DEF Next

LEMMA LogInvStep == Reliable /\ LogInv /\ [Next]_vars => LogInv'
BY InvStep, CountStep, NumberedStep, StorableStep DEF LogInv

-----------------------------------------------------------------------------
(* The refinement of the abstract log: the steps.                           *)

Sent == [s \in 1..(buf.next - 1) |-> ItemIn(pushed, s)]
Got == [k \in DOMAIN rows |-> rows[k].seq]

LEMMA Items ==
  ASSUME IInv, NEW m \in pushed
  PROVE  ItemIn(pushed, m.seq) = m.item
<1> DEFINE c == CHOOSE n \in pushed : n.seq = m.seq
<1>1. c \in pushed /\ c.seq = m.seq
  OBVIOUS
<1>2. c = m
  BY <1>1 DEF IInv, Numbering
<1> QED BY <1>2 DEF ItemIn

SentShape ==
  /\ Sent \in Seq(Nat)
  /\ DOMAIN Sent = 1..(buf.next - 1)
  /\ buf.next >= 1 => Len(Sent) = buf.next - 1
  /\ \A s \in 1..(buf.next - 1) : Sent[s] = ItemIn(pushed, s)

LEMMA SentIsSeq == LogInv => SentShape
<1> SUFFICES ASSUME IInv, Numbered PROVE SentShape
  BY DEF LogInv
<1> USE DEF SentShape
<1>1. \A s \in 1..(buf.next - 1) : ItemIn(pushed, s) \in Nat
  BY Items, Numbers DEF IInv, Numbered
<1>2. buf.next \in Nat
  BY Sizes DEF IInv
<1>3. CASE buf.next = 0
  <2>1. 1..(buf.next - 1) = 1..0
    BY <1>3
  <2> QED BY <1>1, <1>2, <1>3, <2>1 DEF Sent
<1>4. CASE buf.next >= 1
  <2>1. buf.next - 1 \in Nat
    BY <1>2, <1>4
  <2> QED BY <1>1, <2>1 DEF Sent
<1> QED BY <1>2, <1>3, <1>4

LEMMA SentStaysSeq == (LogInv => SentShape)'
BY SentIsSeq, PTL

LEMMA GotIsSeq ==
  ASSUME TypeOK
  PROVE  /\ Got \in Seq(Nat) /\ Len(Got) = Len(rows) /\ DOMAIN Got = 1..Len(rows)
         /\ \A k \in 1..Len(rows) : Got[k] = rows[k].seq
<1>1. rows \in Seq(Msg) /\ DOMAIN rows = 1..Len(rows) /\ Len(rows) \in Nat
  BY DEF TypeOK
<1>2. \A k \in 1..Len(rows) : rows[k].seq \in Nat
  BY <1>1, Numbers
<1> QED BY <1>1, <1>2 DEF Got

\* A push is the emission of its content; number 0 is not one of the log's.
LEMMA PushEmits ==
  ASSUME LogInv, LogInv', NEW i \in Contents, Push(i), rows' = rows
  PROVE  Log!Emit(i) \/ UNCHANGED Log!vars
<1> DEFINE m == NextMsg(i)
<1>1. i \in Nat
  BY Sizes DEF Contents, LogInv, IInv
<1>2. /\ m.seq = buf.next /\ m.item = i /\ pushed' = pushed \union {m}
      /\ buf'.next = buf.next + 1 /\ buf.next \in Nat
  BY <1>1, PushKeeps, Sizes DEF LogInv, IInv, NextMsg
<1>3. Got' = Got
  BY DEF Got
<1>4. CASE buf.next = 0
  <2>1. 1..(buf.next - 1) = {} /\ 1..(buf'.next - 1) = {}
    BY <1>2, <1>4
  <2>2. Sent' = Sent
    BY <2>1 DEF Sent
  <2> QED BY <1>3, <2>2 DEF Sent, Got, Log!vars
<1>5. CASE buf.next >= 1
  <2>1. /\ Sent \in Seq(Nat) /\ Sent' \in Seq(Nat)
        /\ Len(Sent) = buf.next - 1 /\ Len(Sent') = buf.next
        /\ \A s \in 1..(buf.next - 1) : Sent[s] = ItemIn(pushed, s)
        /\ \A s \in 1..buf.next : Sent'[s] = ItemIn(pushed', s)
    <3>1. \A s \in 1..(buf'.next - 1) : Sent'[s] = ItemIn(pushed', s)
      BY SentStaysSeq DEF SentShape
    <3>2. Sent' \in Seq(Nat) /\ Len(Sent') = buf'.next - 1
      <4>1. (buf.next >= 1)'
        BY <1>2, <1>5
      <4> QED BY <4>1, SentStaysSeq DEF SentShape
    <3>3. buf'.next - 1 = buf.next
      BY <1>2
    <3> QED BY <1>5, <3>1, <3>2, <3>3, SentIsSeq DEF SentShape
  <2>2. \A s \in 1..(buf.next - 1) : ItemIn(pushed', s) = ItemIn(pushed, s)
    <3> SUFFICES ASSUME NEW s \in 1..(buf.next - 1) PROVE ItemIn(pushed', s) = ItemIn(pushed, s)
      OBVIOUS
    <3>1. PICK n \in pushed : n.seq = s
      BY DEF LogInv, Numbered
    <3>2. ItemIn(pushed, n.seq) = n.item
      BY Items DEF LogInv
    <3>3. ItemIn(pushed', n.seq) = n.item
      <4>1. n \in pushed'
        BY <1>2
      <4>2. \A p, q \in pushed' : p.seq = q.seq => p = q
        BY DEF LogInv, IInv, Numbering
      <4> QED BY <4>1, <4>2 DEF ItemIn
    <3> QED BY <3>1, <3>2, <3>3
  <2>3. \A s : s = buf.next => ItemIn(pushed', s) = i
    <3> SUFFICES ASSUME NEW s, s = buf.next PROVE ItemIn(pushed', s) = i
      OBVIOUS
    <3>1. m \in pushed'
      BY <1>2
    <3>2. \A p, q \in pushed' : p.seq = q.seq => p = q
      BY DEF LogInv, IInv, Numbering
    <3> HIDE DEF m
    <3>3. \A p \in pushed' : p.seq = s => p = m
      BY <1>2, <3>1, <3>2
    <3>4. (CHOOSE p \in pushed' : p.seq = s) = m
      BY <1>2, <3>1, <3>3
    <3> QED BY <1>2, <3>4 DEF ItemIn
  <2>4. /\ Append(Sent, i) \in Seq(Nat) /\ Len(Append(Sent, i)) = Len(Sent) + 1
        /\ Append(Sent, i)[Len(Sent) + 1] = i
        /\ \A s \in 1..Len(Sent) : Append(Sent, i)[s] = Sent[s]
    BY <1>1, <2>1
  <2>5. Sent' = Append(Sent, i)
    <3>1. Len(Append(Sent, i)) = Len(Sent')
      BY <1>2, <2>1, <2>4
    <3>2. ASSUME NEW s \in 1..Len(Sent') PROVE Sent'[s] = Append(Sent, i)[s]
      <4>1. CASE s \in 1..(buf.next - 1)
        BY <4>1, <2>1, <2>2, <2>4
      <4>2. CASE s = buf.next
        <5>1. s = Len(Sent) + 1 /\ s \in 1..buf.next
          BY <4>2, <1>2, <1>5, <2>1
        <5>2. Append(Sent, i)[s] = i
          BY <5>1, <2>4
        <5>3. Sent'[s] = ItemIn(pushed', s)
          BY <5>1, <2>1
        <5>4. ItemIn(pushed', s) = i
          BY <4>2, <2>3
        <5> QED BY <5>2, <5>3, <5>4
      <4> QED BY <1>2, <2>1, <4>1, <4>2
    <3> QED BY <2>1, <2>4, <3>1, <3>2, SeqEqual
  <2> QED BY <1>3, <2>5 DEF Sent, Got, Log!Emit
<1> QED BY <1>2, <1>4, <1>5

\* A row is the delivery of the next position, or of one delivered before.
LEMMA StoreDelivers ==
  ASSUME LogInv, overflowed = {}, NEW c \in Conns, BackendStore(c),
         pushed' = pushed, buf'.next = buf.next
  PROVE  \E n \in DOMAIN Sent : Log!DeliverNext(n) \/ Log!Redeliver(n)
<1> DEFINE m == hand[c].m
           n == m.seq
<1>1. /\ m \in pushed /\ m \in Msg /\ n \in Nat /\ 1 <= n /\ n < buf.next
      /\ Below(n, {}) /\ buf.next \in Nat
  BY Numbers DEF LogInv, IInv, Numbering, Gapless, Storable, BackendStore
<1>2. /\ rows \in Seq(Msg) /\ rows' = Append(rows, m)
      /\ rows' \in Seq(Msg) /\ Len(rows') = Len(rows) + 1
      /\ rows'[Len(rows) + 1] = m /\ \A k \in 1..Len(rows) : rows'[k] = rows[k]
      /\ Len(rows) \in Nat /\ DOMAIN rows' = 1..(Len(rows) + 1)
  BY <1>1 DEF LogInv, IInv, TypeOK, BackendStore
<1>3. Sent' = Sent
  BY DEF Sent
<1>4. n \in DOMAIN Sent
  BY <1>1, SentIsSeq DEF SentShape
<1> HIDE DEF m, n
<1>5. Got' = Append(Got, n)
  <2>1. /\ Got \in Seq(Nat) /\ Len(Got) = Len(rows)
        /\ \A k \in 1..Len(rows) : Got[k] = rows[k].seq
    BY GotIsSeq DEF LogInv, IInv
  <2>2. /\ Append(Got, n) \in Seq(Nat) /\ Len(Append(Got, n)) = Len(rows) + 1
        /\ Append(Got, n)[Len(rows) + 1] = n
        /\ \A k \in 1..Len(rows) : Append(Got, n)[k] = rows[k].seq
    BY <1>1, <1>2, <2>1
  <2>3. Got' = [k \in 1..(Len(rows) + 1) |-> rows'[k].seq]
    BY <1>2 DEF Got
  <2>4. \A k \in 1..(Len(rows) + 1) : rows'[k].seq \in Nat
    <3>1. \A k \in 1..(Len(rows) + 1) : rows'[k] \in Msg
      BY <1>2
    <3> QED BY <3>1 DEF Msg
  <2>5. /\ Got' \in Seq(Nat) /\ Len(Got') = Len(rows) + 1
        /\ \A k \in 1..(Len(rows) + 1) : Got'[k] = rows'[k].seq
    BY <1>2, <2>3, <2>4
  <2>6. ASSUME NEW k \in 1..Len(Got') PROVE Got'[k] = Append(Got, n)[k]
    <3>1. CASE k \in 1..Len(rows)
      BY <3>1, <1>2, <2>2, <2>5
    <3>2. CASE k = Len(rows) + 1
      <4>1. Got'[k] = rows'[k].seq
        BY <3>2, <1>2, <2>5
      <4>2. rows'[k] = m
        BY <3>2, <1>2
      <4>3. Append(Got, n)[k] = n
        BY <3>2, <2>2
      <4>4. n = m.seq
        BY DEF n
      <4> QED BY <4>1, <4>2, <4>3, <4>4
    <3>3. k \in 1..Len(rows) \/ k = Len(rows) + 1
      <4>1. Len(rows) \in Nat
        BY <1>2
      <4>2. k \in 1..(Len(rows) + 1)
        BY <2>5
      <4> QED BY <4>1, <4>2
    <3> QED BY <3>1, <3>2, <3>3
  <2> QED BY <2>2, <2>5, <2>6, SeqEqual
<1>6. CASE n \in Log!Delivered
  BY <1>3, <1>4, <1>5, <1>6 DEF Log!Redeliver, Sent, Got
<1>7. CASE n \notin Log!Delivered
  <2>1. 1..(n - 1) \subseteq Log!Delivered
    <3> SUFFICES ASSUME NEW s \in 1..(n - 1) PROVE s \in Log!Delivered
      OBVIOUS
    <3>1. PICK p \in pushed : p.seq = s
      BY <1>1 DEF LogInv, Numbered
    <3>2. p \in Stored
      BY <1>1, <3>1 DEF Below
    <3>3. PICK k \in DOMAIN rows : rows[k] = p
      BY <3>2 DEF Stored
    <3>4. k \in DOMAIN Got /\ Got[k] = s
      BY <3>1, <3>3 DEF Got
    <3> QED BY <3>4 DEF Log!Delivered, Got
  <2> QED BY <1>3, <1>4, <1>5, <1>7, <2>1 DEF Log!DeliverNext, Sent, Got
<1> QED BY <1>4, <1>6, <1>7

LEMMA LogStep ==
  ASSUME Reliable, LogInv, LogInv', overflowed = {}, [Next]_vars
  PROVE  [Log!Next]_Log!vars
<1>1. CASE rows' = rows /\ \E i \in Contents : Push(i)
  BY <1>1, PushEmits DEF Log!Next
<1>2. CASE pushed' = pushed /\ buf'.next = buf.next /\ rows' = rows
  BY <1>2 DEF Log!vars
<1>3. CASE pushed' = pushed /\ buf'.next = buf.next /\ \E c \in Conns : BackendStore(c)
  BY <1>3, StoreDelivers DEF Log!Next, Sent
<1> QED BY <1>1, <1>2, <1>3, LogSteps DEF LogInv

\* The output path as a whole (output_buffer.rs, mod.rs, message_handlers.rs):
\* through any number of disconnects, proxy exits and backend restarts, and for any
\* number of outputs, the rows of the messages table are a delivery, in order and at
\* least once, of what was numbered, as long as the buffer does not overflow.
THEOREM Refinement == Reliable => (Spec /\ [](overflowed = {}) => ImplementsLog)
<1> SUFFICES ASSUME Reliable PROVE Spec /\ [](overflowed = {}) => ImplementsLog
  OBVIOUS
<1>1. Init => Log!Init
  BY DEF Init, FreshBuffer, Log!Init
<1>2. LogInv /\ LogInv' /\ overflowed = {} /\ [Next]_vars => [Log!Next]_Log!vars
  BY LogStep
<1>3. LogInv /\ [Next]_vars => LogInv'
  BY LogInvStep
<1> QED BY <1>1, <1>2, <1>3, LogInvInit, PTL DEF Spec, ImplementsLog, Log!Spec

\* push (output_buffer.rs): a buffer with room for all the contents never overflows.
THEOREM NeverOverflows ==
  Reliable /\ MaxOutputs + MaxConn <= Capacity => (Spec => [](overflowed = {}))
<1> SUFFICES ASSUME Reliable, MaxOutputs + MaxConn <= Capacity
             PROVE  Spec => [](overflowed = {})
  OBVIOUS
<1>1. Init => overflowed = {}
  BY DEF Init
<1>2. LogInv /\ LogInv' /\ overflowed = {} /\ [Next]_vars => (overflowed = {})'
  <2> SUFFICES ASSUME LogInv, LogInv', overflowed = {}, [Next]_vars PROVE overflowed' = {}
    OBVIOUS
  <2>1. ASSUME NEW i \in Contents, Push(i) PROVE overflowed' = {}
    <3>1. i \in Nat
      BY Sizes DEF Contents, LogInv, IInv
    <3>2. buf'.next = buf.next + 1
      BY <2>1, <3>1, PushFits DEF LogInv, IInv
    <3>3. buf'.next <= made' /\ made' <= MaxOutputs + cur' /\ cur' <= MaxConn
          /\ made' \in Nat /\ cur' \in Nat /\ buf'.next \in Nat
      <4>1. /\ made' \in Nat /\ cur' \in Nat /\ cur' <= MaxConn /\ buf'.next \in Nat
            /\ Len(chan') \in Nat
        BY OutputDeliveryAssumption DEF LogInv, IInv, TypeOK, Buffer
      <4> QED BY <4>1 DEF LogInv, Produced, Counted
    <3>4. buf.next + 1 <= Capacity
      BY <3>2, <3>3, Sizes DEF LogInv, IInv
    <3> QED BY <2>1, <3>1, <3>4, PushFits DEF LogInv, IInv
  <2>2. CASE overflowed' = overflowed
    BY <2>2
  <2>3. overflowed' = overflowed \/ \E i \in Contents : Push(i)
    <3>1. CASE rows' = rows /\ \E i \in Contents : Push(i)
      BY <3>1
    <3>2. CASE pushed' = pushed /\ buf'.next = buf.next
      <4>1. \A i \in Nat : ~Push(i)
        BY <3>2, Sizes, PushFits DEF LogInv, IInv
      <4>2. /\ Announce => \E i \in Nat : Push(i)
            /\ RawOutput => \E i \in Nat : Push(i)
            /\ WiggumPush => \E i \in Nat : Push(i)
            /\ ForwarderPush => \E i \in Nat : Push(i)
        <5>1. made + 1 \in Nat /\ fwd.m.item \in Nat
          BY DEF LogInv, IInv, TypeOK, Msg
        <5> QED BY <5>1 DEF Announce, RawOutput, WiggumPush, ForwarderPush
      <4> QED BY <4>1, <4>2 DEF Next, ProxyStep, BackendStep, Connect, ReplayNext,
           ClaudeOutput, MainSend, ForwarderTake, ForwarderSend, ForwarderFails,
           ReceiveAck, Disconnect, OutputWithoutForwarder, ProxyExit, ProxyCrash,
           ProxyStart, LinkCut, BackendRestart, BackendSkip, BackendAccept, BackendStore,
           BackendStoreFails, BackendNoConnection, BackendAck, BackendSocketEnds,
           vars, history
    <3> QED BY <3>1, <3>2, LogSteps DEF LogInv
  <2> QED BY <2>1, <2>2, <2>3
<1>3. LogInv /\ [Next]_vars => LogInv'
  BY LogInvStep
<1> QED BY <1>1, <1>2, <1>3, LogInvInit, PTL DEF Spec

=============================================================================
