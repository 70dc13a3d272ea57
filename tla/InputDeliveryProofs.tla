------------------------ MODULE InputDeliveryProofs ------------------------
(***************************************************************************)
(* Theorems about InputDelivery, for any number of inputs, clients and     *)
(* connections: what holds in every interleaving and with every fault, and *)
(* what takes one client, proxies that register in order and a database    *)
(* that does not fail (Steady).                                            *)
(***************************************************************************)
EXTENDS InputDelivery, FiniteSetTheorems, TLAPS

-----------------------------------------------------------------------------
(* The strengthening.                                                       *)

Numbered == 1..accepted

\* The inputs the rows, the clients, the queue, the messages on their way and
\* the replays are about have been accepted; so their numbers are final.
OnlyAccepted ==
  /\ rows \subseteq stored
  /\ stored \subseteq Numbered
  /\ Got \subseteq Numbered
  /\ \A w \in Clients : client[w].at # "idle" => client[w].id \in Numbered
  /\ \A m \in Elements(queue) : m.kind = "input" /\ m.id \in Numbered
  /\ \A c \in Conns :
       /\ replay[c] \subseteq stored
       /\ \A m \in Elements(down[c]) : m.kind = "input" => m.id \in Numbered

\* What is acknowledged, or about to be, is the number of an input taken.
NumbersTaken == {seq[j] : j \in Got}

AcksAreTaken ==
  /\ reader \in {0} \union NumbersTaken
  /\ \A c \in Conns : Elements(up[c]) \subseteq NumbersTaken

IInv == TypeOK /\ OnlyAccepted /\ AcksAreTaken /\ DeletedWasCovered

-----------------------------------------------------------------------------
(* Sequences and their elements.                                            *)

LEMMA ElementsOfAppend ==
  ASSUME NEW S, NEW q \in Seq(S), NEW e \in S
  PROVE  /\ Append(q, e) \in Seq(S)
         /\ Elements(Append(q, e)) = Elements(q) \union {e}
<1>1. /\ DOMAIN q = 1..Len(q) /\ Len(q) \in Nat
      /\ Append(q, e) \in Seq(S)
      /\ DOMAIN Append(q, e) = 1..(Len(q) + 1)
      /\ \A i \in 1..Len(q) : Append(q, e)[i] = q[i]
      /\ Append(q, e)[Len(q) + 1] = e
  OBVIOUS
<1>2. 1..(Len(q) + 1) = 1..Len(q) \union {Len(q) + 1}
  BY <1>1
<1> HIDE DEF Elements
<1> DEFINE r == Append(q, e)
<1>3. DOMAIN r = DOMAIN q \union {Len(q) + 1} /\ r[Len(q) + 1] = e
      /\ \A i \in DOMAIN q : r[i] = q[i]
  BY <1>1, <1>2
<1> HIDE DEF r
<1>4. Elements(r) = Elements(q) \union {e}
  BY <1>3, Zenon DEF Elements
<1> QED BY <1>1, <1>4 DEF r

LEMMA ElementsOfTail ==
  ASSUME NEW S, NEW q \in Seq(S), q # <<>>
  PROVE  /\ Tail(q) \in Seq(S)
         /\ Elements(Tail(q)) \subseteq Elements(q)
         /\ Head(q) \in Elements(q)
         /\ Head(q) \in S
<1>1. /\ DOMAIN q = 1..Len(q) /\ Len(q) \in Nat \ {0}
      /\ Tail(q) \in Seq(S) /\ Len(Tail(q)) = Len(q) - 1
      /\ DOMAIN Tail(q) = 1..(Len(q) - 1)
      /\ \A i \in 1..(Len(q) - 1) : Tail(q)[i] = q[i + 1]
      /\ Head(q) = q[1] /\ q[1] \in S
  OBVIOUS
<1>2. \A i \in 1..(Len(q) - 1) : i + 1 \in 1..Len(q)
  BY <1>1
<1>3. 1 \in 1..Len(q)
  BY <1>1
<1> QED BY <1>1, <1>2, <1>3 DEF Elements

LEMMA ElementsOfEmpty == Elements(<<>>) = {}
BY DEF Elements
-----------------------------------------------------------------------------
(* Type correctness.                                                        *)

LEMMA TypeInit == Init => TypeOK
BY InputDeliveryAssumption
   DEF Init, TypeOK, Inputs, Conns, Client, Idle, Registering, Down

LEMMA AcceptedAreInputs == TypeOK => Numbered \subseteq Inputs
BY InputDeliveryAssumption DEF TypeOK, Numbered, Inputs

LEMMA MessagesAreDown ==
  /\ \A i \in Inputs, w \in BOOLEAN : Input(i, w) \in Down
  /\ \A ok \in BOOLEAN : RegisterAck(ok) \in Down
BY InputDeliveryAssumption DEF Input, RegisterAck, Down, Inputs

\* Receiving takes one message off the latest connection.
LEMMA ReceiveShape ==
  ASSUME TypeOK, NEW m, Receive(m)
  PROVE  /\ cur \in Conns
         /\ m \in Down /\ m \in Elements(down[cur])
         /\ down' \in [Conns -> Seq(Down)]
         /\ \A c \in Conns : Elements(down'[c]) \subseteq Elements(down[c])
<1>1. cur \in Conns
  BY InputDeliveryAssumption DEF TypeOK, Receive, Conns
<1>2. down[cur] \in Seq(Down) /\ down[cur] # <<>>
  BY <1>1 DEF TypeOK, Receive
<1>3. /\ Tail(down[cur]) \in Seq(Down)
      /\ Elements(Tail(down[cur])) \subseteq Elements(down[cur])
      /\ Head(down[cur]) \in Elements(down[cur]) /\ Head(down[cur]) \in Down
  BY <1>2, ElementsOfTail
<1>4. down' = [down EXCEPT ![cur] = Tail(down[cur])] /\ m = Head(down[cur])
  BY DEF Receive
<1>5. \A c \in Conns : down'[c] = IF c = cur THEN Tail(down[cur]) ELSE down[c]
  BY <1>4 DEF TypeOK
<1>6. down' \in [Conns -> Seq(Down)]
  BY <1>3, <1>4 DEF TypeOK
<1> QED BY <1>1, <1>3, <1>4, <1>5, <1>6

\* A new input gets a number, its client goes on with it.
LEMMA AllocateShape ==
  ASSUME TypeOK, NEW w \in Clients, AllocateSeq(w)
  PROVE  \E at \in {"insert", "send"}, n \in Nat :
           /\ client' = [client EXCEPT ![w] = [at |-> at, id |-> accepted + 1]]
           /\ seq' = [seq EXCEPT ![accepted + 1] = n]
<1>1. input_seq + 1 \in Nat
  BY DEF TypeOK
<1> QED BY <1>1 DEF AllocateSeq

LEMMA TypeClient ==
  ASSUME TypeOK, OnlyAccepted, NEW w \in Clients, ClientStep(w)
  PROVE  TypeOK'
<1> USE InputDeliveryAssumption
<1>1. CASE AllocateSeq(w)
  <2>1. accepted + 1 \in Inputs /\ accepted + 1 \in 0..MaxInputs
    BY <1>1 DEF TypeOK, AllocateSeq, Inputs
  <2>2. input_seq' \in Nat /\ accepted' \in 0..MaxInputs
    BY <1>1, <2>1 DEF TypeOK, AllocateSeq
  <2>. PICK at \in {"insert", "send"}, n \in Nat :
         /\ client' = [client EXCEPT ![w] = [at |-> at, id |-> accepted + 1]]
         /\ seq' = [seq EXCEPT ![accepted + 1] = n]
    BY <1>1, AllocateShape
  <2>3. seq' \in [Inputs -> Nat]
    BY <2>1 DEF TypeOK
  <2>4. client' \in [Clients -> Client]
    BY <2>1 DEF TypeOK, Client
  <2> QED BY <1>1, <2>2, <2>3, <2>4
          DEF TypeOK, AllocateSeq, registry, tasks, wires, proxies
<1>2. CASE InsertRow(w)
  <2>1. client[w].id \in Inputs
    BY <1>2, AcceptedAreInputs DEF InsertRow, OnlyAccepted
  <2>2. rows' \subseteq Inputs /\ stored' \subseteq Inputs
    BY <1>2, <2>1 DEF InsertRow, TypeOK
  <2>3. client' \in [Clients -> Client]
    BY <1>2 DEF InsertRow, TypeOK, Client
  <2> QED BY <1>2, <2>2, <2>3 DEF TypeOK, InsertRow, registry, tasks, wires, proxies
<1>3. CASE SendInput(w)
  <2>1. client[w].id \in Inputs
    BY <1>3, AcceptedAreInputs DEF SendInput, OnlyAccepted
  <2> DEFINE m == Input(client[w].id, client[w].id \in Wiggum /\ w \notin Launchers)
  <2>2. m \in Down
    BY <2>1, MessagesAreDown
  <2>3. /\ registered # 0 => /\ down' = [down EXCEPT ![registered] = Append(@, m)]
                             /\ queue' = queue
        /\ registered = 0 => queue' = Append(queue, m) /\ down' = down
        /\ client' = [client EXCEPT ![w] = Idle]
    BY <1>3 DEF SendInput
  <2> HIDE DEF m
  <2>4. queue' \in Seq(Down) /\ down' \in [Conns -> Seq(Down)]
    <3>1. CASE registered = 0
      <4>1. queue' = Append(queue, m) /\ down' = down
        BY <2>3, <3>1
      <4>2. queue' \in Seq(Down)
        BY <2>2, <4>1, ElementsOfAppend DEF TypeOK
      <4> QED BY <4>1, <4>2 DEF TypeOK
    <3>2. CASE registered # 0
      <4>1. registered \in Conns /\ down[registered] \in Seq(Down)
        BY <3>2 DEF TypeOK, Conns
      <4>2. Append(down[registered], m) \in Seq(Down)
        BY <2>2, <4>1
      <4> QED BY <2>3, <3>2, <4>1, <4>2 DEF TypeOK
    <3> QED BY <3>1, <3>2
  <2>5. client' \in [Clients -> Client]
    BY <2>3 DEF TypeOK, Client, Idle
  <2> QED BY <1>3, <2>4, <2>5 DEF TypeOK, SendInput, table, tasks, proxies
<1> QED BY <1>1, <1>2, <1>3 DEF ClientStep

LEMMA TypeBackend ==
  ASSUME TypeOK, OnlyAccepted, NEW c \in Conns, BackendStep(c)
  PROVE  TypeOK'
<1> USE InputDeliveryAssumption
<1>1. CASE RegisterSession(c)
  <2>1. registered' \in 0..MaxConn
    BY <1>1 DEF RegisterSession, Conns
  <2>2. <<>> \in Seq(Down)
    OBVIOUS
  <2> QED BY <1>1, <2>1, <2>2
          DEF TypeOK, RegisterSession, Registering, table, proxies
<1>2. CASE RegisterLost(c)
  BY <1>2 DEF TypeOK, RegisterLost, table, registry, wires, proxies
<1>3. CASE SendRegisterAck(c)
  <2>1. PICK ok \in BOOLEAN :
          /\ known' = [known EXCEPT ![c] = ok]
          /\ down' = [down EXCEPT ![c] = Append(@, RegisterAck(ok))]
          /\ backend' = [backend EXCEPT ![c] = IF ok THEN "load" ELSE "serving"]
    BY <1>3 DEF SendRegisterAck
  <2>2. RegisterAck(ok) \in Down
    BY MessagesAreDown
  <2>3. down' \in [Conns -> Seq(Down)]
    BY <2>1, <2>2 DEF TypeOK
  <2>4. /\ known' \in [Conns -> BOOLEAN]
        /\ backend' \in [Conns -> {"new", "serving", "done"} \union Registering]
    BY <2>1 DEF TypeOK, Registering
  <2> QED BY <1>3, <2>3, <2>4 DEF TypeOK, SendRegisterAck, table, registry, proxies
<1>4. CASE LoadPending(c)
  BY <1>4 DEF TypeOK, LoadPending, Registering, table, registry, wires, proxies
<1>5. CASE ReplayNext(c)
  <2>1. CASE replay[c] = {}
    BY <1>5, <2>1 DEF TypeOK, ReplayNext, table, registry, proxies
  <2>2. CASE replay[c] # {}
    <3>1. PICK i \in replay[c] :
            /\ down' = [down EXCEPT ![c] = Append(@, Input(i, FALSE))]
            /\ replay' = [replay EXCEPT ![c] = @ \ {i}]
            /\ backend' = backend
      BY <1>5, <2>2 DEF ReplayNext
    <3>2. i \in Inputs
      BY <3>1 DEF TypeOK
    <3>3. Input(i, FALSE) \in Down
      BY <3>2, MessagesAreDown
    <3>4. down' \in [Conns -> Seq(Down)] /\ replay' \in [Conns -> SUBSET Inputs]
      <4>1. Append(down[c], Input(i, FALSE)) \in Seq(Down)
        BY <3>3, ElementsOfAppend DEF TypeOK
      <4>2. down' \in [Conns -> Seq(Down)]
        BY <3>1, <4>1 DEF TypeOK
      <4>3. replay' \in [Conns -> SUBSET Inputs]
        BY <3>1 DEF TypeOK
      <4> QED BY <4>2, <4>3
    <3> QED BY <1>5, <3>1, <3>4 DEF TypeOK, ReplayNext, table, registry, proxies
  <2> QED BY <2>1, <2>2
<1>6. CASE ReadInputAck(c)
  BY <1>6 DEF TypeOK, ReadInputAck, registry, tasks, proxies
<1>7. CASE SocketEnds(c)
  BY <1>7 DEF TypeOK, SocketEnds, table, proxies
<1> QED BY <1>1, <1>2, <1>3, <1>4, <1>5, <1>6, <1>7 DEF BackendStep

LEMMA TypeProxy ==
  ASSUME TypeOK, OnlyAccepted, ProxyStep \/ AckTimeout \/ LinkCut \/ BackendRestart
  PROVE  TypeOK'
<1> USE InputDeliveryAssumption
<1>1. CASE Connect
  BY <1>1 DEF TypeOK, Connect, Conns, table, registry, tasks
<1>2. CASE AwaitAck
  <2>1. PICK m \in Down : Receive(m) /\
          \/ /\ m.kind = "ack" /\ proxy' = "up"
             /\ UNCHANGED <<cur, reader, input_rx, wiggum_rx, got, agent, link>>
          \/ LeaveConnection /\ link' = [link EXCEPT ![cur] = "cut"]
          \/ UNCHANGED <<link, proxies>>
    BY <1>2 DEF AwaitAck
  <2>2. down' \in [Conns -> Seq(Down)]
    BY <2>1, ReceiveShape
  <2>3. /\ UNCHANGED <<cur, got, agent, input_rx>>
        /\ proxy' \in {"off", "registering", "up"} /\ reader' \in Nat
        /\ wiggum_rx' \in Seq(Inputs)
        /\ link' \in [Conns -> {"unused", "open", "cut"}]
    <3>1. <<>> \in Seq(Inputs)
      OBVIOUS
    <3>2. CASE m.kind = "ack" /\ proxy' = "up" /\
               UNCHANGED <<cur, reader, input_rx, wiggum_rx, got, agent, link>>
      BY <3>2 DEF TypeOK
    <3>3. CASE LeaveConnection /\ link' = [link EXCEPT ![cur] = "cut"]
      BY <3>1, <3>3 DEF TypeOK, LeaveConnection
    <3>4. CASE UNCHANGED <<link, proxies>>
      BY <3>4 DEF TypeOK, proxies
    <3> QED BY <2>1, <3>2, <3>3, <3>4
  <2>4. UNCHANGED <<table, client, registry, tasks, up>>
    BY <1>2 DEF AwaitAck
  <2> QED BY <2>2, <2>3, <2>4 DEF TypeOK, table, registry, tasks
<1>3. CASE ReadInput
  <2>1. PICK m \in Down : Receive(m) /\
          \/ UNCHANGED <<reader, input_rx, wiggum_rx, got>>
          \/ /\ m.kind = "input" /\ got' = Append(got, m.id) /\ reader' = seq[m.id]
             /\ \/ wiggum_rx' = Append(wiggum_rx, m.id) /\ UNCHANGED input_rx
                \/ input_rx' = Append(input_rx, m.id) /\ UNCHANGED wiggum_rx
    BY <1>3 DEF ReadInput
  <2>2. down' \in [Conns -> Seq(Down)]
    BY <2>1, ReceiveShape
  <2>3. m.kind = "input" => m.id \in Inputs
    BY <2>1, ReceiveShape, AcceptedAreInputs DEF OnlyAccepted
  <2>7. m.kind = "input" => /\ Append(got, m.id) \in Seq(Inputs)
                            /\ Append(input_rx, m.id) \in Seq(Inputs)
                            /\ Append(wiggum_rx, m.id) \in Seq(Inputs)
    BY <2>3, ElementsOfAppend DEF TypeOK
  <2>4. got' \in Seq(Inputs) /\ reader' \in Nat
    <3>1. CASE UNCHANGED <<reader, got>>
      BY <3>1 DEF TypeOK
    <3>2. CASE m.kind = "input" /\ got' = Append(got, m.id) /\ reader' = seq[m.id]
      <4>1. seq[m.id] \in Nat
        BY <2>3, <3>2 DEF TypeOK
      <4> QED BY <2>7, <3>2, <4>1
    <3> QED BY <2>1, <3>1, <3>2
  <2>5. input_rx' \in Seq(Inputs) /\ wiggum_rx' \in Seq(Inputs)
    BY <2>1, <2>7 DEF TypeOK
  <2>6. UNCHANGED <<table, client, registry, tasks, link, up, cur, proxy, agent>>
    BY <1>3 DEF ReadInput
  <2> QED BY <2>2, <2>4, <2>5, <2>6 DEF TypeOK, table, registry, tasks
<1>4. CASE SendInputAck
  <2>1. CASE cur \in Conns
    <3>1. Append(up[cur], reader) \in Seq(Nat) /\ up[cur] \in Seq(Nat)
      BY <2>1 DEF TypeOK
    <3>2. up' \in [Conns -> Seq(Nat)]
      BY <1>4, <2>1, <3>1 DEF TypeOK, SendInputAck
    <3> QED BY <1>4, <3>2 DEF TypeOK, SendInputAck, table, registry, tasks
  <2>2. CASE cur \notin Conns
    <3>1. up' = up
      BY <1>4, <2>2 DEF TypeOK, SendInputAck
    <3> QED BY <1>4, <3>1 DEF TypeOK, SendInputAck, table, registry, tasks
  <2> QED BY <2>1, <2>2
<1>5. CASE TakeInput
  <2>1. input_rx' \in Seq(Inputs) /\ Head(input_rx) \in Inputs
    BY <1>5, ElementsOfTail DEF TypeOK, TakeInput
  <2>2. agent' \subseteq [id : Inputs, wiggum : BOOLEAN]
    <3>1. agent' = agent \union {[id |-> Head(input_rx), wiggum |-> FALSE]}
      BY <1>5 DEF TakeInput
    <3>2. [id |-> Head(input_rx), wiggum |-> FALSE] \in [id : Inputs, wiggum : BOOLEAN]
      BY <2>1
    <3> QED BY <3>1, <3>2, Zenon DEF TypeOK
  <2>3. UNCHANGED <<table, client, registry, tasks, wires, cur, proxy, reader,
                    wiggum_rx, got>>
    BY <1>5 DEF TakeInput
  <2> QED BY <2>1, <2>2, <2>3 DEF TypeOK, table, registry, tasks, wires
<1>6. CASE TakeWiggum
  <2>1. wiggum_rx' \in Seq(Inputs) /\ Head(wiggum_rx) \in Inputs
    BY <1>6, ElementsOfTail DEF TypeOK, TakeWiggum
  <2>2. agent' \subseteq [id : Inputs, wiggum : BOOLEAN]
    <3>1. agent' = agent \union {[id |-> Head(wiggum_rx), wiggum |-> TRUE]}
      BY <1>6 DEF TakeWiggum
    <3>2. [id |-> Head(wiggum_rx), wiggum |-> TRUE] \in [id : Inputs, wiggum : BOOLEAN]
      BY <2>1
    <3> QED BY <3>1, <3>2, Zenon DEF TypeOK
  <2>3. UNCHANGED <<table, client, registry, tasks, wires, cur, proxy, reader,
                    input_rx, got>>
    BY <1>6 DEF TakeWiggum
  <2> QED BY <2>1, <2>2, <2>3 DEF TypeOK, table, registry, tasks, wires
<1>7. CASE Disconnect
  BY <1>7 DEF TypeOK, Disconnect, LeaveConnection, table, registry, tasks, wires
<1>8. CASE AckTimeout
  BY <1>8 DEF TypeOK, AckTimeout, table, registry, tasks, wires
<1>9. CASE LinkCut
  BY <1>9 DEF TypeOK, LinkCut, table, registry, tasks, proxies
<1>10. CASE BackendRestart
  BY <1>10 DEF TypeOK, BackendRestart, Client, Idle, table, proxies
<1> QED BY <1>1, <1>2, <1>3, <1>4, <1>5, <1>6, <1>7, <1>8, <1>9, <1>10 DEF ProxyStep

LEMMA TypeStep ==
  ASSUME TypeOK, OnlyAccepted, [Next]_vars
  PROVE  TypeOK'
<1>1. CASE UNCHANGED vars
  BY <1>1 DEF TypeOK, vars, table, registry, tasks, wires, proxies
<1> QED BY <1>1, TypeClient, TypeBackend, TypeProxy DEF Next
-----------------------------------------------------------------------------
(* Only accepted inputs are about.                                          *)

\* The steps that bring up nothing new: no input is accepted, stored or taken.
Quiet ==
  /\ UNCHANGED <<accepted, seq, stored, got>>
  /\ rows' \subseteq rows

\* A message sent: the elements of what it is appended to.
LEMMA SendShape ==
  ASSUME TypeOK, NEW c \in Conns, NEW x \in Down,
         down' = [down EXCEPT ![c] = Append(@, x)]
  PROVE  \A d \in Conns : \A y \in Elements(down'[d]) :
           y \in Elements(down[d]) \/ y = x
<1>1. Elements(Append(down[c], x)) = Elements(down[c]) \union {x}
  BY ElementsOfAppend DEF TypeOK
<1>2. \A d \in Conns : down'[d] = IF d = c THEN Append(down[c], x) ELSE down[d]
  BY DEF TypeOK
<1> QED BY <1>1, <1>2

LEMMA QuietBackend ==
  ASSUME TypeOK, OnlyAccepted, NEW c \in Conns, BackendStep(c)
  PROVE  Quiet
<1>1. CASE RegisterSession(c)
  BY <1>1 DEF Quiet, RegisterSession, table, proxies
<1>2. CASE RegisterLost(c)
  BY <1>2 DEF Quiet, RegisterLost, table, proxies
<1>3. CASE SendRegisterAck(c)
  BY <1>3 DEF Quiet, SendRegisterAck, table, proxies
<1>4. CASE LoadPending(c)
  BY <1>4 DEF Quiet, LoadPending, table, proxies
<1>5. CASE ReplayNext(c)
  BY <1>5 DEF Quiet, ReplayNext, table, proxies
<1>6. CASE ReadInputAck(c)
  BY <1>6 DEF Quiet, ReadInputAck, proxies
<1>7. CASE SocketEnds(c)
  BY <1>7 DEF Quiet, SocketEnds, table, proxies
<1> QED BY <1>1, <1>2, <1>3, <1>4, <1>5, <1>6, <1>7 DEF BackendStep

LEMMA QuietProxy ==
  ASSUME TypeOK,
         (ProxyStep /\ ~ReadInput) \/ AckTimeout \/ LinkCut \/ BackendRestart
  PROVE  Quiet
<1>1. CASE Connect
  BY <1>1 DEF Quiet, Connect, table
<1>2. CASE AwaitAck
  <2>1. UNCHANGED got /\ UNCHANGED table
    BY <1>2 DEF AwaitAck, LeaveConnection, proxies
  <2> QED BY <2>1 DEF Quiet, table
<1>3. CASE SendInputAck
  BY <1>3 DEF Quiet, SendInputAck, table
<1>4. CASE TakeInput \/ TakeWiggum
  BY <1>4 DEF Quiet, TakeInput, TakeWiggum, table
<1>5. CASE Disconnect
  BY <1>5 DEF Quiet, Disconnect, LeaveConnection, table
<1>6. CASE AckTimeout \/ LinkCut \/ BackendRestart
  BY <1>6 DEF Quiet, AckTimeout, LinkCut, BackendRestart, table, proxies
<1> QED BY <1>1, <1>2, <1>3, <1>4, <1>5, <1>6 DEF ProxyStep

\* What a quiet step need show.
LEMMA QuietAccepted ==
  ASSUME TypeOK, OnlyAccepted, Quiet,
         \A w \in Clients :
           client'[w].at # "idle" => client'[w] = client[w],
         \A m \in Elements(queue') : m \in Elements(queue),
         \A c \in Conns :
           /\ replay'[c] \subseteq stored
           /\ \A m \in Elements(down'[c]) :
                m \in Elements(down[c]) \/ (m.kind = "input" => m.id \in Numbered)
  PROVE  OnlyAccepted'
<1>1. Numbered' = Numbered /\ Got' = Got
  BY DEF Quiet, Numbered, Got
<1>2. \A w \in Clients : client'[w].at # "idle" => client'[w].id \in Numbered
  BY DEF OnlyAccepted
<1>3. \A m \in Elements(queue') : m.kind = "input" /\ m.id \in Numbered
  BY DEF OnlyAccepted
<1>4. \A c \in Conns : \A m \in Elements(down'[c]) :
        m.kind = "input" => m.id \in Numbered
  BY DEF OnlyAccepted
<1>5. rows' \subseteq stored' /\ stored' \subseteq Numbered /\ Got \subseteq Numbered
  BY DEF OnlyAccepted, Quiet
<1>6. Elements(queue)' = Elements(queue') /\
      \A c \in Conns : Elements(down[c])' = Elements(down'[c])
  BY DEF Elements
<1>7. stored' = stored
  BY DEF Quiet
<1> QED BY <1>1, <1>2, <1>3, <1>4, <1>5, <1>6, <1>7 DEF OnlyAccepted

LEMMA AcceptedBackend ==
  ASSUME TypeOK, OnlyAccepted, NEW c \in Conns, BackendStep(c)
  PROVE  OnlyAccepted'
<1>0. Quiet
  BY QuietBackend
<1>1. \A d \in Conns : replay[d] \subseteq stored
  BY DEF OnlyAccepted
<1>2. client' = client
  BY DEF BackendStep, RegisterSession, RegisterLost, SendRegisterAck, LoadPending,
         ReplayNext, ReadInputAck, SocketEnds
<1>3. CASE RegisterSession(c)
  <2>1. /\ queue' = <<>> /\ replay' = replay
        /\ \A d \in Conns : down'[d] = IF d = c THEN queue ELSE down[d]
    BY <1>3 DEF RegisterSession, TypeOK
  <2>2. Elements(queue') = {}
    BY <2>1, ElementsOfEmpty
  <2>3. \A m \in Elements(queue) : m.id \in Numbered
    BY DEF OnlyAccepted
  <2> QED BY <1>0, <1>1, <1>2, <2>1, <2>2, <2>3, QuietAccepted
<1>4. CASE RegisterLost(c) \/ ReadInputAck(c)
  <2>1. UNCHANGED <<queue, replay, down>>
    BY <1>4 DEF RegisterLost, ReadInputAck, registry, tasks, wires
  <2> QED BY <1>0, <1>1, <1>2, <2>1, QuietAccepted
<1>5. CASE SendRegisterAck(c)
  <2>1. PICK ok \in BOOLEAN : down' = [down EXCEPT ![c] = Append(@, RegisterAck(ok))]
    BY <1>5 DEF SendRegisterAck
  <2>2. RegisterAck(ok) \in Down /\ RegisterAck(ok).kind # "input"
    BY MessagesAreDown DEF RegisterAck
  <2>3. \A d \in Conns : \A m \in Elements(down'[d]) :
          m \in Elements(down[d]) \/ m.kind # "input"
    <3>1. \A d \in Conns : \A m \in Elements(down'[d]) :
            m \in Elements(down[d]) \/ m = RegisterAck(ok)
      BY <2>1, <2>2, SendShape
    <3> QED BY <2>2, <3>1
  <2>4. UNCHANGED <<queue, replay>>
    BY <1>5 DEF SendRegisterAck, registry
  <2> QED BY <1>0, <1>1, <1>2, <2>3, <2>4, QuietAccepted
<1>6. CASE LoadPending(c)
  <2>1. \A d \in Conns : replay'[d] = replay[d] \/ replay'[d] = rows
    BY <1>6 DEF LoadPending, TypeOK
  <2>2. UNCHANGED <<queue, down>>
    BY <1>6 DEF LoadPending, registry, wires
  <2>3. rows \subseteq stored
    BY DEF OnlyAccepted
  <2> QED BY <1>0, <1>1, <1>2, <2>1, <2>2, <2>3, QuietAccepted
<1>7. CASE ReplayNext(c)
  <2>1. CASE replay[c] = {}
    <3>1. UNCHANGED <<queue, replay, down>>
      BY <1>7, <2>1 DEF ReplayNext, registry
    <3> QED BY <1>0, <1>1, <1>2, <3>1, QuietAccepted
  <2>2. CASE replay[c] # {}
    <3>1. PICK i \in replay[c] :
            /\ down' = [down EXCEPT ![c] = Append(@, Input(i, FALSE))]
            /\ replay' = [replay EXCEPT ![c] = @ \ {i}]
      BY <1>7, <2>2 DEF ReplayNext
    <3>2. i \in Inputs /\ i \in Numbered
      BY <3>1 DEF TypeOK, OnlyAccepted
    <3>3. Input(i, FALSE) \in Down /\ Input(i, FALSE).id = i
      BY <3>2, MessagesAreDown DEF Input
    <3>4. \A d \in Conns : \A m \in Elements(down'[d]) :
            m \in Elements(down[d]) \/ m.id \in Numbered
      <4>1. \A d \in Conns : \A m \in Elements(down'[d]) :
              m \in Elements(down[d]) \/ m = Input(i, FALSE)
        BY <3>1, <3>3, SendShape
      <4> QED BY <3>2, <3>3, <4>1
    <3>5. \A d \in Conns : replay'[d] \subseteq stored
      BY <1>1, <3>1 DEF TypeOK
    <3>6. UNCHANGED queue
      BY <1>7 DEF ReplayNext, registry
    <3> QED BY <1>0, <1>2, <3>4, <3>5, <3>6, QuietAccepted
  <2> QED BY <2>1, <2>2
<1>8. CASE SocketEnds(c)
  <2>1. \A d \in Conns : down'[d] = down[d] \/ down'[d] = <<>>
    BY <1>8 DEF SocketEnds, TypeOK
  <2>2. UNCHANGED <<queue, replay>>
    BY <1>8 DEF SocketEnds
  <2> QED BY <1>0, <1>1, <1>2, <2>1, <2>2, ElementsOfEmpty, QuietAccepted
<1> QED BY <1>3, <1>4, <1>5, <1>6, <1>7, <1>8 DEF BackendStep
LEMMA AcceptedClient ==
  ASSUME TypeOK, OnlyAccepted, NEW w \in Clients, ClientStep(w)
  PROVE  OnlyAccepted'
<1> USE InputDeliveryAssumption
<1>1. Got' = Got /\ UNCHANGED <<got, replay>>
  BY DEF ClientStep, AllocateSeq, InsertRow, SendInput, Got, proxies, tasks
<1>2. CASE AllocateSeq(w)
  <2>1. PICK at \in {"insert", "send"} :
          client' = [client EXCEPT ![w] = [at |-> at, id |-> accepted + 1]]
    BY <1>2, AllocateShape
  <2>2. accepted' = accepted + 1 /\ UNCHANGED <<rows, stored, queue, down>>
    BY <1>2 DEF AllocateSeq, registry, wires
  <2>3. Numbered' = 1..(accepted + 1) /\ Numbered \subseteq Numbered'
        /\ accepted + 1 \in Numbered'
    BY <2>2 DEF Numbered, TypeOK
  <2>4. \A v \in Clients : client'[v].at # "idle" => client'[v].id \in Numbered'
    <3>1. \A v \in Clients : client'[v] = IF v = w THEN [at |-> at, id |-> accepted + 1]
                                          ELSE client[v]
      BY <2>1 DEF TypeOK
    <3>2. \A v \in Clients : client[v].at # "idle" => client[v].id \in Numbered
      BY DEF OnlyAccepted
    <3>3. [at |-> at, id |-> accepted + 1].id = accepted + 1
      OBVIOUS
    <3> QED BY <2>3, <3>1, <3>2, <3>3
  <2>5. /\ Elements(queue)' = Elements(queue)
        /\ \A c \in Conns : Elements(down[c])' = Elements(down[c])
    BY <2>2 DEF Elements
  <2> QED BY <1>1, <2>2, <2>3, <2>4, <2>5 DEF OnlyAccepted
<1>3. CASE InsertRow(w)
  <2>1. client[w].id \in Numbered
    BY <1>3 DEF InsertRow, OnlyAccepted
  <2>2. /\ UNCHANGED <<accepted, queue, down>>
        /\ client' = [client EXCEPT ![w] = [at |-> "send", id |-> client[w].id]]
        /\ \/ /\ rows' = rows \union {client[w].id}
              /\ stored' = stored \union {client[w].id}
           \/ UNCHANGED <<rows, stored>>
    BY <1>3 DEF InsertRow, registry, wires
  <2>3. Numbered' = Numbered
    BY <2>2 DEF Numbered
  <2>4. \A v \in Clients : client'[v].at # "idle" => client'[v].id \in Numbered
    <3>1. \A v \in Clients : client'[v] = IF v = w THEN [at |-> "send", id |-> client[w].id]
                                          ELSE client[v]
      BY <2>2 DEF TypeOK
    <3> QED BY <2>1, <3>1 DEF OnlyAccepted
  <2>5. /\ Elements(queue)' = Elements(queue)
        /\ \A c \in Conns : Elements(down[c])' = Elements(down[c])
    BY <2>2 DEF Elements
  <2>6. rows' \subseteq stored' /\ stored' \subseteq Numbered /\ stored \subseteq stored'
    BY <2>1, <2>2 DEF OnlyAccepted
  <2> QED BY <1>1, <2>3, <2>4, <2>5, <2>6 DEF OnlyAccepted
<1>4. CASE SendInput(w)
  <2> DEFINE m == Input(client[w].id, client[w].id \in Wiggum /\ w \notin Launchers)
  <2>1. client[w].id \in Numbered /\ client[w].id \in Inputs
    BY <1>4, AcceptedAreInputs DEF SendInput, OnlyAccepted
  <2>2. m \in Down /\ m.kind = "input" /\ m.id \in Numbered
    BY <2>1, MessagesAreDown DEF Input
  <2>3. /\ registered # 0 => /\ down' = [down EXCEPT ![registered] = Append(@, m)]
                             /\ queue' = queue
        /\ registered = 0 => queue' = Append(queue, m) /\ down' = down
        /\ client' = [client EXCEPT ![w] = Idle]
        /\ UNCHANGED table
    BY <1>4 DEF SendInput
  <2> HIDE DEF m
  <2>4. Quiet
    BY <1>1, <2>3 DEF Quiet, table
  <2>5. \A v \in Clients : client'[v].at # "idle" => client'[v] = client[v]
    BY <2>3 DEF TypeOK, Idle
  <2>6. \A c \in Conns : \A x \in Elements(down'[c]) : x \in Elements(down[c]) \/ x = m
    <3>1. registered # 0 => registered \in Conns
      BY DEF TypeOK, Conns
    <3> QED BY <2>2, <2>3, <3>1, SendShape
  <2>7. \A x \in Elements(queue') : x \in Elements(queue) \/ x = m
    <3>1. Elements(Append(queue, m)) = Elements(queue) \union {m}
      BY <2>2, ElementsOfAppend DEF TypeOK
    <3> QED BY <2>3, <3>1
  <2>8. \A x \in Elements(queue') : x.kind = "input" /\ x.id \in Numbered
    BY <2>2, <2>7 DEF OnlyAccepted
  <2>9. Elements(queue)' = Elements(queue') /\ Numbered' = Numbered /\
        \A c \in Conns : Elements(down[c])' = Elements(down'[c])
    BY <2>4 DEF Elements, Numbered, Quiet
  <2>10. UNCHANGED <<rows, stored>>
    BY <2>3 DEF table
  <2> QED BY <1>1, <2>2, <2>5, <2>6, <2>8, <2>9, <2>10 DEF OnlyAccepted
<1> QED BY <1>2, <1>3, <1>4 DEF ClientStep

LEMMA AcceptedProxy ==
  ASSUME TypeOK, OnlyAccepted, ProxyStep \/ AckTimeout \/ LinkCut \/ BackendRestart
  PROVE  OnlyAccepted'
<1>1. CASE ReadInput
  <2>1. PICK m \in Down : Receive(m) /\
          (got' = got \/ (m.kind = "input" /\ got' = Append(got, m.id)))
    BY <1>1 DEF ReadInput
  <2>2. m \in Elements(down[cur]) /\ cur \in Conns
        /\ \A c \in Conns : Elements(down'[c]) \subseteq Elements(down[c])
    BY <2>1, ReceiveShape
  <2>3. m.kind = "input" => m.id \in Numbered /\ m.id \in Inputs
    BY <2>2, AcceptedAreInputs DEF OnlyAccepted
  <2>4. Got' \subseteq Numbered
    <3>1. m.kind = "input" => Elements(Append(got, m.id)) = Elements(got) \union {m.id}
      BY <2>3, ElementsOfAppend DEF TypeOK
    <3>2. Got' = Elements(got')
      BY DEF Got, Elements
    <3>3. Got \subseteq Numbered
      BY DEF OnlyAccepted
    <3> QED BY <2>1, <2>3, <3>1, <3>2, <3>3 DEF Got
  <2>5. UNCHANGED <<accepted, rows, stored, client, queue, replay>>
    BY <1>1 DEF ReadInput, table, registry, tasks
  <2>6. Elements(queue)' = Elements(queue) /\ Numbered' = Numbered /\
        \A c \in Conns : Elements(down[c])' = Elements(down'[c])
    BY <2>5 DEF Elements, Numbered
  <2> QED BY <2>2, <2>4, <2>5, <2>6 DEF OnlyAccepted
<1>2. CASE ~ReadInput
  <2>1. Quiet
    BY <1>2, QuietProxy
  <2>2. \A c \in Conns : replay[c] \subseteq stored
    BY DEF OnlyAccepted
  <2>3. CASE BackendRestart
    <3>1. /\ \A w \in Clients : client'[w].at = "idle"
          /\ queue' = <<>>
          /\ \A c \in Conns : replay'[c] = {} /\ down'[c] = <<>>
      BY <2>3 DEF BackendRestart, Idle
    <3> QED BY <2>1, <3>1, ElementsOfEmpty, QuietAccepted
  <2>4. CASE ~BackendRestart
    <3>1. UNCHANGED <<client, queue, replay>>
      BY <1>2, <2>4 DEF ProxyStep, Connect, AwaitAck, SendInputAck, TakeInput, TakeWiggum,
              Disconnect, AckTimeout, LinkCut, registry, tasks
    <3>2. \A c \in Conns : Elements(down'[c]) \subseteq Elements(down[c])
      <4>1. CASE AwaitAck
        <5>1. PICK m \in Down : Receive(m)
          BY <4>1 DEF AwaitAck
        <5> QED BY <5>1, ReceiveShape
      <4>2. CASE ~AwaitAck
        <5>1. UNCHANGED down
          BY <1>2, <2>4, <4>2
             DEF ProxyStep, Connect, SendInputAck, TakeInput, TakeWiggum, Disconnect,
                 AckTimeout, LinkCut, wires
        <5> QED BY <5>1
      <4> QED BY <4>1, <4>2
    <3> QED BY <2>1, <2>2, <3>1, <3>2, QuietAccepted
  <2> QED BY <2>3, <2>4
<1> QED BY <1>1, <1>2

LEMMA AcceptedStep ==
  ASSUME TypeOK, OnlyAccepted, [Next]_vars
  PROVE  OnlyAccepted'
<1>1. CASE UNCHANGED vars
  <2>1. /\ \A w \in Clients : client'[w] = client[w]
        /\ queue' = queue /\ replay' = replay /\ down' = down /\ Quiet
    BY <1>1 DEF vars, table, registry, tasks, wires, proxies, Quiet
  <2>2. \A c \in Conns : replay[c] \subseteq stored
    BY DEF OnlyAccepted
  <2> QED BY <2>1, <2>2, QuietAccepted
<1> QED BY <1>1, AcceptedClient, AcceptedBackend, AcceptedProxy DEF Next

LEMMA AcceptedInit == Init => OnlyAccepted
<1> SUFFICES ASSUME Init PROVE OnlyAccepted
  OBVIOUS
<1>1. Got = {} /\ Elements(queue) = {} /\ \A c \in Conns : Elements(down[c]) = {}
  BY ElementsOfEmpty DEF Init, Got
<1> QED BY <1>1 DEF Init, OnlyAccepted, Idle
-----------------------------------------------------------------------------
(* Acknowledgments are of inputs taken, and only they delete rows.          *)

\* What was stored, taken and numbered stays so.
LEMMA HistoryGrows ==
  ASSUME TypeOK, OnlyAccepted, [Next]_vars
  PROVE  /\ stored \subseteq stored' /\ Got \subseteq Got'
         /\ \A i \in Numbered : seq'[i] = seq[i]
         /\ NumbersTaken \subseteq NumbersTaken'
<1>1. /\ stored \subseteq stored' /\ Got \subseteq Got'
      /\ \A i \in Numbered : seq'[i] = seq[i]
  <2>1. CASE Quiet
    BY <2>1 DEF Quiet, Got, Elements
  <2>2. CASE \E w \in Clients : AllocateSeq(w)
    <3>1. PICK n \in Nat : seq' = [seq EXCEPT ![accepted + 1] = n]
      BY <2>2, AllocateShape
    <3>2. \A i \in Numbered : i # accepted + 1 /\ i \in Inputs
      BY AcceptedAreInputs DEF Numbered, TypeOK
    <3>3. \A i \in Numbered : seq'[i] = seq[i]
      BY <3>1, <3>2 DEF TypeOK
    <3> QED BY <2>2, <3>3 DEF AllocateSeq, Got, Elements, proxies
  <2>3. CASE \E w \in Clients : InsertRow(w) \/ SendInput(w)
    BY <2>3 DEF InsertRow, SendInput, Got, Elements, proxies, table
  <2>4. CASE ReadInput
    <3>1. PICK m \in Down : Receive(m) /\
            (got' = got \/ (m.kind = "input" /\ got' = Append(got, m.id)))
      BY <2>4 DEF ReadInput
    <3>2. m.kind = "input" => m.id \in Inputs
      BY <3>1, ReceiveShape, AcceptedAreInputs DEF OnlyAccepted
    <3>3. m.kind = "input" => Elements(Append(got, m.id)) = Elements(got) \union {m.id}
      BY <3>2, ElementsOfAppend DEF TypeOK
    <3>4. Got' = Elements(got')
      BY DEF Got, Elements
    <3>5. UNCHANGED <<stored, seq>>
      BY <2>4 DEF ReadInput, table
    <3> QED BY <3>1, <3>3, <3>4, <3>5 DEF Got
  <2>5. CASE UNCHANGED vars
    BY <2>5 DEF vars, table, proxies, Got, Elements
  <2> QED BY <2>1, <2>2, <2>3, <2>4, <2>5, QuietBackend, QuietProxy
          DEF Next, ClientStep
<1>2. \A j \in Got : seq'[j] = seq[j]
  BY <1>1 DEF OnlyAccepted
<1> QED BY <1>1, <1>2 DEF NumbersTaken

LEMMA AcksStep ==
  ASSUME TypeOK, OnlyAccepted, AcksAreTaken, [Next]_vars
  PROVE  AcksAreTaken'
<1>1. NumbersTaken \subseteq NumbersTaken'
  BY HistoryGrows
<1>2. \A c \in Conns : Elements(up[c])' = Elements(up'[c])
  BY DEF Elements
<1>3. SUFFICES /\ reader' \in {0} \union NumbersTaken'
               /\ \A c \in Conns : Elements(up'[c]) \subseteq NumbersTaken'
  BY <1>2 DEF AcksAreTaken
<1>4. /\ reader \in {0} \union NumbersTaken'
      /\ \A c \in Conns : Elements(up[c]) \subseteq NumbersTaken'
  BY <1>1 DEF AcksAreTaken
<1>5. CASE ReadInput
  <2>1. PICK m \in Down : Receive(m) /\
          \/ reader' = reader
          \/ m.kind = "input" /\ got' = Append(got, m.id) /\ reader' = seq[m.id]
    BY <1>5 DEF ReadInput
  <2>2. up' = up /\ seq' = seq
    BY <1>5 DEF ReadInput, table
  <2>3. CASE reader' = reader
    BY <1>4, <2>2, <2>3
  <2>4. CASE m.kind = "input" /\ got' = Append(got, m.id) /\ reader' = seq[m.id]
    <3>1. m.id \in Inputs
      BY <2>1, <2>4, ReceiveShape, AcceptedAreInputs DEF OnlyAccepted
    <3>2. m.id \in Elements(got')
      BY <2>4, <3>1, ElementsOfAppend DEF TypeOK
    <3>3. Got' = Elements(got')
      BY DEF Got, Elements
    <3>4. seq[m.id] \in NumbersTaken'
      BY <2>2, <3>2, <3>3 DEF NumbersTaken
    <3> QED BY <1>4, <2>2, <2>4, <3>4
  <2> QED BY <2>1, <2>3, <2>4
<1>6. CASE SendInputAck
  <2>1. reader' = 0 /\ reader \in NumbersTaken'
    BY <1>4, <1>6 DEF SendInputAck
  <2>2. reader \in Nat
    BY DEF TypeOK
  <2>3. \A c \in Conns : Elements(up'[c]) \subseteq Elements(up[c]) \union {reader}
    <3>1. \A c \in Conns : up'[c] = up[c] \/ up'[c] = Append(up[c], reader)
      BY <1>6 DEF SendInputAck, TypeOK
    <3>2. \A c \in Conns :
            Elements(Append(up[c], reader)) = Elements(up[c]) \union {reader}
      <4> TAKE c \in Conns
      <4>1. up[c] \in Seq(Nat)
        BY DEF TypeOK
      <4> QED BY <2>2, <4>1, ElementsOfAppend
    <3> QED BY <3>1, <3>2
  <2> QED BY <1>4, <2>1, <2>3
<1>7. CASE \E c \in Conns : ReadInputAck(c)
  <2>1. PICK c \in Conns : up[c] # <<>> /\ up' = [up EXCEPT ![c] = Tail(@)]
    BY <1>7 DEF ReadInputAck
  <2>2. \A d \in Conns : up'[d] = IF d = c THEN Tail(up[c]) ELSE up[d]
    BY <2>1 DEF TypeOK
  <2>3. Elements(Tail(up[c])) \subseteq Elements(up[c])
    BY <2>1, ElementsOfTail DEF TypeOK
  <2>4. reader' = reader
    BY <1>7 DEF ReadInputAck, proxies
  <2> QED BY <1>4, <2>2, <2>3, <2>4
<1>8. CASE BackendRestart \/ \E c \in Conns : SocketEnds(c)
  <2>1. \A d \in Conns : up'[d] = up[d] \/ up'[d] = <<>>
    BY <1>8 DEF BackendRestart, SocketEnds, TypeOK
  <2>2. reader' = reader
    BY <1>8 DEF BackendRestart, SocketEnds, proxies
  <2> QED BY <1>4, <2>1, <2>2, ElementsOfEmpty
<1>9. CASE AwaitAck \/ Disconnect
  <2>1. up' = up /\ reader' \in {0, reader}
    BY <1>9 DEF AwaitAck, Disconnect, LeaveConnection, proxies, wires
  <2> QED BY <1>4, <2>1
<1>10. CASE \/ \E w \in Clients : ClientStep(w)
            \/ Connect \/ TakeInput \/ TakeWiggum \/ AckTimeout \/ LinkCut
            \/ UNCHANGED vars
  <2>1. UNCHANGED <<up, reader>>
    BY <1>10 DEF ClientStep, AllocateSeq, InsertRow, SendInput, Connect, TakeInput,
         TakeWiggum, AckTimeout, LinkCut, vars, wires, proxies
  <2> QED BY <1>4, <2>1
<1>11. CASE \E c \in Conns : \/ RegisterSession(c) \/ RegisterLost(c)
                             \/ SendRegisterAck(c) \/ LoadPending(c) \/ ReplayNext(c)
  <2>1. UNCHANGED <<up, reader>>
    BY <1>11 DEF RegisterSession, RegisterLost, SendRegisterAck, LoadPending,
         ReplayNext, wires, proxies
  <2> QED BY <1>4, <2>1
<1> QED BY <1>5, <1>6, <1>7, <1>8, <1>9, <1>10, <1>11 DEF Next, BackendStep, ProxyStep

\* Rows are deleted by acknowledgments only.
LEMMA RowsLeave ==
  ASSUME TypeOK, OnlyAccepted, [Next]_vars
  PROVE  \/ stored' \ rows' \subseteq stored \ rows
         \/ /\ UNCHANGED <<stored, seq>>
            /\ \E c \in Conns : up[c] # <<>> /\ rows' = rows \ Covered(Head(up[c]))
<1>1. CASE \E c \in Conns : ReadInputAck(c)
  BY <1>1 DEF ReadInputAck
<1>2. CASE \E w \in Clients : ClientStep(w)
  BY <1>2 DEF ClientStep, AllocateSeq, InsertRow, SendInput, table
<1>3. CASE ReadInput \/ UNCHANGED vars
  BY <1>3 DEF ReadInput, vars, table
<1>4. CASE \E c \in Conns : BackendStep(c) /\ ~ReadInputAck(c)
  <2>1. UNCHANGED table
    BY <1>4 DEF BackendStep, RegisterSession, RegisterLost, SendRegisterAck,
         LoadPending, ReplayNext, SocketEnds
  <2> QED BY <2>1 DEF table
<1>5. CASE (ProxyStep /\ ~ReadInput) \/ AckTimeout \/ LinkCut \/ BackendRestart
  <2>1. UNCHANGED table
    BY <1>5 DEF ProxyStep, Connect, AwaitAck, SendInputAck, TakeInput, TakeWiggum,
         Disconnect, AckTimeout, LinkCut, BackendRestart
  <2> QED BY <2>1 DEF table
<1> QED BY <1>1, <1>2, <1>3, <1>4, <1>5 DEF Next

LEMMA DeletedStep ==
  ASSUME TypeOK, OnlyAccepted, AcksAreTaken, DeletedWasCovered, [Next]_vars
  PROVE  DeletedWasCovered'
<1>1. /\ Got \subseteq Got' /\ stored \subseteq Numbered /\ Got \subseteq Numbered
      /\ \A i \in Numbered : seq'[i] = seq[i]
  BY HistoryGrows DEF OnlyAccepted
<1>2. \A i \in stored \ rows : \E j \in Got' : seq'[j] >= seq'[i]
  BY <1>1 DEF DeletedWasCovered
<1>3. CASE stored' \ rows' \subseteq stored \ rows
  BY <1>2, <1>3 DEF DeletedWasCovered
<1>4. CASE /\ UNCHANGED <<stored, seq>>
           /\ \E c \in Conns : up[c] # <<>> /\ rows' = rows \ Covered(Head(up[c]))
  <2>1. PICK c \in Conns : up[c] # <<>> /\ rows' = rows \ Covered(Head(up[c]))
    BY <1>4
  <2>2. Head(up[c]) \in Elements(up[c])
    BY <2>1, ElementsOfTail DEF TypeOK
  <2>3. PICK j \in Got : seq[j] = Head(up[c])
    BY <2>2 DEF AcksAreTaken, NumbersTaken
  <2>4. SUFFICES ASSUME NEW i \in stored', i \notin rows'
                 PROVE  \E k \in Got' : seq'[k] >= seq'[i]
    BY DEF DeletedWasCovered
  <2>5. CASE i \notin rows
    BY <1>2, <1>4, <2>4, <2>5
  <2>6. CASE i \in rows
    <3>1. seq[i] <= seq[j] /\ i \in Inputs /\ j \in Inputs
      BY <1>1, <1>4, <2>1, <2>3, <2>4, <2>6, AcceptedAreInputs DEF Covered
    <3>2. seq[i] \in Nat /\ seq[j] \in Nat
      BY <3>1 DEF TypeOK
    <3> QED BY <1>1, <1>4, <2>3, <3>1, <3>2
  <2> QED BY <2>5, <2>6
<1> QED BY <1>3, <1>4, RowsLeave

-----------------------------------------------------------------------------
(* The theorems.                                                            *)

LEMMA IInvInit == Init => IInv
<1> SUFFICES ASSUME Init PROVE IInv
  OBVIOUS
<1>1. \A c \in Conns : Elements(up[c]) = {}
  BY ElementsOfEmpty DEF Init
<1>2. AcksAreTaken /\ DeletedWasCovered
  BY <1>1 DEF Init, AcksAreTaken, DeletedWasCovered
<1> QED BY <1>2, TypeInit, AcceptedInit DEF IInv

LEMMA IInvStep == IInv /\ [Next]_vars => IInv'
BY TypeStep, AcceptedStep, AcksStep, DeletedStep DEF IInv

\* Every variable keeps its type, for any number of inputs and connections.
THEOREM TypeCorrect == Spec => []TypeOK
<1>1. IInv => TypeOK
  BY DEF IInv
<1> QED BY <1>1, IInvInit, IInvStep, PTL DEF Spec

\* Whatever fails and in whichever order clients, backend and proxy run, an
\* input leaves the table only when the proxy's reader took it or a later one.
THEOREM DeletionsAreCovered == Spec => []DeletedWasCovered
<1>1. IInv => DeletedWasCovered
  BY DEF IInv
<1> QED BY <1>1, IInvInit, IInvStep, PTL DEF Spec

-----------------------------------------------------------------------------
(* Order and completeness: what KeptInOrder needs, where one client sends,  *)
(* proxies register one by one and the database does not fail.              *)

Steady ==
  /\ Orderly
  /\ Faults \subseteq {"restart"}
  /\ \A v, w \in Clients : v = w

\* The proxy may come to read the k-th message: it is up, or it is waiting for
\* an acknowledgment that comes before it.
Readable(q, up_, k) ==
  q[k].kind = "input" /\ (up_ \/ \E l \in 1..(k - 1) : q[l].kind = "ack")

Comes(q, up_, j) == \E k \in DOMAIN q : Readable(q, up_, k) /\ q[k].id = j

AckIn(q) == \E k \in DOMAIN q : q[k].kind = "ack"

\* Before an input of the queue, the lower ones of S come, unless they are in G.
InOrder(q, up_, S, G) ==
  \A k \in DOMAIN q : Readable(q, up_, k) =>
    \A j \in S : j < q[k].id =>
      j \in G \/ \E l \in 1..(k - 1) : Readable(q, up_, l) /\ q[l].id = j

\* Numbers are those of acceptance, and a client holds the latest input.
OneNumbering ==
  /\ input_seq = accepted
  /\ \A i \in Numbered : seq[i] = i
  /\ \A w \in Clients : client[w].at # "idle" => client[w].id = accepted

Open == cur # 0 /\ link[cur] = "open"
Up == proxy = "up"

\* Connections are opened one after the other, ...
Opened ==
  /\ registered <= cur
  /\ \A c \in Conns :
       IF c <= cur THEN link[c] # "unused"
       ELSE link[c] = "unused" /\ backend[c] = "new" /\ down[c] = <<>>

\* ... and the last one is the registered one from its Register message on; the
\* proxy reads nothing before its RegisterAck.
Handshake ==
  Open =>
    /\ proxy # "off"
    /\ backend[cur] \in {"new", "ack"} => ~Up /\ ~AckIn(down[cur])
    /\ backend[cur] \in {"load", "replay", "serving"} => Up \/ AckIn(down[cur])
    /\ backend[cur] # "new" =>
         /\ registered = cur /\ backend[cur] # "done"
         /\ \A d \in 1..(cur - 1) : backend[d] # "new"

ReadInOrder == Open => InOrder(down[cur], Up, stored, Got)

\* Once the rows are loaded every stored input was taken, is to be replayed, is
\* on its way, or is with the client.
Replaying == IF backend[cur] = "replay" THEN replay[cur] ELSE {}
Sending == {client[w].id : w \in {v \in Clients : client[v].at = "send"}}

Complete ==
  (Open /\ backend[cur] \in {"replay", "serving"}) =>
    \A j \in stored : \/ j \in Got \union Replaying \union Sending
                      \/ Comes(down[cur], Up, j)

Wire == Handshake /\ ReadInOrder /\ Complete

Kept == OneNumbering /\ Opened /\ Wire /\ FirstInOrder /\ InputKept

-----------------------------------------------------------------------------
(* Queues that grow at their end and are read from their beginning.         *)

LEMMA AppendIsRead ==
  ASSUME NEW q \in Seq(Down), NEW m \in Down, NEW u \in BOOLEAN, NEW S, NEW G,
         InOrder(q, u, S, G),
         m.kind = "input" => \A j \in S : j < m.id => j \in G \/ Comes(q, u, j)
  PROVE  /\ InOrder(Append(q, m), u, S, G)
         /\ \A j : Comes(q, u, j) => Comes(Append(q, m), u, j)
         /\ AckIn(Append(q, m)) <=> (AckIn(q) \/ m.kind = "ack")
         /\ (m.kind = "input" /\ (u \/ AckIn(q))) => Comes(Append(q, m), u, m.id)
<1> DEFINE r == Append(q, m)
           n == Len(q)
<1>1. /\ n \in Nat /\ DOMAIN q = 1..n /\ DOMAIN r = 1..(n + 1)
      /\ r[n + 1] = m /\ \A k \in 1..n : r[k] = q[k]
  OBVIOUS
<1> HIDE DEF r, n
<1>2. \A k \in 1..n : /\ k \in 1..(n + 1) /\ k \in DOMAIN q
                      /\ \A l \in 1..(k - 1) : l \in 1..n /\ r[l] = q[l]
  BY <1>1
<1>3. \A k \in 1..n : Readable(r, u, k) <=> Readable(q, u, k)
  BY <1>1, <1>2 DEF Readable
<1>4. InOrder(r, u, S, G)
  <2> SUFFICES ASSUME NEW k \in 1..(n + 1), Readable(r, u, k),
                      NEW j \in S, j < r[k].id, j \notin G
               PROVE  \E l \in 1..(k - 1) : Readable(r, u, l) /\ r[l].id = j
    BY <1>1 DEF InOrder
  <2>1. CASE k \in 1..n
    <3>1. PICK l \in 1..(k - 1) : Readable(q, u, l) /\ q[l].id = j
      BY <1>1, <1>2, <1>3, <2>1 DEF InOrder
    <3> QED BY <1>2, <1>3, <2>1, <3>1
  <2>2. CASE k = n + 1
    <3>1. m.kind = "input"
      BY <1>1, <2>2 DEF Readable
    <3>2. PICK l \in 1..n : Readable(q, u, l) /\ q[l].id = j
      BY <1>1, <2>2, <3>1 DEF Comes
    <3> QED BY <1>1, <1>3, <2>2, <3>2
  <2> QED BY <1>1, <2>1, <2>2
<1>5. \A j : Comes(q, u, j) => Comes(r, u, j)
  BY <1>1, <1>2, <1>3 DEF Comes
<1>6. AckIn(r) <=> (AckIn(q) \/ m.kind = "ack")
  BY <1>1, <1>2 DEF AckIn
<1>7. (m.kind = "input" /\ (u \/ AckIn(q))) => Comes(r, u, m.id)
  <2> SUFFICES ASSUME m.kind = "input", u \/ AckIn(q) PROVE Comes(r, u, m.id)
    OBVIOUS
  <2>1. AckIn(q) => \E l \in 1..((n + 1) - 1) : r[l].kind = "ack"
    BY <1>1 DEF AckIn
  <2>2. Readable(r, u, n + 1)
    BY <1>1, <2>1 DEF Readable
  <2> QED BY <1>1, <2>2 DEF Comes
<1> QED BY <1>4, <1>5, <1>6, <1>7 DEF r

LEMMA TailIsRead ==
  ASSUME NEW q \in Seq(Down), q # <<>>, NEW u \in BOOLEAN, NEW v \in BOOLEAN,
         NEW S, NEW G,
         InOrder(q, u, S, G),
         v = (u \/ Head(q).kind = "ack")
  PROVE  /\ InOrder(Tail(q), v, S,
                    G \union (IF u /\ Head(q).kind = "input" THEN {Head(q).id} ELSE {}))
         /\ \A j : Comes(q, u, j) =>
              Comes(Tail(q), v, j) \/ (u /\ Head(q).kind = "input" /\ j = Head(q).id)
         /\ AckIn(q) => AckIn(Tail(q)) \/ Head(q).kind = "ack"
         /\ AckIn(Tail(q)) => AckIn(q)
         /\ (u /\ Head(q).kind = "input") => \A j \in S : j < Head(q).id => j \in G
<1> DEFINE r == Tail(q)
           n == Len(q)
           m == Head(q)
           H == IF u /\ m.kind = "input" THEN {m.id} ELSE {}
<1>1. /\ n \in Nat \ {0} /\ DOMAIN q = 1..n /\ DOMAIN r = 1..(n - 1)
      /\ m = q[1] /\ \A k \in 1..(n - 1) : r[k] = q[k + 1]
  OBVIOUS
<1> HIDE DEF r, n, m
<1>2. \A k \in 1..n : k = 1 \/ (k - 1 \in 1..(n - 1) /\ r[k - 1] = q[k])
  <2>1. \A k \in 1..n : k = 1 \/ (k - 1 \in 1..(n - 1) /\ (k - 1) + 1 = k)
    BY <1>1
  <2> QED BY <1>1, <2>1
<1>3. \A k \in 1..(n - 1) : k + 1 \in 1..n /\ (k + 1) - 1 = k
  BY <1>1
<1>4. v = (u \/ m.kind = "ack")
  BY DEF m
<1>5. \A k \in 1..(n - 1) : Readable(r, v, k) <=> Readable(q, u, k + 1)
  <2> TAKE k \in 1..(n - 1)
  <2>1. r[k] = q[k + 1]
    BY <1>1
  <2>2. ASSUME v \/ \E l \in 1..(k - 1) : r[l].kind = "ack"
        PROVE  u \/ \E l \in 1..k : q[l].kind = "ack"
    <3>1. CASE v
      <4>1. 1 \in 1..k
        BY <1>1
      <4> QED BY <1>1, <1>4, <3>1, <4>1
    <3>2. CASE \E l \in 1..(k - 1) : r[l].kind = "ack"
      <4>1. PICK l \in 1..(k - 1) : r[l].kind = "ack"
        BY <3>2
      <4>2. l \in 1..(n - 1) /\ l + 1 \in 1..k
        BY <1>1
      <4> QED BY <1>1, <4>1, <4>2
    <3> QED BY <2>2, <3>1, <3>2
  <2>3. ASSUME u \/ \E l \in 1..k : q[l].kind = "ack"
        PROVE  v \/ \E l \in 1..(k - 1) : r[l].kind = "ack"
    <3>1. CASE u
      BY <1>4, <3>1
    <3>2. CASE \E l \in 1..k : q[l].kind = "ack"
      <4>1. PICK l \in 1..k : q[l].kind = "ack"
        BY <3>2
      <4>2. l \in 1..n /\ (l # 1 => l - 1 \in 1..(k - 1))
        BY <1>1
      <4> QED BY <1>1, <1>2, <1>4, <4>1, <4>2
    <3> QED BY <2>3, <3>1, <3>2
  <2> QED BY <1>3, <2>1, <2>2, <2>3 DEF Readable
<1>6. Readable(q, u, 1) <=> (u /\ m.kind = "input")
  BY <1>1 DEF Readable
<1>7. InOrder(r, v, S, G \union H)
  <2> SUFFICES ASSUME NEW k \in 1..(n - 1), Readable(r, v, k),
                      NEW j \in S, j < r[k].id, j \notin G \union H
               PROVE  \E l \in 1..(k - 1) : Readable(r, v, l) /\ r[l].id = j
    BY <1>1 DEF InOrder
  <2>1. PICK l \in 1..k : Readable(q, u, l) /\ q[l].id = j
    BY <1>1, <1>3, <1>5 DEF InOrder
  <2>2. l # 1
    BY <1>1, <1>6, <2>1
  <2>3. l - 1 \in 1..(k - 1) /\ l - 1 \in 1..(n - 1) /\ (l - 1) + 1 = l
    BY <1>1, <2>2
  <2>4. Readable(r, v, l - 1) /\ r[l - 1].id = j
    BY <1>1, <1>5, <2>1, <2>3
  <2> QED BY <2>3, <2>4
<1>8. \A j : Comes(q, u, j) => Comes(r, v, j) \/ j \in H
  <2> SUFFICES ASSUME NEW j, Comes(q, u, j) PROVE Comes(r, v, j) \/ j \in H
    OBVIOUS
  <2>1. PICK k \in 1..n : Readable(q, u, k) /\ q[k].id = j
    BY <1>1 DEF Comes
  <2>2. CASE k = 1
    BY <1>1, <1>6, <2>1, <2>2
  <2>3. CASE k # 1
    <3>1. k - 1 \in 1..(n - 1) /\ (k - 1) + 1 = k
      BY <1>1, <2>3
    <3>2. Readable(r, v, k - 1) /\ r[k - 1].id = j
      BY <1>1, <1>5, <2>1, <3>1
    <3> QED BY <1>1, <3>1, <3>2 DEF Comes
  <2> QED BY <2>2, <2>3
<1>9. (AckIn(q) => AckIn(r) \/ m.kind = "ack") /\ (AckIn(r) => AckIn(q))
  BY <1>1, <1>2, <1>3 DEF AckIn
<1>10. (u /\ m.kind = "input") => \A j \in S : j < m.id => j \in G
  <2>1. 1 \in DOMAIN q /\ ~ \E l \in 1..(1 - 1) : TRUE
    BY <1>1
  <2> QED BY <1>1, <1>6, <2>1 DEF InOrder
<1> QED BY <1>7, <1>8, <1>9, <1>10 DEF r, m

\* An input is added to S that is not lower than what comes; G may grow.
LEMMA GrownInOrder ==
  ASSUME NEW q, NEW u, NEW S, NEW G, NEW T, NEW H,
         InOrder(q, u, S, G), G \subseteq H,
         \A j \in T : j \in S \/ \A k \in DOMAIN q : q[k].kind = "input" => ~(j < q[k].id)
  PROVE  InOrder(q, u, T, H)
BY DEF InOrder, Readable

-----------------------------------------------------------------------------
(* One step.                                                                *)

LEMMA PrimedReads ==
  /\ InOrder(down[cur], Up, stored, Got)' <=> InOrder(down'[cur'], Up', stored', Got')
  /\ AckIn(down[cur])' <=> AckIn(down'[cur'])
  /\ \A j : Comes(down[cur], Up, j)' <=> Comes(down'[cur'], Up', j)
BY DEF InOrder, AckIn, Comes, Readable

LEMMA NoFailures ==
  ASSUME Steady
  PROVE  ~DbError /\ Orderly /\ "ack_timeout" \notin Faults
BY DEF Steady, DbError

LEMMA OneNumberingStep ==
  ASSUME Steady, TypeOK, OnlyAccepted, OneNumbering, [Next]_vars
  PROVE  OneNumbering'
<1> USE InputDeliveryAssumption
<1>0. ~DbError /\ "ack_timeout" \notin Faults
  BY NoFailures
<1>1. CASE \E w \in Clients : AllocateSeq(w)
  <2>1. PICK w \in Clients : AllocateSeq(w)
    BY <1>1
  <2>2. /\ accepted' = accepted + 1 /\ input_seq' = input_seq + 1
        /\ accepted < MaxInputs
        /\ client' = [client EXCEPT ![w] = [at |-> "insert", id |-> accepted + 1]]
        /\ seq' = [seq EXCEPT ![accepted + 1] = input_seq + 1]
    BY <1>0, <2>1 DEF AllocateSeq
  <2>3. accepted + 1 \in Inputs
    BY <2>2 DEF TypeOK, Inputs
  <2>4. \A i \in 1..(accepted + 1) :
          i \in Inputs /\ (i # accepted + 1 => i \in Numbered)
    BY <2>2 DEF TypeOK, Inputs, Numbered
  <2>5. \A i \in 1..(accepted + 1) : seq'[i] = i
    BY <2>2, <2>3, <2>4 DEF TypeOK, OneNumbering
  <2>6. \A v \in Clients : client'[v].at # "idle" => client'[v].id = accepted'
    <3>1. \A v \in Clients : v = w
      BY DEF Steady
    <3>2. client'[w] = [at |-> "insert", id |-> accepted + 1]
      BY <2>2 DEF TypeOK
    <3> QED BY <2>2, <3>1, <3>2
  <2> QED BY <2>2, <2>5, <2>6 DEF OneNumbering, Numbered
<1>2. CASE \E w \in Clients : InsertRow(w) \/ SendInput(w)
  <2>1. PICK w \in Clients : InsertRow(w) \/ SendInput(w)
    BY <1>2
  <2>2. UNCHANGED <<accepted, input_seq, seq>>
    BY <2>1 DEF InsertRow, SendInput, table
  <2>3. \A v \in Clients : client'[v].at # "idle" =>
          client'[v].id = client[v].id /\ client[v].at # "idle"
    <3>1. \/ /\ client[w].at # "idle"
             /\ client' = [client EXCEPT ![w] = [at |-> "send", id |-> client[w].id]]
          \/ client' = [client EXCEPT ![w] = Idle]
      BY <2>1 DEF InsertRow, SendInput
    <3>2. client \in [Clients -> Client]
      BY DEF TypeOK
    <3>3. \A v \in Clients :
            \/ client'[v] = client[v]
            \/ client'[v] = [at |-> "send", id |-> client[v].id] /\ client[v].at # "idle"
            \/ client'[v] = Idle
      BY <3>1, <3>2
    <3>4. Idle.at = "idle" /\ \A i : [at |-> "send", id |-> i].id = i
      BY DEF Idle
    <3> QED BY <3>3, <3>4
  <2> QED BY <2>2, <2>3 DEF OneNumbering, Numbered
<1>3. CASE BackendRestart
  BY <1>3 DEF BackendRestart, OneNumbering, Numbered, Idle, table
<1>4. CASE (\E c \in Conns : BackendStep(c)) \/ ProxyStep \/ LinkCut \/ UNCHANGED vars
  <2>1. UNCHANGED <<accepted, input_seq, seq, client>>
    <3>1. CASE \E c \in Conns : BackendStep(c)
      BY <3>1 DEF BackendStep, RegisterSession, RegisterLost, SendRegisterAck, LoadPending,
         ReplayNext, ReadInputAck, SocketEnds, table
    <3>2. CASE ProxyStep \/ LinkCut \/ UNCHANGED vars
      BY <3>2 DEF ProxyStep, Connect, AwaitAck, ReadInput, SendInputAck, TakeInput,
         TakeWiggum, Disconnect, LinkCut, table, vars
    <3> QED BY <1>4, <3>1, <3>2
  <2> QED BY <2>1 DEF OneNumbering, Numbered
<1>5. ~AckTimeout
  BY <1>0 DEF AckTimeout
<1> QED BY <1>1, <1>2, <1>3, <1>4, <1>5 DEF Next, ClientStep

LEMMA OpenedStep ==
  ASSUME TypeOK, Opened, [Next]_vars
  PROVE  Opened'
<1> USE InputDeliveryAssumption
<1>1. CASE Connect
  <2>1. /\ cur' = cur + 1 /\ cur \in Nat /\ cur < MaxConn
        /\ link' = [link EXCEPT ![cur + 1] = "open"]
        /\ UNCHANGED <<registered, backend, down>>
    BY <1>1 DEF Connect, TypeOK, registry, tasks
  <2>2. registered' <= cur'
    BY <2>1 DEF Opened, TypeOK
  <2>3. \A c \in Conns : c <= cur + 1 => c <= cur \/ c = cur + 1
    BY <2>1 DEF Conns
  <2>4. \A c \in Conns : ~(c <= cur + 1) => ~(c <= cur) /\ c # cur + 1
    BY <2>1 DEF Conns
  <2> QED BY <2>1, <2>2, <2>3, <2>4 DEF Opened, TypeOK
<1>2. CASE \E c \in Conns : BackendStep(c)
  <2>1. PICK c \in Conns : BackendStep(c)
    BY <1>2
  <2>2. c <= cur
    BY <2>1 DEF Opened, BackendStep, RegisterSession, MayRegister, RegisterLost,
       SendRegisterAck, LoadPending, ReplayNext, ReadInputAck, SocketEnds
  <2>3. UNCHANGED <<cur, link>> /\ (registered' = registered \/ registered' = c
                                     \/ registered' = 0)
    BY <2>1 DEF BackendStep, RegisterSession, RegisterLost, SendRegisterAck, LoadPending,
       ReplayNext, ReadInputAck, SocketEnds, registry, wires, proxies
  <2>4. registered' <= cur'
    BY <2>2, <2>3 DEF Opened, TypeOK
  <2>5. \A d \in Conns : d # c => down'[d] = down[d] /\ backend'[d] = backend[d]
    BY <2>1 DEF BackendStep, RegisterSession, RegisterLost, SendRegisterAck, LoadPending,
       ReplayNext, ReadInputAck, SocketEnds, tasks, wires, TypeOK
  <2> QED BY <2>2, <2>3, <2>4, <2>5 DEF Opened
<1>3. CASE \E w \in Clients : ClientStep(w)
  <2>1. UNCHANGED <<cur, link, backend, registered>>
    BY <1>3 DEF ClientStep, AllocateSeq, InsertRow, SendInput, registry, wires, tasks,
       proxies
  <2>2. \A d \in Conns : d # registered => down'[d] = down[d]
    BY <1>3 DEF ClientStep, AllocateSeq, InsertRow, SendInput, wires, TypeOK
  <2>3. \A d \in Conns : ~(d <= cur) => d # registered
    BY DEF Opened
  <2> QED BY <2>1, <2>2, <2>3 DEF Opened
<1>4. CASE (ProxyStep /\ ~Connect) \/ LinkCut \/ AckTimeout \/ UNCHANGED vars
  <2>1. UNCHANGED <<cur, backend, registered>>
    BY <1>4 DEF ProxyStep, AwaitAck, ReadInput, SendInputAck, TakeInput, TakeWiggum,
       Disconnect, LinkCut, AckTimeout, vars, registry, tasks, proxies, LeaveConnection
  <2>2. link' = link \/ link' = [link EXCEPT ![cur] = "cut"]
    BY <1>4 DEF ProxyStep, AwaitAck, ReadInput, SendInputAck, TakeInput, TakeWiggum,
       Disconnect, LinkCut, AckTimeout, vars, wires
  <2>3. \A d \in Conns : d # cur => down'[d] = down[d]
    BY <1>4 DEF ProxyStep, AwaitAck, ReadInput, SendInputAck, TakeInput, TakeWiggum,
       Disconnect, LinkCut, AckTimeout, vars, wires, Receive, TypeOK
  <2>4. \A d \in Conns : ~(d <= cur) => d # cur
    BY DEF TypeOK, Conns
  <2>5. \A d \in Conns : /\ d # cur => link'[d] = link[d]
                         /\ link[d] # "unused" => link'[d] # "unused"
    BY <2>2 DEF TypeOK
  <2> QED BY <2>1, <2>3, <2>4, <2>5 DEF Opened
<1>5. CASE BackendRestart
  <2>1. UNCHANGED cur /\ registered' = 0 /\ cur \in Nat
    BY <1>5 DEF BackendRestart, proxies, TypeOK
  <2>2. \A c \in Conns : /\ down'[c] = <<>>
                         /\ link[c] = "unused" => link'[c] = "unused" /\ backend'[c] = "new"
                         /\ link[c] # "unused" => link'[c] # "unused"
    BY <1>5 DEF BackendRestart
  <2> QED BY <2>1, <2>2 DEF Opened
<1> QED BY <1>1, <1>2, <1>3, <1>4, <1>5 DEF Next

\* The steps that leave alone what the wires' invariant is about.
Still ==
  Open' =>
    /\ Open /\ cur' = cur /\ proxy' = proxy
    /\ down'[cur] = down[cur] /\ backend'[cur] = backend[cur]
    /\ backend[cur] # "new" => registered' = registered
    /\ replay'[cur] = replay[cur]
    /\ \A d \in 1..(cur - 1) : backend[d] # "new" => backend'[d] # "new"
    /\ Sending \subseteq Sending'
    /\ stored' = stored /\ got' = got

LEMMA StillWire ==
  ASSUME Wire, Still
  PROVE  Wire'
<1>0. SUFFICES ASSUME Open' PROVE Wire'
  BY DEF Wire, Handshake, ReadInOrder, Complete
<1>1. /\ Open /\ cur' = cur /\ proxy' = proxy /\ (Up' <=> Up)
      /\ down'[cur'] = down[cur] /\ backend'[cur'] = backend[cur]
      /\ backend[cur] # "new" => registered' = registered
      /\ replay'[cur'] = replay[cur]
      /\ \A d \in 1..(cur - 1) : backend[d] # "new" => backend'[d] # "new"
      /\ Sending \subseteq Sending' /\ stored' = stored
  BY <1>0 DEF Still, Up
<1>2. Got' = Got
  BY <1>0 DEF Still, Got, Elements
<1>3. /\ InOrder(down[cur], Up, stored, Got)' <=> InOrder(down[cur], Up, stored, Got)
      /\ AckIn(down[cur])' <=> AckIn(down[cur])
      /\ \A j : Comes(down[cur], Up, j)' <=> Comes(down[cur], Up, j)
  BY <1>1, <1>2 DEF InOrder, AckIn, Comes, Readable, Up
<1>4. Replaying' = Replaying
  BY <1>1 DEF Replaying
<1>5. Handshake'
  BY <1>1, <1>3 DEF Wire, Handshake
<1>6. ReadInOrder'
  BY <1>1, <1>3 DEF Wire, ReadInOrder
<1>7. Complete'
  BY <1>1, <1>2, <1>3, <1>4 DEF Wire, Complete
<1> QED BY <1>5, <1>6, <1>7 DEF Wire

LEMMA OpenInConns ==
  ASSUME TypeOK, cur # 0
  PROVE  cur \in Conns
BY InputDeliveryAssumption DEF TypeOK, Conns

\* What the backend does with an earlier connection, or one that is cut, does
\* not disturb the last one.
LEMMA BackendStill ==
  ASSUME Steady, TypeOK, Opened, Wire, NEW c \in Conns, BackendStep(c),
         ReadInputAck(c) \/ c # cur \/ ~Open
  PROVE  Still
<1>0. SUFFICES ASSUME Open' PROVE Still
  BY DEF Still
<1>1. UNCHANGED <<cur, link, proxy, stored, got, client>>
  BY DEF BackendStep, RegisterSession, RegisterLost, SendRegisterAck, LoadPending,
     ReplayNext, ReadInputAck, SocketEnds, wires, proxies, table
<1>2. Open /\ cur \in Conns /\ Sending' = Sending
  BY <1>0, <1>1, OpenInConns DEF Open, Sending
<1>3. CASE ReadInputAck(c)
  BY <1>1, <1>2, <1>3 DEF Still, ReadInputAck, registry, tasks
<1>4. CASE c # cur /\ ~ReadInputAck(c)
  <2>1. /\ down'[cur] = down[cur] /\ backend'[cur] = backend[cur]
        /\ replay'[cur] = replay[cur]
    <3> USE DEF TypeOK
    <3>1. CASE RegisterSession(c) \/ RegisterLost(c)
      BY <1>2, <1>4, <3>1 DEF RegisterSession, RegisterLost, wires
    <3>2. CASE SendRegisterAck(c) \/ LoadPending(c)
      BY <1>2, <1>4, <3>2 DEF SendRegisterAck, LoadPending, wires
    <3>3. CASE ReplayNext(c)
      <4>1. /\ backend' = backend \/ backend' = [backend EXCEPT ![c] = "serving"]
            /\ \/ UNCHANGED <<down, replay>>
               \/ \E i \in replay[c] :
                    /\ down' = [down EXCEPT ![c] = Append(@, Input(i, FALSE))]
                    /\ replay' = [replay EXCEPT ![c] = @ \ {i}]
        BY <3>3 DEF ReplayNext
      <4> QED BY <1>2, <1>4, <4>1
    <3>4. CASE SocketEnds(c)
      BY <1>2, <1>4, <3>4 DEF SocketEnds
    <3> QED BY <1>4, <3>1, <3>2, <3>3, <3>4 DEF BackendStep
  <2>2. \A d \in Conns : backend[d] # "new" => backend'[d] # "new"
    BY <1>4 DEF BackendStep, RegisterSession, RegisterLost, SendRegisterAck,
       LoadPending, ReplayNext, SocketEnds, TypeOK
  <2>3. \A d \in 1..(cur - 1) : d \in Conns
    BY <1>2, InputDeliveryAssumption DEF Conns
  <2>4. ASSUME backend[cur] # "new" PROVE registered' = registered
    <3>1. registered = cur /\ \A d \in 1..(cur - 1) : backend[d] # "new"
      BY <1>2, <2>4 DEF Wire, Handshake
    <3>2. CASE RegisterSession(c)
      <4>1. backend[c] = "new" /\ link[c] # "unused"
        BY <3>2 DEF RegisterSession, MayRegister
      <4>2. c <= cur
        BY <4>1 DEF Opened
      <4>3. c \in 1..(cur - 1)
        BY <1>2, <1>4, <4>2 DEF Conns
      <4> QED BY <3>1, <4>1, <4>3
    <3>3. CASE SocketEnds(c)
      BY <1>4, <3>1, <3>3 DEF SocketEnds
    <3> QED BY <1>4, <3>2, <3>3 DEF BackendStep, RegisterLost, SendRegisterAck,
       LoadPending, ReplayNext, registry
  <2> QED BY <1>1, <1>2, <2>1, <2>2, <2>3, <2>4 DEF Still
<1> QED BY <1>2, <1>3, <1>4

LEMMA OthersStill ==
  ASSUME Steady, TypeOK, Opened, Wire,
         \/ \E w \in Clients : AllocateSeq(w)
         \/ SendInputAck \/ TakeInput \/ TakeWiggum \/ Disconnect
         \/ LinkCut \/ BackendRestart \/ AckTimeout \/ UNCHANGED vars
  PROVE  Still
<1>0. SUFFICES ASSUME Open' PROVE Still
  BY DEF Still
<1>1. CASE \E w \in Clients : AllocateSeq(w)
  <2>1. PICK w \in Clients : AllocateSeq(w)
    BY <1>1
  <2>2. UNCHANGED <<cur, link, proxy, stored, got, down, backend, registered, replay>>
    BY <2>1 DEF AllocateSeq, registry, tasks, wires, proxies
  <2>3. client[w].at = "idle" /\ \A v \in Clients : v # w => client'[v] = client[v]
    <3>1. client[w].at = "idle"
      BY <2>1 DEF AllocateSeq
    <3>2. PICK at \in {"insert", "send"} :
            client' = [client EXCEPT ![w] = [at |-> at, id |-> accepted + 1]]
      BY <2>1, AllocateShape
    <3> QED BY <3>1, <3>2 DEF TypeOK
  <2>4. Sending \subseteq Sending'
    BY <2>3 DEF Sending
  <2> QED BY <1>0, <2>2, <2>4 DEF Still, Open
<1>2. CASE SendInputAck \/ TakeInput \/ TakeWiggum \/ UNCHANGED vars
  <2>1. UNCHANGED <<cur, link, proxy, stored, got, down, backend, registered, replay,
                    client>>
    BY <1>2 DEF SendInputAck, TakeInput, TakeWiggum, vars, table, registry, tasks, wires,
       proxies
  <2> QED BY <1>0, <2>1 DEF Still, Open, Sending
<1>3. CASE Disconnect \/ LinkCut \/ BackendRestart
  <2>1. cur' = cur /\ (cur # 0 => cur \in Conns)
    BY <1>3, OpenInConns DEF Disconnect, LinkCut, BackendRestart, LeaveConnection, proxies
  <2>2. cur # 0 => link'[cur] # "open"
    BY <1>3, <2>1 DEF Disconnect, LinkCut, BackendRestart, wires, TypeOK
  <2> QED BY <1>0, <2>1, <2>2 DEF Open
<1>4. ~AckTimeout
  BY NoFailures DEF AckTimeout
<1> QED BY <1>1, <1>2, <1>3, <1>4

\* A row is inserted: its input is with the client, and none is higher.
LEMMA InsertWire ==
  ASSUME Steady, TypeOK, OnlyAccepted, OneNumbering, Opened, Wire,
         NEW w \in Clients, InsertRow(w)
  PROVE  Wire'
<1>0. SUFFICES ASSUME Open' PROVE Wire'
  BY DEF Wire, Handshake, ReadInOrder, Complete
<1> DEFINE i == client[w].id
<1>1. /\ UNCHANGED <<cur, link, proxy, got, down, backend, registered, replay>>
      /\ stored' \subseteq stored \union {i} /\ client[w].at # "idle"
      /\ client' = [client EXCEPT ![w] = [at |-> "send", id |-> i]]
  BY DEF InsertRow, registry, tasks, wires, proxies
<1>2. i = accepted /\ accepted \in Nat
  BY <1>1 DEF OneNumbering, TypeOK
<1> HIDE DEF i
<1>3. Open /\ cur \in Conns /\ Got' = Got /\ (Up' <=> Up) /\ Replaying' = Replaying
  BY <1>0, <1>1, OpenInConns DEF Open, Got, Elements, Up, Replaying
<1>4. i \in Sending' /\ Sending \subseteq Sending'
  <2>1. client'[w] = [at |-> "send", id |-> i] /\ \A v \in Clients : v # w => client'[v] = client[v]
    BY <1>1 DEF TypeOK
  <2>2. Sending \subseteq Sending' \union {i}
    <3>1. \A v \in Clients : client[v].at = "send" => v # w \/ client[v].id = i
      BY DEF i
    <3> QED BY <2>1, <3>1 DEF Sending
  <2>3. i \in Sending'
    <3>1. client'[w].at = "send" /\ client'[w].id = i
      BY <2>1
    <3> QED BY <3>1 DEF Sending
  <2> QED BY <2>2, <2>3
<1>5. \A k \in DOMAIN down[cur] :
        down[cur][k].kind = "input" => ~(i < down[cur][k].id)
  <2> TAKE k \in DOMAIN down[cur]
  <2> HAVE down[cur][k].kind = "input"
  <2>1. down[cur][k].id \in Numbered
    BY <1>3 DEF OnlyAccepted, Elements
  <2> QED BY <1>2, <2>1 DEF Numbered
<1>6. ReadInOrder'
  <2>1. InOrder(down[cur], Up, stored, Got)
    BY <1>3 DEF Wire, ReadInOrder
  <2>2. InOrder(down[cur], Up, stored', Got')
    BY <1>1, <1>3, <1>5, <2>1, GrownInOrder
  <2>3. InOrder(down[cur], Up, stored, Got)' <=> InOrder(down[cur], Up, stored', Got')
    BY <1>1 DEF InOrder, Readable, Up
  <2> QED BY <2>2, <2>3 DEF ReadInOrder
<1>7. Complete'
  <2>1. \A j : Comes(down[cur], Up, j)' <=> Comes(down[cur], Up, j)
    BY <1>1 DEF Comes, Readable, Up
  <2> QED BY <1>1, <1>3, <1>4, <2>1 DEF Wire, Complete
<1>8. Handshake'
  <2>1. AckIn(down[cur])' <=> AckIn(down[cur])
    BY <1>1 DEF AckIn
  <2> QED BY <1>1, <1>3, <2>1 DEF Wire, Handshake
<1> QED BY <1>6, <1>7, <1>8 DEF Wire

\* A message is sent on the last connection, which the proxy reads in order.
LEMMA SentWire ==
  ASSUME Steady, TypeOK, OnlyAccepted, OneNumbering, Opened, Wire,
         NEW w \in Clients, SendInput(w)
  PROVE  Wire'
<1>0. SUFFICES ASSUME Open' PROVE Wire'
  BY DEF Wire, Handshake, ReadInOrder, Complete
<1> DEFINE i == client[w].id
           m == Input(i, i \in Wiggum /\ w \notin Launchers)
<1>1. /\ UNCHANGED <<cur, link, proxy, got, stored, backend, registered, replay>>
      /\ client[w].at = "send"
      /\ client' = [client EXCEPT ![w] = Idle]
      /\ registered # 0 => down' = [down EXCEPT ![registered] = Append(@, m)]
      /\ registered = 0 => down' = down
      /\ \A c \in Conns : backend[c] \notin Registering
  BY NoFailures DEF SendInput, table, tasks, proxies
<1>2. i = accepted /\ i \in Numbered /\ i \in Inputs
  BY <1>1, AcceptedAreInputs DEF OneNumbering, OnlyAccepted
<1>3. m \in Down /\ m.kind = "input" /\ m.id = i
  BY <1>2, MessagesAreDown DEF Input
<1> HIDE DEF i, m
<1>4. Open /\ cur \in Conns /\ Got' = Got /\ (Up' <=> Up) /\ Replaying' = Replaying
  BY <1>0, <1>1, OpenInConns DEF Open, Got, Elements, Up, Replaying
<1>5. down[cur] \in Seq(Down) /\ backend[cur] \in {"new", "serving", "done"}
  BY <1>1, <1>4 DEF TypeOK
<1>6. CASE registered # cur
  <2>1. registered \in Conns \union {0}
    BY DEF TypeOK, Conns
  <2>2. down'[cur] = down[cur]
    BY <1>1, <1>4, <1>6, <2>1 DEF TypeOK
  <2>3. backend[cur] = "new"
    BY <1>4, <1>6 DEF Wire, Handshake
  <2>4. /\ InOrder(down[cur], Up, stored, Got)' <=> InOrder(down[cur], Up, stored, Got)
        /\ AckIn(down[cur])' <=> AckIn(down[cur])
    BY <1>1, <1>4, <2>2 DEF InOrder, AckIn, Readable, Up
  <2> QED BY <1>1, <1>4, <2>3, <2>4 DEF Wire, Handshake, ReadInOrder, Complete
<1>7. CASE registered = cur
  <2> DEFINE q == down[cur]
             r == Append(q, m)
  <2>1. down'[cur] = r /\ q \in Seq(Down)
    BY <1>1, <1>4, <1>5, <1>7 DEF Open, TypeOK
  <2>2. ASSUME backend[cur] = "serving"
        PROVE  /\ Up \/ AckIn(q)
               /\ \A j \in stored : j \in Got \union {i} \/ Comes(q, Up, j)
    <3>1. Sending \subseteq {i}
      BY DEF Steady, Sending, i
    <3>2. Replaying = {}
      BY <2>2 DEF Replaying
    <3> QED BY <1>4, <2>2, <3>1, <3>2 DEF Wire, Complete, Handshake
  <2>3. InOrder(q, Up, stored, Got)
    BY <1>4 DEF Wire, ReadInOrder
  <2>4. backend[cur] = "new" => ~Up /\ ~AckIn(q)
    BY <1>4 DEF Wire, Handshake
  <2>5. ~(i < i)
    BY <1>2 DEF Inputs
  <2> HIDE DEF q, r
  <2>6. CASE backend[cur] = "serving"
    <3>1. \A j \in stored : j < m.id => j \in Got \/ Comes(q, Up, j)
      BY <1>3, <2>2, <2>5, <2>6
    <3>2. Up \in BOOLEAN
      BY DEF Up
    <3>3. /\ InOrder(r, Up, stored, Got)
          /\ \A j : Comes(q, Up, j) => Comes(r, Up, j)
          /\ AckIn(r) <=> (AckIn(q) \/ m.kind = "ack")
          /\ (m.kind = "input" /\ (Up \/ AckIn(q))) => Comes(r, Up, m.id)
      BY <1>3, <2>1, <2>3, <3>1, <3>2, AppendIsRead DEF r
    <3>4. /\ InOrder(down[cur], Up, stored, Got)' <=> InOrder(r, Up, stored, Got)
          /\ AckIn(down[cur])' <=> AckIn(r)
          /\ \A j : Comes(down[cur], Up, j)' <=> Comes(r, Up, j)
      BY <1>1, <1>4, <2>1 DEF InOrder, AckIn, Comes, Readable, Up
    <3>5. Complete'
      <4>1. \A j \in stored' : j \in Got' \/ Comes(r, Up, j)
        BY <1>1, <1>3, <1>4, <2>2, <2>6, <3>3
      <4> QED BY <1>1, <3>4, <4>1 DEF Complete
    <3>6. AckIn(q) => AckIn(r)
      BY <3>3
    <3> QED BY <1>1, <1>4, <2>2, <2>6, <3>3, <3>4, <3>5, <3>6
            DEF Wire, Handshake, ReadInOrder, q
  <2>7. CASE backend[cur] # "serving"
    <3>1. backend[cur] = "new"
      BY <1>4, <1>5, <2>7 DEF Wire, Handshake
    <3>2. \A k \in DOMAIN r : ~(r[k].kind = "ack")
      <4>1. Elements(r) = Elements(q) \union {m}
        BY <1>3, <2>1, ElementsOfAppend DEF r
      <4>2. \A x \in Elements(q) : x.kind # "ack"
        BY <2>4, <3>1 DEF AckIn, Elements
      <4> QED BY <1>3, <4>1, <4>2 DEF Elements
    <3>3. ~Up
      BY <2>4, <3>1
    <3>4. ~AckIn(r)
      BY <3>2 DEF AckIn
    <3>5. InOrder(r, Up, stored, Got)
      <4>1. DOMAIN r = 1..Len(r) /\ Len(r) \in Nat
        BY <1>3, <2>1 DEF r
      <4>2. \A k \in DOMAIN r : \A l \in 1..(k - 1) : l \in DOMAIN r
        BY <4>1
      <4> QED BY <3>2, <3>3, <4>2 DEF InOrder, Readable
    <3>6. /\ InOrder(down[cur], Up, stored, Got)' <=> InOrder(r, Up, stored, Got)
          /\ AckIn(down[cur])' <=> AckIn(r)
      BY <1>1, <1>4, <2>1 DEF InOrder, AckIn, Readable, Up
    <3> QED BY <1>1, <1>4, <3>1, <3>3, <3>4, <3>5, <3>6
            DEF Wire, Handshake, ReadInOrder, Complete
  <2> QED BY <2>6, <2>7
<1> QED BY <1>6, <1>7

\* The last connection registers, and is answered.
LEMMA RegisteringWire ==
  ASSUME Steady, TypeOK, OnlyAccepted, Opened, Wire, Open,
         RegisterSession(cur) \/ SendRegisterAck(cur)
  PROVE  Wire'
<1>1. /\ UNCHANGED <<cur, link, proxy, got, stored>> /\ cur \in Conns
      /\ (Up' <=> Up) /\ Up \in BOOLEAN
      /\ Open' /\ Got' = Got
  BY OpenInConns
     DEF RegisterSession, SendRegisterAck, wires, proxies, table, Open, Got, Elements, Up
<1>2. CASE RegisterSession(cur)
  <2>1. /\ backend[cur] = "new" /\ down'[cur] = queue
        /\ registered' = cur /\ backend'[cur] = "ack"
        /\ \A d \in Conns : d # cur => backend'[d] = backend[d]
        /\ \A d \in 1..(cur - 1) : backend[d] # "new"
    BY <1>1, <1>2, NoFailures DEF RegisterSession, MayRegister, TypeOK
  <2>2. \A d \in 1..(cur - 1) : d \in Conns /\ d # cur
    BY <1>1, InputDeliveryAssumption DEF Conns
  <2>3. ~Up /\ proxy # "off"
    BY <2>1 DEF Wire, Handshake
  <2>4. \A k \in DOMAIN queue : queue[k].kind = "input"
    BY DEF OnlyAccepted, Elements
  <2>5. \A k \in DOMAIN queue : \A l \in 1..(k - 1) : l \in DOMAIN queue
    <3>1. DOMAIN queue = 1..Len(queue) /\ Len(queue) \in Nat
      BY DEF TypeOK
    <3> QED BY <3>1
  <2>6. ~AckIn(queue) /\ InOrder(queue, Up, stored, Got)
    BY <2>3, <2>4, <2>5 DEF AckIn, InOrder, Readable
  <2>7. /\ InOrder(down[cur], Up, stored, Got)' <=> InOrder(queue, Up, stored, Got)
        /\ AckIn(down[cur])' <=> AckIn(queue)
    BY <1>1, <2>1 DEF InOrder, AckIn, Readable, Up
  <2> QED BY <1>1, <2>1, <2>2, <2>3, <2>6, <2>7
          DEF Wire, Handshake, ReadInOrder, Complete
<1>3. CASE SendRegisterAck(cur)
  <2> DEFINE q == down[cur]
             m == RegisterAck(TRUE)
             r == Append(q, m)
  <2>1. /\ backend[cur] = "ack" /\ down'[cur] = r /\ backend'[cur] = "load"
        /\ \A d \in Conns : d # cur => backend'[d] = backend[d]
        /\ registered' = registered
    <3>1. ~DbError
      BY NoFailures
    <3>2. /\ backend[cur] = "ack" /\ registered' = registered
          /\ down' = [down EXCEPT ![cur] = Append(@, RegisterAck(TRUE))]
          /\ backend' = [backend EXCEPT ![cur] = "load"]
      BY <1>3, <3>1 DEF SendRegisterAck, registry
    <3> QED BY <1>1, <3>2 DEF TypeOK
  <2>2. \A d \in 1..(cur - 1) : d \in Conns /\ d # cur
    BY <1>1, InputDeliveryAssumption DEF Conns
  <2>3. /\ proxy # "off" /\ registered = cur
        /\ \A d \in 1..(cur - 1) : backend[d] # "new"
        /\ InOrder(q, Up, stored, Got)
    BY <2>1 DEF Wire, Handshake, ReadInOrder
  <2>4. m \in Down /\ m.kind = "ack"
    BY MessagesAreDown DEF RegisterAck
  <2>5. q \in Seq(Down)
    BY <1>1 DEF TypeOK
  <2> HIDE DEF q, m, r
  <2>6. InOrder(r, Up, stored, Got) /\ AckIn(r)
    BY <1>1, <2>3, <2>4, <2>5, AppendIsRead DEF r
  <2>7. /\ InOrder(down[cur], Up, stored, Got)' <=> InOrder(r, Up, stored, Got)
        /\ AckIn(down[cur])' <=> AckIn(r)
    BY <1>1, <2>1 DEF InOrder, AckIn, Readable, Up
  <2> QED BY <1>1, <2>1, <2>2, <2>3, <2>6, <2>7
          DEF Wire, Handshake, ReadInOrder, Complete
<1> QED BY <1>2, <1>3

\* The rows are loaded: what is not among them was taken.
LEMMA LoadedWire ==
  ASSUME Steady, TypeOK, Opened, Wire, InputKept, Open, LoadPending(cur)
  PROVE  Wire'
<1>1. /\ UNCHANGED <<cur, link, proxy, got, stored, down, registered>> /\ cur \in Conns
      /\ backend[cur] = "load" /\ (Up' <=> Up) /\ Open' /\ Got' = Got
  BY OpenInConns
     DEF LoadPending, wires, proxies, table, registry, Open, Got, Elements, Up
<1>2. /\ backend'[cur] = "replay" /\ replay'[cur] = rows
      /\ \A d \in Conns : d # cur => backend'[d] = backend[d]
  BY <1>1, NoFailures DEF LoadPending, TypeOK
<1>3. \A d \in 1..(cur - 1) : d \in Conns /\ d # cur
  BY <1>1, InputDeliveryAssumption DEF Conns
<1>4. /\ InOrder(down[cur], Up, stored, Got)' <=> InOrder(down[cur], Up, stored, Got)
      /\ AckIn(down[cur])' <=> AckIn(down[cur])
  BY <1>1 DEF InOrder, AckIn, Readable, Up
<1>5. Replaying' = rows
  BY <1>1, <1>2 DEF Replaying
<1>6. Complete'
  BY <1>1, <1>5 DEF Complete, InputKept
<1>7. ReadInOrder' /\ Handshake'
  BY <1>1, <1>2, <1>3, <1>4 DEF Wire, Handshake, ReadInOrder
<1> QED BY <1>6, <1>7 DEF Wire

\* The lowest row of those to be replayed is sent: the lower ones were before.
LEMMA ReplayedWire ==
  ASSUME Steady, TypeOK, OnlyAccepted, OneNumbering, Opened, Wire, Open, ReplayNext(cur)
  PROVE  Wire'
<1>1. /\ UNCHANGED <<cur, link, proxy, got, stored, registered, client>> /\ cur \in Conns
      /\ backend[cur] = "replay" /\ (Up' <=> Up) /\ Up \in BOOLEAN /\ Open' /\ Got' = Got
      /\ Sending' = Sending
  BY OpenInConns
     DEF ReplayNext, wires, proxies, table, registry, Open, Got, Elements, Up, Sending
<1>2. \A d \in 1..(cur - 1) : d \in Conns /\ d # cur
  BY <1>1, InputDeliveryAssumption DEF Conns
<1>3. /\ proxy # "off" /\ registered = cur /\ (Up \/ AckIn(down[cur]))
      /\ \A d \in 1..(cur - 1) : backend[d] # "new"
      /\ InOrder(down[cur], Up, stored, Got)
      /\ \A j \in stored : \/ j \in Got \union replay[cur] \union Sending
                           \/ Comes(down[cur], Up, j)
  BY <1>1 DEF Wire, Handshake, ReadInOrder, Complete, Replaying
<1>4. CASE replay[cur] = {}
  <2>1. UNCHANGED down /\ backend' = [backend EXCEPT ![cur] = "serving"]
    BY <1>4 DEF ReplayNext
  <2>2. /\ backend'[cur] = "serving"
        /\ \A d \in Conns : d # cur => backend'[d] = backend[d]
    BY <1>1, <2>1 DEF TypeOK
  <2>3. /\ InOrder(down[cur], Up, stored, Got)' <=> InOrder(down[cur], Up, stored, Got)
        /\ AckIn(down[cur])' <=> AckIn(down[cur])
        /\ \A j : Comes(down[cur], Up, j)' <=> Comes(down[cur], Up, j)
    BY <1>1, <2>1 DEF InOrder, AckIn, Comes, Readable, Up
  <2> QED BY <1>1, <1>2, <1>3, <1>4, <2>2, <2>3
          DEF Wire, Handshake, ReadInOrder, Complete
<1>5. CASE replay[cur] # {}
  <2>1. PICK i \in replay[cur] :
          /\ IsLowest(i, replay[cur])
          /\ down' = [down EXCEPT ![cur] = Append(@, Input(i, FALSE))]
          /\ replay' = [replay EXCEPT ![cur] = @ \ {i}]
          /\ backend' = backend
    BY <1>5 DEF ReplayNext
  <2> DEFINE q == down[cur]
             m == Input(i, FALSE)
             r == Append(q, m)
  <2>2. /\ down'[cur] = r /\ replay'[cur] = replay[cur] \ {i} /\ q \in Seq(Down)
    BY <1>1, <2>1 DEF TypeOK
  <2>3. i \in Inputs /\ i \in Numbered /\ accepted \in Nat
    BY <1>1, <2>1 DEF TypeOK, OnlyAccepted
  <2>4. m \in Down /\ m.kind = "input" /\ m.id = i
    BY <2>3, MessagesAreDown DEF Input
  <2>5. \A j \in replay[cur] : ~(j < i)
    <3> TAKE j \in replay[cur]
    <3>1. j \in Numbered
      BY <1>1 DEF OnlyAccepted
    <3>2. seq[i] = i /\ seq[j] = j /\ seq[i] <= seq[j]
      BY <2>1, <2>3, <3>1 DEF OneNumbering, IsLowest
    <3> QED BY <2>3, <3>1, <3>2 DEF Numbered
  <2>6. \A j \in Sending : ~(j < i)
    <3>1. \A j \in Sending : j = accepted
      BY DEF OneNumbering, Sending
    <3> QED BY <2>3, <3>1 DEF Numbered
  <2> HIDE DEF q, m, r
  <2>7. \A j \in stored : j < m.id => j \in Got \/ Comes(q, Up, j)
    BY <1>3, <2>4, <2>5, <2>6 DEF q
  <2>8. /\ InOrder(r, Up, stored, Got)
        /\ \A j : Comes(q, Up, j) => Comes(r, Up, j)
        /\ AckIn(r) <=> (AckIn(q) \/ m.kind = "ack")
        /\ (m.kind = "input" /\ (Up \/ AckIn(q))) => Comes(r, Up, m.id)
    <3>1. InOrder(q, Up, stored, Got)
      BY <1>3 DEF q
    <3> QED BY <1>1, <2>2, <2>4, <2>7, <3>1, AppendIsRead DEF r
  <2>9. /\ InOrder(down[cur], Up, stored, Got)' <=> InOrder(r, Up, stored, Got)
        /\ AckIn(down[cur])' <=> AckIn(r)
        /\ \A j : Comes(down[cur], Up, j)' <=> Comes(r, Up, j)
    BY <1>1, <2>2 DEF InOrder, AckIn, Comes, Readable, Up
  <2>10. Up \/ AckIn(r)
    BY <1>3, <2>8 DEF q
  <2>11. Replaying' = replay[cur] \ {i}
    BY <1>1, <2>1, <2>2 DEF Replaying
  <2>12. Complete'
    <3>1. Comes(r, Up, i)
      BY <1>3, <2>4, <2>8 DEF q
    <3>2. \A j \in stored : \/ j \in Got \union (replay[cur] \ {i}) \union Sending
                            \/ Comes(r, Up, j)
      BY <1>3, <2>8, <3>1 DEF q
    <3> QED BY <1>1, <2>9, <2>11, <3>2 DEF Complete
  <2> QED BY <1>1, <1>3, <2>1, <2>8, <2>9, <2>10, <2>12
          DEF Wire, Handshake, ReadInOrder
<1> QED BY <1>4, <1>5

\* A new connection: nothing is on its wires yet.
LEMMA ConnectedWire ==
  ASSUME TypeOK, Opened, Connect
  PROVE  Wire'
<1>1. /\ cur' = cur + 1 /\ cur + 1 \in Conns /\ ~(cur + 1 <= cur)
      /\ proxy' = "registering" /\ UNCHANGED <<backend, down>>
  BY InputDeliveryAssumption DEF Connect, TypeOK, Conns, tasks
<1>2. backend'[cur'] = "new" /\ down'[cur'] = <<>>
  BY <1>1 DEF Opened
<1>3. ~AckIn(down[cur])' /\ InOrder(down[cur], Up, stored, Got)'
  BY <1>2 DEF AckIn, InOrder
<1> QED BY <1>1, <1>2, <1>3 DEF Wire, Handshake, ReadInOrder, Complete, Up

\* While it waits for the RegisterAck, the proxy passes over what comes before.
LEMMA AwaitedWire ==
  ASSUME Steady, TypeOK, Opened, Wire, AwaitAck
  PROVE  Wire'
<1>1. PICK m \in Down :
        /\ proxy = "registering" /\ Receive(m)
        /\ \/ m.kind = "ack" /\ proxy' = "up" /\ UNCHANGED <<cur, got, link>>
           \/ m.kind = "nak" /\ cur' = cur /\ link' = [link EXCEPT ![cur] = "cut"]
           \/ m.kind = "input" /\ UNCHANGED <<proxy, cur, got, link>>
  BY DEF AwaitAck, LeaveConnection, proxies
<1>2. UNCHANGED <<stored, client, registered, backend, replay>>
  BY DEF AwaitAck, table, registry, tasks
<1>3. /\ cur \in Conns /\ Open /\ ~Up
      /\ down[cur] \in Seq(Down) /\ down[cur] # <<>> /\ m = Head(down[cur])
      /\ down'[cur] = Tail(down[cur])
  BY <1>1, OpenInConns DEF Receive, Open, Up, TypeOK
<1>4. CASE m.kind = "nak"
  <2>1. ~Open'
    BY <1>1, <1>3, <1>4 DEF Open, TypeOK
  <2> QED BY <2>1 DEF Wire, Handshake, ReadInOrder, Complete
<1>5. CASE m.kind # "nak"
  <2> DEFINE q == down[cur]
             r == Tail(q)
             u == FALSE
             v == m.kind = "ack"
  <2>1. /\ UNCHANGED <<cur, got, link>> /\ (Up' <=> v) /\ Open' /\ Got' = Got
        /\ Replaying' = Replaying /\ Sending' = Sending /\ v \in BOOLEAN /\ proxy' # "off"
    BY <1>1, <1>2, <1>3, <1>5 DEF Open, Up, Got, Elements, Replaying, Sending
  <2>2. InOrder(q, u, stored, Got) /\ (\A j : Comes(q, Up, j) => Comes(q, u, j))
    BY <1>3 DEF Wire, ReadInOrder, InOrder, Comes, Readable
  <2>3. /\ InOrder(r, v, stored, Got)
        /\ \A j : Comes(q, u, j) => Comes(r, v, j)
        /\ AckIn(q) => AckIn(r) \/ v
        /\ AckIn(r) => AckIn(q)
    <3>1. v = (u \/ Head(q).kind = "ack")
      BY <1>3
    <3>2. Got \union (IF u /\ Head(q).kind = "input" THEN {Head(q).id} ELSE {}) = Got
      OBVIOUS
    <3> HIDE DEF v, q, r
    <3>3. u \in BOOLEAN /\ v \in BOOLEAN /\ q \in Seq(Down) /\ q # <<>>
      BY <1>3, <2>1 DEF q
    <3> HIDE DEF u
    <3>4. /\ InOrder(r, v, stored,
                     Got \union (IF u /\ Head(q).kind = "input" THEN {Head(q).id} ELSE {}))
          /\ \A j : Comes(q, u, j) =>
               Comes(r, v, j) \/ (u /\ Head(q).kind = "input" /\ j = Head(q).id)
          /\ AckIn(q) => AckIn(r) \/ Head(q).kind = "ack"
          /\ AckIn(r) => AckIn(q)
      BY <2>2, <3>1, <3>3, TailIsRead DEF r
    <3>5. ~u
      BY DEF u
    <3> QED BY <3>1, <3>2, <3>4, <3>5
  <2>4. /\ InOrder(down[cur], Up, stored, Got)' <=> InOrder(r, v, stored, Got)
        /\ AckIn(down[cur])' <=> AckIn(r)
        /\ \A j : Comes(down[cur], Up, j)' <=> Comes(r, v, j)
    <3>1. down'[cur'] = r /\ stored' = stored /\ Got' = Got
      BY <1>2, <1>3, <2>1
    <3> HIDE DEF r
    <3>2. CASE v
      BY <2>1, <3>1, <3>2 DEF InOrder, AckIn, Comes, Readable
    <3>3. CASE ~v
      BY <2>1, <3>1, <3>3 DEF InOrder, AckIn, Comes, Readable
    <3> QED BY <3>2, <3>3
  <2>5. AckIn(down[cur]) => AckIn(r) \/ v
    BY <2>3
  <2>6. (AckIn(r) => AckIn(down[cur])) /\ (v => AckIn(down[cur]))
    <3>1. v => AckIn(down[cur])
      <4>1. 1 \in DOMAIN down[cur] /\ Head(down[cur]) = down[cur][1]
        BY <1>3
      <4> QED BY <1>3, <4>1 DEF AckIn
    <3> QED BY <2>3, <3>1
  <2> HIDE DEF v, r
  <2>7. Handshake'
    BY <1>2, <1>3, <2>1, <2>4, <2>5, <2>6 DEF Wire, Handshake
  <2>8. ReadInOrder'
    BY <2>3, <2>4 DEF ReadInOrder
  <2>9. Complete'
    BY <1>2, <1>3, <2>1, <2>2, <2>3, <2>4 DEF Wire, Complete
  <2> QED BY <2>7, <2>8, <2>9 DEF Wire
<1> QED BY <1>4, <1>5

\* The reader takes the next message: the inputs below it were taken before.
LEMMA ReadWire ==
  ASSUME Steady, TypeOK, OnlyAccepted, OneNumbering, Opened, Wire, FirstInOrder, ReadInput
  PROVE  Wire' /\ FirstInOrder'
<1>1. PICK m \in Down :
        /\ proxy = "up" /\ Receive(m)
        /\ IF m.kind = "input" THEN got' = Append(got, m.id) ELSE got' = got
  BY DEF ReadInput
<1>2. UNCHANGED <<stored, seq, client, registered, backend, replay, cur, link, proxy>>
  BY DEF ReadInput, table, registry, tasks
<1>3. /\ cur \in Conns /\ Open /\ Up
      /\ down[cur] \in Seq(Down) /\ down[cur] # <<>> /\ m = Head(down[cur])
      /\ down'[cur] = Tail(down[cur]) /\ m \in Elements(down[cur])
  BY <1>1, OpenInConns, ReceiveShape DEF Receive, Open, Up, TypeOK
<1>4. m.kind = "input" => m.id \in Numbered /\ m.id \in Inputs
  BY <1>3, AcceptedAreInputs DEF OnlyAccepted
<1> DEFINE q == down[cur]
           r == Tail(q)
           H == IF m.kind = "input" THEN {m.id} ELSE {}
<1>5. Open' /\ (Up' <=> TRUE) /\ Replaying' = Replaying /\ Sending' = Sending
  BY <1>2, <1>3 DEF Open, Up, Replaying, Sending
<1>6. Got' = Got \union H
  <2>1. m.kind = "input" => Elements(Append(got, m.id)) = Elements(got) \union {m.id}
    BY <1>4, ElementsOfAppend DEF TypeOK
  <2>2. Got' = Elements(got')
    BY DEF Got, Elements
  <2> QED BY <1>1, <2>1, <2>2 DEF Got
<1>7. InOrder(q, TRUE, stored, Got) /\ (\A j : Comes(q, Up, j) => Comes(q, TRUE, j))
  BY <1>3 DEF Wire, ReadInOrder, InOrder, Comes, Readable
<1>8. /\ InOrder(r, TRUE, stored, Got')
      /\ \A j : Comes(q, TRUE, j) => Comes(r, TRUE, j) \/ j \in H
      /\ m.kind = "input" => \A j \in stored : j < m.id => j \in Got
  <2>1. TRUE = (TRUE \/ Head(q).kind = "ack")
    OBVIOUS
  <2>2. Got' = Got \union (IF TRUE /\ Head(q).kind = "input" THEN {Head(q).id} ELSE {})
    BY <1>3, <1>6
  <2>3. q \in Seq(Down) /\ q # <<>> /\ m = Head(q)
    BY <1>3
  <2> HIDE DEF q, r
  <2>4. /\ InOrder(r, TRUE, stored, Got')
        /\ \A j : Comes(q, TRUE, j) =>
             Comes(r, TRUE, j) \/ (TRUE /\ Head(q).kind = "input" /\ j = Head(q).id)
        /\ (TRUE /\ Head(q).kind = "input") => \A j \in stored : j < Head(q).id => j \in Got
    BY <1>7, <2>1, <2>2, <2>3, TailIsRead DEF r
  <2> QED BY <2>3, <2>4
<1>9. /\ InOrder(down[cur], Up, stored, Got)' <=> InOrder(r, TRUE, stored, Got')
      /\ \A j : Comes(down[cur], Up, j)' <=> Comes(r, TRUE, j)
  BY <1>2, <1>3, <1>5 DEF InOrder, Comes, Readable
<1>10. Handshake'
  <2>1. \/ backend[cur] \in {"load", "replay", "serving"}
    BY <1>3 DEF Wire, Handshake, TypeOK, Registering
  <2> QED BY <1>2, <1>3, <1>5, <2>1 DEF Wire, Handshake
<1>11. ReadInOrder'
  BY <1>8, <1>9 DEF ReadInOrder
<1>12. Complete'
  <2>1. \A j : Comes(q, TRUE, j) => Comes(r, TRUE, j) \/ j \in Got'
    BY <1>6, <1>8
  <2> QED BY <1>2, <1>3, <1>5, <1>6, <1>7, <1>9, <2>1 DEF Wire, Complete
<1>13. FirstInOrder'
  <2>1. CASE m.kind # "input"
    BY <1>1, <1>2, <2>1 DEF FirstInOrder
  <2>2. CASE m.kind = "input"
    <3> DEFINE g == Append(got, m.id)
               n == Len(got)
    <3>1. /\ n \in Nat /\ DOMAIN g = 1..(n + 1) /\ DOMAIN got = 1..n
          /\ g[n + 1] = m.id /\ \A k \in 1..n : g[k] = got[k]
      BY <1>4 DEF TypeOK
    <3>2. got' = g
      BY <1>1, <2>2
    <3> HIDE DEF g, n
    <3> SUFFICES ASSUME NEW k \in 1..(n + 1), NEW i \in stored, seq[i] < seq[g[k]]
                 PROVE  \E l \in 1..k : g[l] = i
      BY <1>2, <3>1, <3>2 DEF FirstInOrder
    <3>3. CASE k \in 1..n
      <4>1. PICK l \in 1..k : got[l] = i
        BY <3>1, <3>3 DEF FirstInOrder
      <4>2. l \in 1..n
        BY <3>1, <3>3
      <4> QED BY <3>1, <4>1, <4>2
    <3>4. CASE k = n + 1
      <4>1. i \in Numbered
        BY DEF OnlyAccepted
      <4>2. i < m.id
        BY <1>4, <2>2, <3>1, <3>4, <4>1 DEF OneNumbering
      <4>3. i \in Got
        BY <1>8, <2>2, <4>2
      <4>4. PICK l \in 1..n : got[l] = i
        BY <3>1, <4>3 DEF Got, Elements
      <4>5. l \in 1..k
        BY <3>1, <3>4
      <4> QED BY <3>1, <4>4, <4>5
    <3> QED BY <3>1, <3>3, <3>4
  <2> QED BY <2>1, <2>2
<1> QED BY <1>10, <1>11, <1>12, <1>13 DEF Wire

LEMMA WireStep ==
  ASSUME Steady, TypeOK, OnlyAccepted, OneNumbering, Opened, Wire, FirstInOrder, InputKept,
         [Next]_vars
  PROVE  Wire'
<1>1. CASE \E w \in Clients : InsertRow(w)
  BY <1>1, InsertWire
<1>2. CASE \E w \in Clients : SendInput(w)
  BY <1>2, SentWire
<1>3. CASE \E c \in Conns : BackendStep(c)
  <2>1. PICK c \in Conns : BackendStep(c)
    BY <1>3
  <2>2. CASE ReadInputAck(c) \/ c # cur \/ ~Open
    BY <2>1, <2>2, BackendStill, StillWire
  <2>3. CASE c = cur /\ Open /\ (RegisterSession(cur) \/ SendRegisterAck(cur))
    BY <2>3, RegisteringWire
  <2>4. CASE c = cur /\ Open /\ LoadPending(cur)
    BY <2>4, LoadedWire
  <2>5. CASE c = cur /\ Open /\ ReplayNext(cur)
    BY <2>5, ReplayedWire
  <2>6. ASSUME Open PROVE ~RegisterLost(cur) /\ ~SocketEnds(cur)
    BY <2>6 DEF Open, RegisterLost, SocketEnds
  <2> QED BY <2>1, <2>2, <2>3, <2>4, <2>5, <2>6 DEF BackendStep
<1>4. CASE Connect
  BY <1>4, ConnectedWire
<1>5. CASE AwaitAck
  BY <1>5, AwaitedWire
<1>6. CASE ReadInput
  BY <1>6, ReadWire
<1>7. CASE \/ \E w \in Clients : AllocateSeq(w)
           \/ SendInputAck \/ TakeInput \/ TakeWiggum \/ Disconnect
           \/ LinkCut \/ BackendRestart \/ AckTimeout \/ UNCHANGED vars
  BY <1>7, OthersStill, StillWire
<1> QED BY <1>1, <1>2, <1>3, <1>4, <1>5, <1>6, <1>7 DEF Next, ClientStep, ProxyStep

LEMMA FirstInOrderStep ==
  ASSUME Steady, TypeOK, OnlyAccepted, OneNumbering, Opened, Wire, FirstInOrder,
         [Next]_vars
  PROVE  FirstInOrder'
<1>1. CASE ReadInput
  BY <1>1, ReadWire
<1>2. CASE Quiet
  BY <1>2 DEF Quiet, FirstInOrder
<1>3. ASSUME got' = got, stored' \subseteq stored \union {accepted},
             \A i \in Numbered : seq'[i] = seq[i],
             stored' \subseteq Numbered
      PROVE  FirstInOrder'
  <2> SUFFICES ASSUME NEW k \in DOMAIN got, NEW i \in stored', seq'[i] < seq'[got[k]]
               PROVE  \E l \in 1..k : got[l] = i
    BY <1>3 DEF FirstInOrder
  <2>1. got[k] \in Numbered
    BY DEF OnlyAccepted, Got, Elements
  <2>2. i \in Numbered
    BY <1>3
  <2>3. seq[i] < seq[got[k]] /\ i < got[k]
    BY <1>3, <2>1, <2>2 DEF OneNumbering
  <2>4. i # accepted
    BY <2>1, <2>3 DEF Numbered, TypeOK
  <2> QED BY <1>3, <2>3, <2>4 DEF FirstInOrder
<1>4. CASE \E w \in Clients : AllocateSeq(w)
  <2>1. UNCHANGED <<got, stored>>
    BY <1>4 DEF AllocateSeq, proxies
  <2> QED BY <1>3, <1>4, <2>1, HistoryGrows DEF OnlyAccepted
<1>5. CASE \E w \in Clients : InsertRow(w)
  <2>1. PICK w \in Clients : InsertRow(w)
    BY <1>5
  <2>2. got' = got /\ seq' = seq /\ stored' \subseteq stored \union {client[w].id}
        /\ client[w].at # "idle"
    BY <2>1 DEF InsertRow, proxies
  <2>3. client[w].id = accepted /\ client[w].id \in Numbered
    BY <2>2 DEF OneNumbering, OnlyAccepted
  <2> QED BY <1>3, <2>2, <2>3 DEF OnlyAccepted
<1>6. CASE \E w \in Clients : SendInput(w)
  BY <1>6 DEF SendInput, table, proxies, FirstInOrder
<1>7. CASE UNCHANGED vars
  BY <1>7 DEF vars, table, proxies, FirstInOrder
<1> QED BY <1>1, <1>2, <1>4, <1>5, <1>6, <1>7, QuietBackend, QuietProxy
        DEF Next, ClientStep

\* An acknowledgment deletes the rows up to an input that was taken, and the
\* lower ones were taken before it.
LEMMA InputKeptStep ==
  ASSUME TypeOK, OnlyAccepted, AcksAreTaken, OneNumbering, FirstInOrder, InputKept,
         [Next]_vars
  PROVE  InputKept'
<1>1. Got \subseteq Got'
  BY HistoryGrows
<1>2. CASE stored' \ rows' \subseteq stored \ rows
  BY <1>1, <1>2 DEF InputKept
<1>3. CASE /\ UNCHANGED <<stored, seq>>
           /\ \E c \in Conns : up[c] # <<>> /\ rows' = rows \ Covered(Head(up[c]))
  <2>1. PICK c \in Conns : up[c] # <<>> /\ rows' = rows \ Covered(Head(up[c]))
    BY <1>3
  <2>2. Head(up[c]) \in Elements(up[c])
    BY <2>1, ElementsOfTail DEF TypeOK
  <2>3. PICK j \in Got : seq[j] = Head(up[c])
    BY <2>2 DEF AcksAreTaken, NumbersTaken
  <2> SUFFICES ASSUME NEW i \in stored, i \in rows, i \in Covered(Head(up[c]))
               PROVE  i \in Got
    BY <1>1, <1>3, <2>1 DEF InputKept
  <2>4. i \in Numbered /\ j \in Numbered /\ seq[i] <= seq[j]
    BY <2>3 DEF OnlyAccepted, Covered
  <2>5. i = j \/ seq[i] < seq[j]
    BY <2>4 DEF OneNumbering, Numbered
  <2>6. PICK k \in DOMAIN got : got[k] = j
    BY DEF Got, Elements
  <2>7. \A l \in 1..k : l \in DOMAIN got
    <3>1. DOMAIN got = 1..Len(got) /\ Len(got) \in Nat
      BY DEF TypeOK
    <3> QED BY <3>1
  <2> QED BY <2>5, <2>6, <2>7 DEF FirstInOrder, Got, Elements
<1> QED BY <1>2, <1>3, RowsLeave

LEMMA KeptInit == Init => Kept
<1> SUFFICES ASSUME Init PROVE Kept
  OBVIOUS
<1>1. Numbered = {}
  BY DEF Init, Numbered
<1>2. OneNumbering
  BY <1>1 DEF Init, OneNumbering, Idle
<1>3. Opened
  BY InputDeliveryAssumption DEF Init, Opened, Conns
<1>4. Wire
  BY DEF Init, Wire, Handshake, ReadInOrder, Complete, Open
<1>5. FirstInOrder /\ InputKept
  BY DEF Init, FirstInOrder, InputKept
<1> QED BY <1>2, <1>3, <1>4, <1>5 DEF Kept

LEMMA KeptStep ==
  ASSUME Steady, IInv, Kept, [Next]_vars
  PROVE  Kept'
BY OneNumberingStep, OpenedStep, WireStep, FirstInOrderStep, InputKeptStep DEF IInv, Kept

-----------------------------------------------------------------------------
(* From the reader to the agent.                                            *)

\* No input is a wiggum prompt: none is sent in that mode, or only launchers send.
Plain == Wiggum = {} \/ Clients \subseteq Launchers

NoModes ==
  /\ \A m \in Elements(queue) : ~m.wiggum
  /\ \A c \in Conns : \A m \in Elements(down[c]) : ~m.wiggum

LEMMA NoModesStep ==
  ASSUME Plain, TypeOK, OnlyAccepted, NoModes, [Next]_vars
  PROVE  NoModes'
<1>0. SUFFICES /\ \A m \in Elements(queue') : ~m.wiggum
               /\ \A c \in Conns : \A m \in Elements(down'[c]) : ~m.wiggum
  BY DEF NoModes, Elements
<1>1. CASE \E w \in Clients : SendInput(w)
  <2>1. PICK w \in Clients : SendInput(w)
    BY <1>1
  <2> DEFINE m == Input(client[w].id, client[w].id \in Wiggum /\ w \notin Launchers)
  <2>2. client[w].id \in Inputs
    BY <2>1, AcceptedAreInputs DEF SendInput, OnlyAccepted
  <2>3. m \in Down /\ ~m.wiggum
    BY <2>2, MessagesAreDown DEF Input, Plain
  <2>4. /\ registered # 0 => /\ down' = [down EXCEPT ![registered] = Append(@, m)]
                             /\ queue' = queue
        /\ registered = 0 => queue' = Append(queue, m) /\ down' = down
    BY <2>1 DEF SendInput
  <2> HIDE DEF m
  <2>5. CASE registered = 0
    <3>1. Elements(Append(queue, m)) = Elements(queue) \union {m}
      BY <2>3, ElementsOfAppend DEF TypeOK
    <3> QED BY <2>3, <2>4, <2>5, <3>1 DEF NoModes
  <2>6. CASE registered # 0
    <3>1. registered \in Conns
      BY <2>6 DEF TypeOK, Conns
    <3>2. \A c \in Conns : \A x \in Elements(down'[c]) : x \in Elements(down[c]) \/ x = m
      BY <2>3, <2>4, <2>6, <3>1, SendShape
    <3> QED BY <2>3, <2>4, <2>6, <3>2 DEF NoModes
  <2> QED BY <2>5, <2>6
<1>2. CASE \E c \in Conns : BackendStep(c)
  <2>1. PICK c \in Conns : BackendStep(c)
    BY <1>2
  <2>2. CASE RegisterSession(c)
    <3>1. queue' = <<>> /\ \A d \in Conns : down'[d] = IF d = c THEN queue ELSE down[d]
      BY <2>2 DEF RegisterSession, TypeOK
    <3> QED BY <3>1, ElementsOfEmpty DEF NoModes
  <2>3. CASE SendRegisterAck(c)
    <3>1. PICK ok \in BOOLEAN : down' = [down EXCEPT ![c] = Append(@, RegisterAck(ok))]
      BY <2>3 DEF SendRegisterAck
    <3>2. RegisterAck(ok) \in Down /\ ~RegisterAck(ok).wiggum
      BY MessagesAreDown DEF RegisterAck
    <3>3. \A d \in Conns : \A x \in Elements(down'[d]) :
            x \in Elements(down[d]) \/ x = RegisterAck(ok)
      BY <3>1, <3>2, SendShape
    <3>4. queue' = queue
      BY <2>3 DEF SendRegisterAck, registry
    <3> QED BY <3>2, <3>3, <3>4 DEF NoModes
  <2>4. CASE ReplayNext(c)
    <3>1. queue' = queue
      BY <2>4 DEF ReplayNext, registry
    <3>2. CASE replay[c] = {}
      BY <2>4, <3>1, <3>2 DEF ReplayNext, NoModes
    <3>3. CASE replay[c] # {}
      <4>1. PICK i \in replay[c] : down' = [down EXCEPT ![c] = Append(@, Input(i, FALSE))]
        BY <2>4, <3>3 DEF ReplayNext
      <4>2. i \in Inputs
        BY <4>1 DEF TypeOK
      <4>3. Input(i, FALSE) \in Down /\ ~Input(i, FALSE).wiggum
        BY <4>2, MessagesAreDown DEF Input
      <4>4. \A d \in Conns : \A x \in Elements(down'[d]) :
              x \in Elements(down[d]) \/ x = Input(i, FALSE)
        BY <4>1, <4>3, SendShape
      <4> QED BY <3>1, <4>3, <4>4 DEF NoModes
    <3> QED BY <3>2, <3>3
  <2>5. CASE RegisterLost(c) \/ LoadPending(c) \/ ReadInputAck(c)
    BY <2>5 DEF RegisterLost, LoadPending, ReadInputAck, registry, wires, NoModes
  <2>6. CASE SocketEnds(c)
    <3>1. queue' = queue /\ \A d \in Conns : down'[d] = down[d] \/ down'[d] = <<>>
      BY <2>6 DEF SocketEnds, TypeOK
    <3> QED BY <3>1, ElementsOfEmpty DEF NoModes
  <2> QED BY <2>1, <2>2, <2>3, <2>4, <2>5, <2>6 DEF BackendStep
<1>3. CASE AwaitAck \/ ReadInput
  <2>1. PICK m \in Down : Receive(m)
    BY <1>3 DEF AwaitAck, ReadInput
  <2>2. queue' = queue
    BY <1>3 DEF AwaitAck, ReadInput, registry
  <2> QED BY <2>1, <2>2, ReceiveShape DEF NoModes
<1>4. CASE BackendRestart
  BY <1>4, ElementsOfEmpty DEF BackendRestart
<1>5. CASE \/ \E w \in Clients : AllocateSeq(w) \/ InsertRow(w)
           \/ Connect \/ SendInputAck \/ TakeInput \/ TakeWiggum \/ Disconnect
           \/ AckTimeout \/ LinkCut \/ UNCHANGED vars
  <2>1. UNCHANGED <<queue, down>>
    BY <1>5 DEF AllocateSeq, InsertRow, Connect, SendInputAck, TakeInput, TakeWiggum,
       Disconnect, AckTimeout, LinkCut, vars, registry, wires
  <2> QED BY <2>1 DEF NoModes
<1> QED BY <1>1, <1>2, <1>3, <1>4, <1>5 DEF Next, ClientStep, ProxyStep

LEMMA TailCovers ==
  ASSUME NEW S, NEW q \in Seq(S), q # <<>>
  PROVE  Elements(q) \subseteq Elements(Tail(q)) \union {Head(q)}
<1> DEFINE r == Tail(q)
           n == Len(q)
<1>1. /\ n \in Nat \ {0} /\ DOMAIN q = 1..n /\ DOMAIN r = 1..(n - 1)
      /\ Head(q) = q[1] /\ \A k \in 1..(n - 1) : r[k] = q[k + 1]
  OBVIOUS
<1> HIDE DEF n, r
<1>2. \A k \in 1..n : k # 1 => k - 1 \in 1..(n - 1) /\ (k - 1) + 1 = k
  BY <1>1
<1>3. \A k \in 1..n : k # 1 => r[k - 1] = q[k]
  BY <1>1, <1>2
<1>4. Elements(q) \subseteq Elements(r) \union {Head(q)}
  BY <1>1, <1>2, <1>3 DEF Elements
<1> QED BY <1>4 DEF r

\* Inputs taken stay in the channel that survives connections until the main
\* loop hands them over.
TakenKept ==
  /\ wiggum_rx = <<>>
  /\ Got \subseteq Elements(input_rx) \union {m.id : m \in agent}

LEMMA TakenKeptStep ==
  ASSUME TypeOK, OnlyAccepted, NoModes, TakenKept, [Next]_vars
  PROVE  TakenKept'
<1>0. (Got' = Elements(got')) /\ Elements(input_rx)' = Elements(input_rx')
  BY DEF Got, Elements
<1>1. CASE ReadInput
  <2>1. PICK m \in Down :
          /\ Receive(m)
          /\ \/ UNCHANGED <<input_rx, wiggum_rx, got>>
             \/ /\ m.kind = "input" /\ got' = Append(got, m.id)
                /\ m.wiggum \/ (input_rx' = Append(input_rx, m.id) /\ UNCHANGED wiggum_rx)
    BY <1>1 DEF ReadInput
  <2>2. agent' = agent
    BY <1>1 DEF ReadInput
  <2>3. ~m.wiggum /\ (m.kind = "input" => m.id \in Inputs)
    BY <2>1, ReceiveShape, AcceptedAreInputs DEF NoModes, OnlyAccepted
  <2>4. m.kind = "input" =>
          /\ Elements(Append(got, m.id)) = Elements(got) \union {m.id}
          /\ Elements(Append(input_rx, m.id)) = Elements(input_rx) \union {m.id}
    BY <2>3, ElementsOfAppend DEF TypeOK
  <2> QED BY <1>0, <2>1, <2>2, <2>3, <2>4 DEF TakenKept, Got
<1>2. CASE TakeInput
  <2>1. /\ input_rx # <<>> /\ input_rx' = Tail(input_rx) /\ UNCHANGED <<got, wiggum_rx>>
        /\ agent' = agent \union {[id |-> Head(input_rx), wiggum |-> FALSE]}
    BY <1>2 DEF TakeInput
  <2>2. Elements(input_rx) \subseteq Elements(Tail(input_rx)) \union {Head(input_rx)}
    BY <2>1, TailCovers DEF TypeOK
  <2>3. {m.id : m \in agent'} = {m.id : m \in agent} \union {Head(input_rx)}
    <3> DEFINE h == [id |-> Head(input_rx), wiggum |-> FALSE]
    <3>1. agent' = agent \union {h} /\ h.id = Head(input_rx)
      BY <2>1
    <3> HIDE DEF h
    <3> QED BY <3>1
  <2> QED BY <1>0, <2>1, <2>2, <2>3 DEF TakenKept, Got
<1>3. CASE ~ReadInput /\ ~TakeInput
  <2>1. ~TakeWiggum
    BY DEF TakeWiggum, TakenKept
  <2>2. UNCHANGED <<got, input_rx, agent>> /\ (wiggum_rx' = wiggum_rx \/ wiggum_rx' = <<>>)
    <3>1. CASE \E w \in Clients : ClientStep(w)
      BY <3>1 DEF ClientStep, AllocateSeq, InsertRow, SendInput, proxies
    <3>2. CASE \E c \in Conns : BackendStep(c)
      BY <3>2 DEF BackendStep, RegisterSession, RegisterLost, SendRegisterAck, LoadPending,
         ReplayNext, ReadInputAck, SocketEnds, proxies
    <3>3. CASE \/ Connect \/ AwaitAck \/ SendInputAck \/ Disconnect
               \/ AckTimeout \/ LinkCut \/ BackendRestart \/ UNCHANGED vars
      BY <3>3 DEF Connect, AwaitAck, SendInputAck, Disconnect, AckTimeout, LinkCut,
         BackendRestart, LeaveConnection, proxies, vars
    <3> QED BY <1>3, <2>1, <3>1, <3>2, <3>3 DEF Next, ProxyStep
  <2> QED BY <1>0, <2>2 DEF TakenKept, Got
<1> QED BY <1>1, <1>2, <1>3

-----------------------------------------------------------------------------

\* Where no input is a wiggum prompt, whatever fails: what the reader took is
\* given to the agent, or waits in the channel that outlives the connection
\* (input_rx of proxy_session/mod.rs); no lost connection takes it along.
THEOREM TakenIsGiven ==
  ASSUME Plain
  PROVE  Spec => []TakenReachesAgent
<1>1. Init => NoModes /\ TakenKept
  <2> SUFFICES ASSUME Init PROVE NoModes /\ TakenKept
    OBVIOUS
  <2>1. Got = {} /\ Elements(queue) = {} /\ \A c \in Conns : Elements(down[c]) = {}
    BY ElementsOfEmpty DEF Init, Got
  <2> QED BY <2>1 DEF Init, NoModes, TakenKept
<1>2. IInv /\ NoModes /\ TakenKept /\ [Next]_vars => (NoModes /\ TakenKept)'
  BY NoModesStep, TakenKeptStep DEF IInv
<1>3. TakenKept => TakenReachesAgent
  BY DEF TakenKept, TakenReachesAgent
<1> QED BY <1>1, <1>2, <1>3, IInvInit, IInvStep, PTL DEF Spec

\* handle_web_input, replay_pending_inputs_from_db and handle_input_ack: for one
\* client, proxies that register one by one and a database that does not fail, over
\* any number of inputs, lost connections and restarts of the backend, a stored
\* input is still stored or was taken by the reader, which takes inputs for the
\* first time in the order of their numbers; and what it took reaches the agent.
THEOREM KeptInTheirOrder ==
  ASSUME Steady, Plain
  PROVE  Spec => []KeptInOrder
<1>1. IInv /\ Kept /\ [Next]_vars => Kept'
  BY KeptStep
<1>2. Kept /\ TakenReachesAgent => KeptInOrder
  BY DEF Kept, KeptInOrder
<1> QED BY <1>1, <1>2, KeptInit, IInvInit, IInvStep, TakenIsGiven, PTL DEF Spec

-----------------------------------------------------------------------------
(* How often an input is taken: every copy is accounted for, by the message *)
(* its client sends and by one replay of each connection.                   *)

Count(q, S) == Cardinality({k \in DOMAIN q : q[k] \in S})

OfInput(i) == {m \in Down : m.kind = "input" /\ m.id = i}

Queued(i) == Count(queue, OfInput(i))

\* The input is not yet sent: it is to be accepted, or a client holds it.
HeldIn(a, cl, i) ==
  IF i > a \/ \E w \in Clients : cl[w].at # "idle" /\ cl[w].id = i THEN 1 ELSE 0
Held(i) == HeldIn(accepted, client, i)

\* What the proxy may read on the last connection, and may be sent again there.
Coming(i) == IF cur = 0 THEN 0 ELSE Count(down[cur], OfInput(i))
Again(i) ==
  IF cur # 0 /\ (backend[cur] \in {"new", "ack", "load"} \/ i \in replay[cur])
  THEN 1 ELSE 0

Total(i) == Count(got, {i}) + Queued(i) + Held(i) + Coming(i) + Again(i)

OneHolder ==
  \A v, w \in Clients :
    (client[v].at # "idle" /\ client[w].at # "idle" /\ client[v].id = client[w].id) => v = w

Budget == OneHolder /\ \A i \in Inputs : Total(i) <= cur + 1

LEMMA CountIsNat ==
  ASSUME NEW T, NEW q \in Seq(T), NEW S
  PROVE  /\ Count(q, S) \in Nat
         /\ IsFiniteSet({k \in DOMAIN q : q[k] \in S})
<1>1. DOMAIN q = 1..Len(q) /\ Len(q) \in Nat
  OBVIOUS
<1>2. IsFiniteSet(DOMAIN q)
  BY <1>1, FS_Interval
<1>3. IsFiniteSet({k \in DOMAIN q : q[k] \in S})
  BY <1>2, FS_Subset
<1> QED BY <1>3, FS_CardinalityType DEF Count

LEMMA CountOfEmpty == \A S : Count(<<>>, S) = 0
<1> SUFFICES ASSUME NEW S PROVE Count(<<>>, S) = 0
  OBVIOUS
<1>1. {k \in DOMAIN <<>> : <<>>[k] \in S} = {}
  OBVIOUS
<1> QED BY <1>1, FS_EmptySet DEF Count

LEMMA CountOfAppend ==
  ASSUME NEW T, NEW q \in Seq(T), NEW m \in T, NEW S
  PROVE  Count(Append(q, m), S) = Count(q, S) + (IF m \in S THEN 1 ELSE 0)
<1> DEFINE r == Append(q, m)
           n == Len(q)
           A == {k \in DOMAIN q : q[k] \in S}
           B == {k \in DOMAIN r : r[k] \in S}
<1>1. /\ n \in Nat /\ DOMAIN q = 1..n /\ DOMAIN r = 1..(n + 1)
      /\ r[n + 1] = m /\ \A k \in 1..n : r[k] = q[k]
  OBVIOUS
<1>2. IsFiniteSet(A) /\ Cardinality(A) \in Nat /\ Count(q, S) = Cardinality(A)
  BY CountIsNat DEF Count
<1>3. Count(r, S) = Cardinality(B)
  BY DEF Count
<1> HIDE DEF r, n
<1>4. n + 1 \notin A /\ B = IF m \in S THEN A \union {n + 1} ELSE A
  BY <1>1
<1> HIDE DEF A, B
<1>5. Cardinality(A \union {n + 1}) = Cardinality(A) + 1
  BY <1>2, <1>4, FS_AddElement
<1>6. Count(r, S) = Count(q, S) + (IF m \in S THEN 1 ELSE 0)
  BY <1>2, <1>3, <1>4, <1>5
<1> QED BY <1>6 DEF r

LEMMA CountOfTail ==
  ASSUME NEW T, NEW q \in Seq(T), q # <<>>, NEW S
  PROVE  Count(Tail(q), S) + (IF Head(q) \in S THEN 1 ELSE 0) <= Count(q, S)
<1> DEFINE r == Tail(q)
           n == Len(q)
           A == {k \in DOMAIN q : q[k] \in S}
           B == {k \in DOMAIN r : r[k] \in S}
           f == [k \in B |-> k + 1]
<1>1. /\ n \in Nat \ {0} /\ DOMAIN q = 1..n /\ DOMAIN r = 1..(n - 1)
      /\ Head(q) = q[1] /\ \A k \in 1..(n - 1) : r[k] = q[k + 1]
      /\ r \in Seq(T)
  OBVIOUS
<1>2. IsFiniteSet(A) /\ Cardinality(A) \in Nat /\ Count(q, S) = Cardinality(A)
  BY CountIsNat DEF Count
<1>3. Cardinality(B) \in Nat /\ Count(r, S) = Cardinality(B)
  BY <1>1, CountIsNat DEF Count
<1> HIDE DEF r, n
<1>4. \A k \in B : k \in Nat /\ k + 1 \in A \ {1}
  BY <1>1
<1>5. 1 \in A <=> Head(q) \in S
  BY <1>1
<1> HIDE DEF A, B
<1>6. f \in Injection(B, A \ {1})
  BY <1>4 DEF Injection, IsInjective
<1>7. /\ IsFiniteSet(A \ {1})
      /\ Cardinality(A \ {1}) = IF 1 \in A THEN Cardinality(A) - 1 ELSE Cardinality(A)
  BY <1>2, FS_RemoveElement
<1>8. Cardinality(B) <= Cardinality(A \ {1})
  BY <1>6, <1>7, FS_Injection
<1>9. Count(r, S) + (IF Head(q) \in S THEN 1 ELSE 0) <= Count(q, S)
  BY <1>2, <1>3, <1>5, <1>7, <1>8
<1> QED BY <1>9 DEF r

LEMMA TotalIsNat ==
  ASSUME TypeOK, NEW i \in Inputs
  PROVE  /\ Count(got, {i}) \in Nat /\ Queued(i) \in Nat /\ Coming(i) \in Nat
         /\ Held(i) \in {0, 1} /\ Again(i) \in {0, 1}
         /\ cur \in Nat
<1>1. Count(got, {i}) \in Nat /\ Count(queue, OfInput(i)) \in Nat
  BY CountIsNat DEF TypeOK
<1>2. cur # 0 => Count(down[cur], OfInput(i)) \in Nat
  <2> SUFFICES ASSUME cur # 0 PROVE Count(down[cur], OfInput(i)) \in Nat
    OBVIOUS
  <2>1. down[cur] \in Seq(Down)
    BY OpenInConns DEF TypeOK
  <2> QED BY <2>1, CountIsNat
<1>3. cur \in Nat
  BY InputDeliveryAssumption DEF TypeOK
<1> QED BY <1>1, <1>2, <1>3 DEF Queued, Held, HeldIn, Coming, Again

LEMMA TotalsAreNat ==
  TypeOK => \A i \in Inputs :
    /\ Count(got, {i}) \in Nat /\ Queued(i) \in Nat /\ Coming(i) \in Nat
    /\ Held(i) \in {0, 1} /\ Again(i) \in {0, 1}
BY TotalIsNat

LEMMA TotalsAreNatNext ==
  (TypeOK => \A i \in Inputs :
     /\ Count(got, {i}) \in Nat /\ Queued(i) \in Nat /\ Coming(i) \in Nat
     /\ Held(i) \in {0, 1} /\ Again(i) \in {0, 1})'
BY TotalsAreNat, PTL

LEMMA PrimedTotal ==
  ASSUME NEW i
  PROVE  /\ Total(i)' = Count(got', {i}) + Queued(i)' + Held(i)' + Coming(i)' + Again(i)'
         /\ Queued(i)' = Count(queue', OfInput(i))
         /\ Held(i)' = HeldIn(accepted', client', i)
         /\ Coming(i)' = IF cur' = 0 THEN 0 ELSE Count(down'[cur'], OfInput(i))
BY DEF Total, Count, Queued, Held, HeldIn, Coming

LEMMA TotalIsNatNext ==
  ASSUME TypeOK', NEW i \in Inputs
  PROVE  /\ Count(got', {i}) \in Nat /\ Queued(i)' \in Nat /\ Coming(i)' \in Nat
         /\ Held(i)' \in {0, 1} /\ Again(i)' \in {0, 1}
<1>1. \A j \in Inputs : Count(got, {j})' = Count(got', {j})
  BY DEF Count
<1> QED BY <1>1, TotalsAreNatNext

\* A client holds one more input, or goes on with the one it holds.
LEMMA AllocateTotal ==
  ASSUME TypeOK, TypeOK', OnlyAccepted, OneHolder, NEW i \in Inputs,
         NEW w \in Clients, AllocateSeq(w) \/ InsertRow(w)
  PROVE  Total(i)' <= Total(i) /\ OneHolder'
<1>0. /\ Queued(i) \in Nat /\ Coming(i) \in Nat /\ Held(i) \in {0, 1} /\ Again(i) \in {0, 1}
      /\ Queued(i)' \in Nat /\ Coming(i)' \in Nat /\ Held(i)' \in {0, 1}
      /\ Again(i)' \in {0, 1}
      /\ Count(got, {i}) \in Nat /\ Count(got', {i}) \in Nat
  BY TotalIsNat, TotalIsNatNext
<1>1. UNCHANGED <<got, queue, down, cur, backend, replay>>
  BY DEF AllocateSeq, InsertRow, registry, tasks, wires, proxies
<1>2. /\ Count(got', {i}) = Count(got, {i}) /\ Queued(i)' = Queued(i)
      /\ Coming(i)' = Coming(i) /\ Again(i)' = Again(i)
  BY <1>1, PrimedTotal DEF Queued, Coming, Again
<1>3. /\ \A v \in Clients : v # w => client'[v] = client[v]
      /\ \/ /\ client[w].at = "idle" /\ accepted' = accepted + 1
            /\ client'[w].at # "idle" /\ client'[w].id = accepted + 1
         \/ /\ client[w].at # "idle" /\ accepted' = accepted
            /\ client'[w].at # "idle" /\ client'[w].id = client[w].id
  <2>1. CASE AllocateSeq(w)
    <3>1. client[w].at = "idle" /\ accepted' = accepted + 1
      BY <2>1 DEF AllocateSeq
    <3>2. PICK at \in {"insert", "send"} :
            client' = [client EXCEPT ![w] = [at |-> at, id |-> accepted + 1]]
      BY <2>1, AllocateShape
    <3>3. client'[w] = [at |-> at, id |-> accepted + 1]
      BY <3>2 DEF TypeOK
    <3> QED BY <3>1, <3>2, <3>3 DEF TypeOK
  <2>2. CASE InsertRow(w)
    <3>1. client[w].at = "insert" /\ accepted' = accepted
          /\ client' = [client EXCEPT ![w] = [at |-> "send", id |-> client[w].id]]
      BY <2>2 DEF InsertRow
    <3> QED BY <3>1 DEF TypeOK
  <2> QED BY <2>1, <2>2
<1>4. \A v \in Clients : client[v].at # "idle" => client[v].id # accepted + 1
  <2>1. accepted + 1 \notin 1..accepted
    BY DEF TypeOK
  <2>2. \A v \in Clients : client[v].at # "idle" => client[v].id \in 1..accepted
    BY DEF OnlyAccepted, Numbered
  <2> QED BY <2>1, <2>2
<1>5. Held(i)' <= Held(i)
  <2>1. i > accepted' => i > accepted
    BY <1>3 DEF TypeOK, Inputs
  <2>2. i = accepted + 1 => i > accepted
    BY DEF TypeOK
  <2>3. (\E v \in Clients : client'[v].at # "idle" /\ client'[v].id = i) =>
           \/ i > accepted
           \/ \E v \in Clients : client[v].at # "idle" /\ client[v].id = i
    BY <1>3, <2>2
  <2>4. Held(i)' = 1 => Held(i) = 1
    BY <2>1, <2>3, PrimedTotal DEF Held, HeldIn
  <2> QED BY <1>0, <2>4
<1>6. OneHolder'
  BY <1>3, <1>4 DEF OneHolder
<1>7. Total(i)' <= Total(i)
  BY <1>2, <1>5, PrimedTotal, <1>0 DEF Total
<1> QED BY <1>6, <1>7

\* The message a client sends is the one copy its input is sent in.
LEMMA SendTotal ==
  ASSUME TypeOK, TypeOK', OnlyAccepted, OneHolder, NEW i \in Inputs,
         NEW w \in Clients, SendInput(w)
  PROVE  Total(i)' <= Total(i) /\ OneHolder'
<1>0. /\ Queued(i) \in Nat /\ Coming(i) \in Nat /\ Held(i) \in {0, 1} /\ Again(i) \in {0, 1}
      /\ Queued(i)' \in Nat /\ Coming(i)' \in Nat /\ Held(i)' \in {0, 1}
      /\ Again(i)' \in {0, 1}
      /\ Count(got, {i}) \in Nat /\ Count(got', {i}) \in Nat
  BY TotalIsNat, TotalIsNatNext
<1> DEFINE j == client[w].id
           m == Input(j, j \in Wiggum /\ w \notin Launchers)
<1>1. /\ UNCHANGED <<got, cur, backend, replay, accepted>>
      /\ client[w].at = "send"
      /\ client' = [client EXCEPT ![w] = Idle]
      /\ registered # 0 => down' = [down EXCEPT ![registered] = Append(@, m)] /\ queue' = queue
      /\ registered = 0 => queue' = Append(queue, m) /\ down' = down
  BY DEF SendInput, table, tasks, proxies
<1>2. j \in Numbered /\ j \in Inputs
  BY <1>1, AcceptedAreInputs DEF OnlyAccepted
<1>3. m \in Down /\ (m \in OfInput(i) <=> i = j)
  BY <1>2, MessagesAreDown DEF Input, OfInput
<1>4. client'[w].at = "idle" /\ \A v \in Clients : v # w => client'[v] = client[v]
  BY <1>1 DEF TypeOK, Idle
<1>5. Held(i)' <= Held(i) /\ (i = j => Held(i) = 1 /\ Held(i)' = 0)
  <2>1. Held(i)' = 1 => Held(i) = 1
    BY <1>1, <1>4, PrimedTotal DEF Held, HeldIn
  <2>2. i = j => Held(i) = 1
    BY <1>1 DEF Held, HeldIn
  <2>3. ASSUME i = j PROVE Held(i)' = 0
    <3>1. ~(i > accepted)
      BY <1>2, <2>3 DEF Numbered, TypeOK
    <3>2. \A v \in Clients : client'[v].at # "idle" => client'[v].id # i
      BY <1>1, <1>4, <2>3 DEF OneHolder
    <3> QED BY <1>1, <3>1, <3>2, PrimedTotal DEF HeldIn
  <2> QED BY <2>1, <2>2, <2>3, <1>0
<1> HIDE DEF j, m
<1>6. Count(got', {i}) = Count(got, {i}) /\ Again(i)' = Again(i)
  BY <1>1 DEF Again
<1>7. Queued(i)' + Coming(i)' <= Queued(i) + Coming(i) + (IF i = j THEN 1 ELSE 0)
  <2>1. CASE registered = 0
    <3>1. Coming(i)' = Coming(i)
      BY <1>1, <2>1, PrimedTotal DEF Coming
    <3>2. Queued(i)' = Queued(i) + (IF m \in OfInput(i) THEN 1 ELSE 0)
      <4>1. queue \in Seq(Down)
        BY DEF TypeOK
      <4>2. Count(Append(queue, m), OfInput(i)) =
              Count(queue, OfInput(i)) + (IF m \in OfInput(i) THEN 1 ELSE 0)
        BY <1>3, <4>1, CountOfAppend
      <4> QED BY <1>1, <2>1, <4>2, PrimedTotal DEF Queued
    <3> QED BY <1>3, <3>1, <3>2, <1>0
  <2>2. CASE registered # 0
    <3>1. Queued(i)' = Queued(i)
      BY <1>1, <2>2, PrimedTotal DEF Queued
    <3>2. registered \in Conns
      BY <2>2 DEF TypeOK, Conns
    <3>3. CASE cur = registered
      <4>1. down'[cur] = Append(down[cur], m) /\ down[cur] \in Seq(Down) /\ cur # 0
        BY <1>1, <2>2, <3>2, <3>3 DEF TypeOK
      <4>2. Coming(i)' = Coming(i) + (IF m \in OfInput(i) THEN 1 ELSE 0)
        BY <1>1, <1>3, <4>1, PrimedTotal, CountOfAppend DEF Coming
      <4> QED BY <1>3, <3>1, <4>2, <1>0
    <3>4. CASE cur # registered
      <4>1. cur # 0 => down'[cur] = down[cur]
        BY <1>1, <2>2, <3>2, <3>4, OpenInConns DEF TypeOK
      <4>2. Coming(i)' = Coming(i)
        BY <1>1, <4>1, PrimedTotal DEF Coming
      <4> QED BY <3>1, <4>2, <1>0
    <3> QED BY <3>3, <3>4
  <2> QED BY <2>1, <2>2
<1>8. Total(i)' <= Total(i)
  <2>1. CASE i = j
    BY <1>5, <1>6, <1>7, <2>1, PrimedTotal, <1>0 DEF Total
  <2>2. CASE i # j
    BY <1>5, <1>6, <1>7, <2>2, PrimedTotal, <1>0 DEF Total
  <2> QED BY <2>1, <2>2
<1>9. OneHolder'
  BY <1>4 DEF OneHolder
<1> QED BY <1>8, <1>9

\* A registration brings the queue, a replay brings each row once.
LEMMA BackendTotal ==
  ASSUME TypeOK, TypeOK', OnlyAccepted, OneHolder, NEW i \in Inputs,
         NEW c \in Conns, BackendStep(c)
  PROVE  Total(i)' <= Total(i) /\ OneHolder'
<1>0. /\ Queued(i) \in Nat /\ Coming(i) \in Nat /\ Held(i) \in {0, 1} /\ Again(i) \in {0, 1}
      /\ Queued(i)' \in Nat /\ Coming(i)' \in Nat /\ Held(i)' \in {0, 1}
      /\ Again(i)' \in {0, 1}
      /\ Count(got, {i}) \in Nat /\ Count(got', {i}) \in Nat
  BY TotalIsNat, TotalIsNatNext
<1>1. UNCHANGED <<got, cur, client, accepted>>
  BY DEF BackendStep, RegisterSession, RegisterLost, SendRegisterAck, LoadPending,
     ReplayNext, ReadInputAck, SocketEnds, table, proxies
<1>2. Count(got', {i}) = Count(got, {i}) /\ Held(i)' = Held(i)
  BY <1>1, PrimedTotal DEF Held
<1>3. c \in Nat \ {0}
  BY InputDeliveryAssumption DEF Conns
<1>4. SUFFICES Queued(i)' + Coming(i)' + Again(i)' <= Queued(i) + Coming(i) + Again(i)
  BY <1>0, <1>1, <1>2, PrimedTotal DEF Total, OneHolder
<1>5. CASE cur # c
  <2>1. cur # 0 => cur \in Conns
    BY OpenInConns
  <2>2. cur # 0 => backend'[cur] = backend[cur] /\ replay'[cur] = replay[cur]
    <3> USE DEF TypeOK
    <3>1. CASE RegisterSession(c) \/ RegisterLost(c)
      BY <1>5, <2>1, <3>1 DEF RegisterSession, RegisterLost
    <3>2. CASE SendRegisterAck(c)
      BY <1>5, <2>1, <3>2 DEF SendRegisterAck
    <3>3. CASE LoadPending(c)
      BY <1>5, <2>1, <3>3 DEF LoadPending
    <3>4. CASE ReplayNext(c)
      <4>1. /\ backend' = backend \/ backend' = [backend EXCEPT ![c] = "serving"]
            /\ replay' = replay \/ replay' = [replay EXCEPT ![c] = replay'[c]]
        BY <3>4 DEF ReplayNext
      <4> QED BY <1>5, <2>1, <4>1
    <3>5. CASE ReadInputAck(c) \/ SocketEnds(c)
      BY <1>5, <2>1, <3>5 DEF ReadInputAck, SocketEnds, tasks
    <3> QED BY <3>1, <3>2, <3>3, <3>4, <3>5 DEF BackendStep
  <2>3. cur # 0 => down'[cur] = down[cur]
    <3> USE DEF TypeOK
    <3>1. CASE RegisterSession(c) \/ SendRegisterAck(c) \/ SocketEnds(c)
      BY <1>5, <2>1, <3>1 DEF RegisterSession, SendRegisterAck, SocketEnds
    <3>2. CASE RegisterLost(c) \/ LoadPending(c) \/ ReadInputAck(c)
      BY <3>2 DEF RegisterLost, LoadPending, ReadInputAck, wires
    <3>3. CASE ReplayNext(c)
      <4>1. \/ down' = down
            \/ \E j \in replay[c] : down' = [down EXCEPT ![c] = Append(@, Input(j, FALSE))]
        BY <3>3 DEF ReplayNext
      <4> QED BY <1>5, <2>1, <4>1
    <3> QED BY <3>1, <3>2, <3>3 DEF BackendStep
  <2>4. Coming(i)' = Coming(i) /\ Again(i)' = Again(i)
    BY <1>1, <2>2, <2>3, PrimedTotal DEF Coming, Again
  <2>5. queue' = queue \/ queue' = <<>>
    BY DEF BackendStep, RegisterSession, RegisterLost, SendRegisterAck, LoadPending,
     ReplayNext, ReadInputAck, SocketEnds, registry
  <2>6. Queued(i)' <= Queued(i)
    BY <1>0, <2>5, PrimedTotal, CountOfEmpty DEF Queued
  <2> QED BY <1>0, <2>4, <2>6
<1>6. CASE cur = c
  <2>0. /\ cur # 0 /\ cur' # 0 /\ down[c] \in Seq(Down) /\ cur' = c
        /\ Coming(i) = Count(down[c], OfInput(i))
        /\ Coming(i)' = Count(down'[c], OfInput(i))
    BY <1>1, <1>3, <1>6, PrimedTotal DEF TypeOK, Coming
  <2>1. CASE RegisterSession(c)
    <3>1. backend[c] = "new" /\ queue' = <<>> /\ down'[c] = queue
      BY <2>1 DEF RegisterSession, MayRegister, TypeOK
    <3>2. Again(i) = 1
      BY <1>6, <2>0, <3>1 DEF Again
    <3>3. Queued(i)' = 0 /\ Coming(i)' = Queued(i)
      BY <2>0, <3>1, PrimedTotal, CountOfEmpty DEF Queued
    <3> QED BY <1>0, <3>2, <3>3
  <2>2. CASE RegisterLost(c) \/ LoadPending(c) \/ ReadInputAck(c)
    <3>1. UNCHANGED <<queue, down>>
      BY <2>2 DEF RegisterLost, LoadPending, ReadInputAck, registry, wires
    <3>2. Queued(i)' = Queued(i) /\ Coming(i)' = Coming(i)
      BY <2>0, <3>1, PrimedTotal DEF Queued
    <3>3. Again(i) = 1 \/ Again(i)' = Again(i)
      <4>1. CASE RegisterLost(c) \/ LoadPending(c)
        BY <1>6, <2>0, <4>1 DEF RegisterLost, LoadPending, Again
      <4>2. CASE ReadInputAck(c)
        BY <1>1, <4>2 DEF ReadInputAck, tasks, Again
      <4> QED BY <2>2, <4>1, <4>2
    <3> QED BY <1>0, <3>2, <3>3
  <2>3. CASE SendRegisterAck(c)
    <3>1. PICK ok \in BOOLEAN : down' = [down EXCEPT ![c] = Append(@, RegisterAck(ok))]
      BY <2>3 DEF SendRegisterAck
    <3>2. down'[c] = Append(down[c], RegisterAck(ok))
      BY <3>1 DEF TypeOK
    <3>3. RegisterAck(ok) \in Down /\ RegisterAck(ok) \notin OfInput(i)
      BY MessagesAreDown DEF RegisterAck, OfInput
    <3>4. Coming(i)' = Coming(i)
      BY <1>0, <2>0, <3>2, <3>3, CountOfAppend
    <3>5. queue' = queue /\ backend[c] = "ack"
      BY <2>3 DEF SendRegisterAck, registry
    <3>6. Queued(i)' = Queued(i) /\ Again(i) = 1
      BY <1>6, <2>0, <3>5, PrimedTotal DEF Queued, Again
    <3> QED BY <1>0, <3>4, <3>6
  <2>4. CASE ReplayNext(c)
    <3>1. queue' = queue /\ backend[c] = "replay"
      BY <2>4 DEF ReplayNext, registry
    <3>2. Queued(i)' = Queued(i)
      BY <3>1, PrimedTotal DEF Queued
    <3>3. CASE replay[c] = {}
      <4>1. down' = down /\ replay' = replay /\ backend'[c] = "serving"
        BY <2>4, <3>3 DEF ReplayNext, TypeOK
      <4>2. Coming(i)' = Coming(i) /\ Again(i)' = 0
        BY <1>6, <2>0, <3>3, <4>1 DEF Again
      <4> QED BY <1>0, <3>2, <4>2
    <3>4. CASE replay[c] # {}
      <4>1. PICK j \in replay[c] :
              /\ down' = [down EXCEPT ![c] = Append(@, Input(j, FALSE))]
              /\ replay' = [replay EXCEPT ![c] = @ \ {j}]
              /\ backend' = backend
        BY <2>4, <3>4 DEF ReplayNext
      <4>2. j \in Inputs /\ down'[c] = Append(down[c], Input(j, FALSE))
            /\ replay'[c] = replay[c] \ {j}
        BY <4>1 DEF TypeOK
      <4> DEFINE m == Input(j, FALSE)
      <4>3. m \in Down /\ (m \in OfInput(i) <=> i = j)
        BY <4>2, MessagesAreDown DEF Input, OfInput
      <4>4. Coming(i)' = Coming(i) + (IF i = j THEN 1 ELSE 0)
        <5>0. down'[c] = Append(down[c], m)
          BY <4>2
        <5> HIDE DEF m
        <5>1. Count(Append(down[c], m), OfInput(i)) =
                Count(down[c], OfInput(i)) + (IF m \in OfInput(i) THEN 1 ELSE 0)
          BY <2>0, <4>3, CountOfAppend
        <5> QED BY <2>0, <4>3, <5>0, <5>1
      <4>5. (i = j => Again(i) = 1 /\ Again(i)' = 0) /\ (i # j => Again(i)' = Again(i))
        BY <1>6, <2>0, <3>1, <4>1, <4>2 DEF Again
      <4> QED BY <1>0, <3>2, <4>4, <4>5
    <3> QED BY <3>3, <3>4
  <2>5. CASE SocketEnds(c)
    <3>1. queue' = queue /\ down'[c] = <<>> /\ backend[c] = "serving"
          /\ backend'[c] = "done" /\ replay' = replay
      BY <2>5 DEF SocketEnds, TypeOK
    <3>2. Queued(i)' = Queued(i) /\ Coming(i)' = 0 /\ Again(i)' = Again(i)
      BY <1>6, <2>0, <3>1, PrimedTotal, CountOfEmpty DEF Queued, Again
    <3> QED BY <1>0, <3>2
  <2> QED BY <2>1, <2>2, <2>3, <2>4, <2>5 DEF BackendStep
<1> QED BY <1>5, <1>6

\* A connection allows one more copy; the reader takes copies off the wire.
LEMMA ProxyTotal ==
  ASSUME TypeOK, TypeOK', OnlyAccepted, Opened, OneHolder, NEW i \in Inputs,
         ProxyStep \/ AckTimeout \/ LinkCut \/ BackendRestart \/ UNCHANGED vars
  PROVE  /\ Total(i)' - cur' <= Total(i) - cur
         /\ OneHolder'
<1>0. /\ Queued(i) \in Nat /\ Coming(i) \in Nat /\ Held(i) \in {0, 1} /\ Again(i) \in {0, 1}
      /\ Queued(i)' \in Nat /\ Coming(i)' \in Nat /\ Held(i)' \in {0, 1}
      /\ Again(i)' \in {0, 1} /\ cur \in Nat /\ cur' \in Nat
      /\ Count(got, {i}) \in Nat /\ Count(got', {i}) \in Nat
  <2>1. cur \in Nat /\ cur' \in Nat
    BY InputDeliveryAssumption DEF TypeOK
  <2> QED BY <2>1, TotalIsNat, TotalIsNatNext
<1>1. CASE BackendRestart
  <2>1. /\ UNCHANGED <<got, accepted, cur>> /\ queue' = <<>>
        /\ \A w \in Clients : client'[w].at = "idle"
        /\ \A c \in Conns : /\ down'[c] = <<>> /\ replay'[c] = {}
                            /\ link[c] # "unused" => backend'[c] = "done"
    BY <1>1 DEF BackendRestart, table, proxies, Idle
  <2>2. cur # 0 => cur \in Conns /\ link[cur] # "unused"
    BY <1>0, OpenInConns DEF Opened
  <2>3. Count(got', {i}) = Count(got, {i}) /\ Queued(i)' = 0 /\ Coming(i)' = 0
    BY <2>1, <2>2, PrimedTotal, CountOfEmpty
  <2>4. Again(i)' = 0
    BY <2>1, <2>2 DEF Again
  <2>5. Held(i)' <= Held(i)
    <3>1. Held(i)' = 1 => Held(i) = 1
      BY <2>1, PrimedTotal DEF Held, HeldIn
    <3> QED BY <1>0, <3>1
  <2>6. OneHolder'
    BY <2>1 DEF OneHolder
  <2> QED BY <1>0, <2>1, <2>3, <2>4, <2>5, <2>6, PrimedTotal DEF Total
<1>2. CASE ~BackendRestart
  <2>1. UNCHANGED <<client, accepted, queue, backend, replay>>
    BY <1>2 DEF ProxyStep, Connect, AwaitAck, ReadInput, SendInputAck, TakeInput, TakeWiggum,
       Disconnect, AckTimeout, LinkCut, table, registry, tasks, vars
  <2>2. OneHolder' /\ Held(i)' = Held(i) /\ Queued(i)' = Queued(i)
    BY <2>1, PrimedTotal DEF OneHolder, Held, Queued
  <2>3. CASE Connect
    <3>1. cur' = cur + 1 /\ cur + 1 \in Conns /\ ~(cur + 1 <= cur) /\ UNCHANGED <<got, down>>
      BY <1>0, <2>3, InputDeliveryAssumption DEF Connect, Conns
    <3>2. down'[cur'] = <<>> /\ cur' # 0
      BY <1>0, <3>1 DEF Opened
    <3>3. Coming(i)' = 0 /\ Count(got', {i}) = Count(got, {i})
      BY <3>1, <3>2, PrimedTotal, CountOfEmpty
    <3> QED BY <1>0, <2>2, <3>1, <3>3, PrimedTotal DEF Total
  <2>4. CASE AwaitAck \/ ReadInput
    <3>1. PICK m \in Down : Receive(m) /\
            \/ got' = got
            \/ m.kind = "input" /\ got' = Append(got, m.id)
      BY <2>4 DEF AwaitAck, ReadInput, LeaveConnection, proxies
    <3>2. cur' = cur
      BY <2>4 DEF AwaitAck, ReadInput, LeaveConnection, proxies
    <3>3. /\ cur \in Conns /\ down[cur] \in Seq(Down) /\ down[cur] # <<>>
          /\ m = Head(down[cur]) /\ down'[cur] = Tail(down[cur]) /\ cur # 0
          /\ m \in Elements(down[cur])
      BY <3>1, OpenInConns, ReceiveShape DEF Receive, TypeOK
    <3>4. Again(i)' = Again(i)
      BY <2>1, <3>2 DEF Again
    <3>5. /\ Coming(i) = Count(down[cur], OfInput(i))
          /\ Coming(i)' = Count(Tail(down[cur]), OfInput(i))
      BY <3>2, <3>3, PrimedTotal DEF Coming
    <3>6. Coming(i)' + (IF m \in OfInput(i) THEN 1 ELSE 0) <= Coming(i)
      <4>1. Count(Tail(down[cur]), OfInput(i)) + (IF Head(down[cur]) \in OfInput(i) THEN 1 ELSE 0)
              <= Count(down[cur], OfInput(i))
        BY <3>3, CountOfTail
      <4> QED BY <3>3, <3>5, <4>1
    <3>7. Count(got', {i}) <= Count(got, {i}) + (IF m \in OfInput(i) THEN 1 ELSE 0)
      <4>1. CASE got' = got
        BY <1>0, <4>1
      <4>2. CASE m.kind = "input" /\ got' = Append(got, m.id)
        <5>1. m.id \in Inputs
          BY <3>3, <4>2, AcceptedAreInputs DEF OnlyAccepted
        <5>2. Count(Append(got, m.id), {i}) = Count(got, {i}) + (IF m.id \in {i} THEN 1 ELSE 0)
          <6>1. got \in Seq(Inputs)
            BY DEF TypeOK
          <6> QED BY <5>1, <6>1, CountOfAppend
        <5>3. m \in OfInput(i) <=> m.id = i
          BY <4>2 DEF OfInput
        <5> QED BY <1>0, <4>2, <5>2, <5>3
      <4> QED BY <3>1, <4>1, <4>2
    <3> QED BY <1>0, <2>2, <3>2, <3>4, <3>6, <3>7, PrimedTotal DEF Total
  <2>5. CASE ~Connect /\ ~AwaitAck /\ ~ReadInput
    <3>1. UNCHANGED <<got, cur, down>>
      BY <1>2, <2>5 DEF ProxyStep, SendInputAck, TakeInput, TakeWiggum, Disconnect, AckTimeout,
         LinkCut, LeaveConnection, wires, proxies, vars
    <3>2. Coming(i)' = Coming(i) /\ Again(i)' = Again(i) /\ Count(got', {i}) = Count(got, {i})
      BY <2>1, <3>1, PrimedTotal DEF Coming, Again
    <3> QED BY <1>0, <2>2, <3>1, <3>2, PrimedTotal DEF Total
  <2> QED BY <2>3, <2>4, <2>5
<1> QED BY <1>1, <1>2

LEMMA BudgetInit == Init => Opened /\ Budget
<1> SUFFICES ASSUME Init PROVE Opened /\ Budget
  OBVIOUS
<1>1. Opened
  BY InputDeliveryAssumption DEF Init, Opened, Conns
<1>2. OneHolder
  BY DEF Init, OneHolder, Idle
<1>3. ASSUME NEW i \in Inputs PROVE Total(i) <= cur + 1
  <2>1. Count(got, {i}) = 0 /\ Queued(i) = 0 /\ Coming(i) = 0 /\ Again(i) = 0 /\ cur = 0
    BY CountOfEmpty DEF Init, Queued, Coming, Again
  <2>2. Held(i) \in {0, 1}
    BY DEF Held, HeldIn
  <2> QED BY <2>1, <2>2 DEF Total
<1> QED BY <1>1, <1>2, <1>3 DEF Budget

LEMMA HeldAreInputs ==
  TypeOK /\ OnlyAccepted =>
    \A w \in Clients : client[w].at = "idle" \/ client[w].id \in Inputs
BY AcceptedAreInputs DEF OnlyAccepted

LEMMA HeldAreInputsNext ==
  (TypeOK /\ OnlyAccepted =>
     \A w \in Clients : client[w].at = "idle" \/ client[w].id \in Inputs)'
BY HeldAreInputs, PTL

LEMMA BudgetStep ==
  ASSUME TypeOK, TypeOK', OnlyAccepted, Opened, Budget, [Next]_vars
  PROVE  Budget'
<1>1. OneHolder /\ cur \in Nat /\ cur' \in Nat
  BY InputDeliveryAssumption DEF Budget, TypeOK
<1>2. ASSUME NEW i \in Inputs
      PROVE  Total(i)' - cur' <= Total(i) - cur /\ OneHolder'
  <2>1. CASE \E w \in Clients : ClientStep(w)
    <3>1. PICK w \in Clients : ClientStep(w)
      BY <2>1
    <3>2. Total(i)' <= Total(i) /\ OneHolder'
      BY <1>1, <3>1, AllocateTotal, SendTotal DEF ClientStep
    <3>3. cur' = cur
      BY <3>1 DEF ClientStep, AllocateSeq, InsertRow, SendInput, proxies
    <3> QED BY <1>1, <3>2, <3>3, PrimedTotal, TotalIsNat, TotalIsNatNext DEF Total
  <2>2. CASE \E c \in Conns : BackendStep(c)
    <3>1. PICK c \in Conns : BackendStep(c)
      BY <2>2
    <3>2. Total(i)' <= Total(i) /\ OneHolder'
      BY <1>1, <3>1, BackendTotal
    <3>3. cur' = cur
      BY <3>1 DEF BackendStep, RegisterSession, RegisterLost, SendRegisterAck, LoadPending,
         ReplayNext, ReadInputAck, SocketEnds, proxies
    <3> QED BY <1>1, <3>2, <3>3, PrimedTotal, TotalIsNat, TotalIsNatNext DEF Total
  <2> QED BY <1>1, <2>1, <2>2, ProxyTotal DEF Next
<1>3. OneHolder'
  <2>1. CASE Inputs = {}
    <3>1. \A w \in Clients : client'[w].at = "idle" \/ client'[w].id \in Inputs
      BY AcceptedStep, HeldAreInputsNext
    <3> QED BY <2>1, <3>1 DEF OneHolder
  <2> QED BY <1>2, <2>1
<1>4. \A i \in Inputs : Total(i)' <= cur' + 1
  <2> TAKE i \in Inputs
  <2>1. Total(i) <= cur + 1 /\ Total(i)' - cur' <= Total(i) - cur
    BY <1>2 DEF Budget
  <2>2. Total(i) \in Nat /\ Total(i)' \in Nat
    BY PrimedTotal, TotalIsNat, TotalIsNatNext DEF Total
  <2> QED BY <1>1, <2>1, <2>2
<1> QED BY <1>3, <1>4 DEF Budget

\* send_to_session, register_session and replay_pending_inputs_from_db: whatever
\* fails and in whichever order clients, backend and proxy run, the reader takes
\* an input at most once as it was sent and once for each connection.
THEOREM CopiesAreBounded == Spec => []CopiesBounded
<1>1. IInv /\ Opened /\ Budget /\ [Next]_vars => (Opened /\ Budget)'
  <2> SUFFICES ASSUME IInv, Opened, Budget, [Next]_vars PROVE (Opened /\ Budget)'
    OBVIOUS
  <2>1. TypeOK'
    BY TypeStep DEF IInv
  <2> QED BY <2>1, OpenedStep, BudgetStep DEF IInv
<1>2. IInv /\ Budget => CopiesBounded
  <2> SUFFICES ASSUME IInv, Budget, NEW i \in Inputs PROVE Copies(i) <= cur + 1
    BY DEF CopiesBounded
  <2>1. Copies(i) = Count(got, {i})
    BY DEF Copies, Count
  <2>2. Total(i) <= cur + 1 /\ TypeOK
    BY DEF Budget, IInv
  <2> QED BY <2>1, <2>2, TotalIsNat DEF Total
<1> QED BY <1>1, <1>2, BudgetInit, IInvInit, IInvStep, PTL DEF Spec

=============================================================================
