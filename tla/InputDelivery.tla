--------------------------- MODULE InputDelivery ---------------------------
(***************************************************************************)
(* The input path of one session: from a user's message on a web socket    *)
(* (web_client_socket.rs) or a scheduled prompt (launcher_socket.rs) over  *)
(* the pending_inputs table and the registered proxy socket                *)
(* (session_manager.rs, proxy_socket.rs, message_handlers.rs) to the       *)
(* proxy's reader (ws_reader.rs) and its main loop, which hands it to the  *)
(* agent (proxy_session/mod.rs).                                           *)
(*                                                                         *)
(* Inputs are numbered in the order they are accepted. The registry's own  *)
(* races are in SessionRegistry: here a socket's registration and cleanup  *)
(* are one step each.                                                      *)
(***************************************************************************)
EXTENDS Naturals, Sequences, FiniteSets

CONSTANTS
  MaxInputs,  \* bound: inputs accepted from the clients
  MaxConn,    \* bound: connections the proxy opens
  Clients,    \* the sockets inputs come from
  Launchers,  \* those of them that are launchers
  Wiggum,     \* the inputs the user sends in wiggum mode
  Orderly,    \* TRUE: no client sends while a proxy registers, and sockets
              \* register in the order of their connections
  Faults      \* the faults that may happen

ASSUME InputDeliveryAssumption ==
  /\ MaxInputs \in Nat
  /\ MaxConn \in Nat
  /\ Launchers \subseteq Clients
  /\ Wiggum \subseteq 1..MaxInputs
  /\ Orderly \in BOOLEAN
  /\ Faults \subseteq {"db_error", "ack_timeout", "restart"}

VARIABLES
  input_seq,   \* sessions.input_seq
  rows,        \* pending_inputs: the inputs stored
  accepted,    \* number of inputs accepted
  seq,         \* [input -> its sequence number; 0 without one]
  client,      \* [client -> the step it is at and its input]
  registered,  \* the socket in the registry; 0 if none
  queue,       \* the registry's queue of messages
  backend,     \* [connection -> the step of the backend's socket task]
  known,       \* [connection -> db_session_id is set]
  replay,      \* [connection -> inputs loaded and not yet replayed]
  link,        \* [connection -> its state]
  down,        \* [connection -> messages for the proxy]
  up,          \* [connection -> input acknowledgments for the backend]
  cur,         \* the proxy's latest connection
  proxy,       \* what the proxy does with it
  reader,      \* the number the reader is about to acknowledge; 0 if none
  input_rx,    \* inputs for the agent, kept across connections
  wiggum_rx,   \* wiggum prompts for the agent, of one connection
  stored,      \* history: inputs that were stored
  got,         \* history: inputs the reader took, in order
  agent        \* history: what the agent was given

table == <<input_seq, rows, accepted, seq, stored>>
registry == <<registered, queue>>
tasks == <<backend, known, replay>>
wires == <<link, down, up>>
proxies == <<cur, proxy, reader, input_rx, wiggum_rx, got, agent>>
vars == <<table, client, registry, tasks, wires, proxies>>

Inputs == 1..MaxInputs
Conns == 1..MaxConn

\* Messages to the proxy: an input as the reader sees it, or RegisterAck.
Input(i, w) == [kind |-> "input", id |-> i, wiggum |-> w]
RegisterAck(ok) == [kind |-> IF ok THEN "ack" ELSE "nak", id |-> 0, wiggum |-> FALSE]

Down == [kind : {"input", "ack", "nak"}, id : 0..MaxInputs, wiggum : BOOLEAN]
Client == [at : {"idle", "insert", "send"}, id : 0..MaxInputs]
Idle == [at |-> "idle", id |-> 0]

Registering == {"ack", "load", "replay"}

TypeOK ==
  /\ input_seq \in Nat
  /\ rows \subseteq Inputs
  /\ accepted \in 0..MaxInputs
  /\ seq \in [Inputs -> Nat]
  /\ client \in [Clients -> Client]
  /\ registered \in 0..MaxConn
  /\ queue \in Seq(Down)
  /\ backend \in [Conns -> {"new", "serving", "done"} \union Registering]
  /\ known \in [Conns -> BOOLEAN]
  /\ replay \in [Conns -> SUBSET Inputs]
  /\ link \in [Conns -> {"unused", "open", "cut"}]
  /\ down \in [Conns -> Seq(Down)]
  /\ up \in [Conns -> Seq(Nat)]
  /\ cur \in 0..MaxConn
  /\ proxy \in {"off", "registering", "up"}
  /\ reader \in Nat
  /\ input_rx \in Seq(Inputs)
  /\ wiggum_rx \in Seq(Inputs)
  /\ stored \subseteq Inputs
  /\ got \in Seq(Inputs)
  /\ agent \subseteq [id : Inputs, wiggum : BOOLEAN]

Init ==
  /\ input_seq = 0
  /\ rows = {}
  /\ accepted = 0
  /\ seq = [i \in Inputs |-> 0]
  /\ client = [w \in Clients |-> Idle]
  /\ registered = 0
  /\ queue = <<>>
  /\ backend = [c \in Conns |-> "new"]
  /\ known = [c \in Conns |-> FALSE]
  /\ replay = [c \in Conns |-> {}]
  /\ link = [c \in Conns |-> "unused"]
  /\ down = [c \in Conns |-> <<>>]
  /\ up = [c \in Conns |-> <<>>]
  /\ cur = 0
  /\ proxy = "off"
  /\ reader = 0
  /\ input_rx = <<>>
  /\ wiggum_rx = <<>>
  /\ stored = {}
  /\ got = <<>>
  /\ agent = {}

Elements(s) == {s[i] : i \in DOMAIN s}

DbError == "db_error" \in Faults

-----------------------------------------------------------------------------
(* A client's input: handle_web_input and InjectInput.                      *)

\* UPDATE sessions SET input_seq = input_seq + 1 RETURNING input_seq. If the
\* update fails a web socket goes on with 1 and a launcher gives up; without a
\* connection to the database a web socket sends the input unnumbered.
AllocateSeq(w) ==
  /\ client[w].at = "idle" /\ accepted < MaxInputs
  /\ LET i == accepted + 1
         Next(at, s) == /\ client' = [client EXCEPT ![w] = [at |-> at, id |-> i]]
                        /\ seq' = [seq EXCEPT ![i] = s]
     IN  \/ /\ input_seq' = input_seq + 1
            /\ Next("insert", input_seq + 1)
         \/ /\ DbError /\ w \notin Launchers
            /\ UNCHANGED input_seq
            /\ Next("insert", 1) \/ Next("send", 0)
  /\ accepted' = accepted + 1
  /\ UNCHANGED <<rows, stored, registry, tasks, wires, proxies>>

\* The numbers of a session's rows are unique; a failed insert is logged.
InsertRow(w) ==
  /\ client[w].at = "insert"
  /\ LET i == client[w].id
         unique == \A j \in rows : seq[j] # seq[i]
     IN  \/ /\ unique
            /\ rows' = rows \union {i}
            /\ stored' = stored \union {i}
         \/ /\ DbError \/ ~unique
            /\ UNCHANGED <<rows, stored>>
  /\ client' = [client EXCEPT ![w] = [at |-> "send", id |-> client[w].id]]
  /\ UNCHANGED <<input_seq, accepted, seq, registry, tasks, wires, proxies>>

\* A mutated form of SendInput: the client goes on sending the same input.
SendAgainMutant(w) ==
  /\ client[w].at = "send"
  /\ LET m == Input(client[w].id, FALSE)
     IN  IF registered # 0
         THEN /\ down' = [down EXCEPT ![registered] = Append(@, m)]
              /\ UNCHANGED queue
         ELSE queue' = Append(queue, m) /\ UNCHANGED down
  /\ UNCHANGED <<table, client, registered, tasks, link, up, proxies>>

\* send_to_session: to the registered socket, whose link may be gone, or to the
\* queue.
SendInput(w) ==
  /\ client[w].at = "send"
  /\ Orderly => \A c \in Conns : backend[c] \notin Registering
  /\ LET i == client[w].id
         m == Input(i, i \in Wiggum /\ w \notin Launchers)
     IN  IF registered # 0
         THEN /\ down' = [down EXCEPT ![registered] = Append(@, m)]
              /\ UNCHANGED queue
         ELSE queue' = Append(queue, m) /\ UNCHANGED down
  /\ client' = [client EXCEPT ![w] = Idle]
  /\ UNCHANGED <<table, registered, tasks, link, up, proxies>>

-----------------------------------------------------------------------------
(* The backend's task of a proxy's socket.                                  *)

\* The Register message of a connection, which may be late, arrives.
MayRegister(c) ==
  /\ backend[c] = "new" /\ link[c] # "unused"
  /\ Orderly => \A d \in 1..(c - 1) : backend[d] # "new"

\* Register: register_session replays the queue and registers the socket.
RegisterSession(c) ==
  /\ MayRegister(c)
  /\ down' = [down EXCEPT ![c] = queue]
  /\ queue' = <<>>
  /\ registered' = c
  /\ backend' = [backend EXCEPT ![c] = "ack"]
  /\ UNCHANGED <<table, client, known, replay, link, up, proxies>>

\* The connection is lost before its Register message is read.
RegisterLost(c) ==
  /\ backend[c] = "new" /\ link[c] = "cut"
  /\ backend' = [backend EXCEPT ![c] = "done"]
  /\ UNCHANGED <<table, client, registry, known, replay, wires, proxies>>

\* register_or_update_session, and the RegisterAck that says how it went.
SendRegisterAck(c) ==
  /\ backend[c] = "ack"
  /\ \E ok \in {TRUE} \union (IF DbError THEN {FALSE} ELSE {}) :
       /\ known' = [known EXCEPT ![c] = ok]
       /\ down' = [down EXCEPT ![c] = Append(@, RegisterAck(ok))]
       /\ backend' = [backend EXCEPT ![c] = IF ok THEN "load" ELSE "serving"]
  /\ UNCHANGED <<table, client, registry, replay, link, up, proxies>>

\* A mutated form of LoadPending: the pending inputs are not loaded.
SkipLoadMutant(c) ==
  /\ backend[c] = "load"
  /\ backend' = [backend EXCEPT ![c] = "serving"]
  /\ UNCHANGED <<table, client, registry, known, replay, wires, proxies>>

\* replay_pending_inputs_from_db: the rows are loaded once ...
LoadPending(c) ==
  /\ backend[c] = "load"
  /\ \/ /\ replay' = [replay EXCEPT ![c] = rows]
        /\ backend' = [backend EXCEPT ![c] = "replay"]
     \/ /\ DbError
        /\ backend' = [backend EXCEPT ![c] = "serving"]
        /\ UNCHANGED replay
  /\ UNCHANGED <<table, client, registry, known, wires, proxies>>

IsLowest(i, s) == \A j \in s : seq[i] <= seq[j]

\* ... and sent in the order of their numbers, without their mode.
ReplayNext(c) ==
  /\ backend[c] = "replay"
  /\ IF replay[c] = {}
     THEN /\ backend' = [backend EXCEPT ![c] = "serving"]
          /\ UNCHANGED <<down, replay>>
     ELSE /\ \E i \in replay[c] :
               /\ IsLowest(i, replay[c])
               /\ down' = [down EXCEPT ![c] = Append(@, Input(i, FALSE))]
               /\ replay' = [replay EXCEPT ![c] = @ \ {i}]
          /\ UNCHANGED backend
  /\ UNCHANGED <<table, client, registry, known, link, up, proxies>>

\* A mutated form of Covered: the next number is taken as acknowledged, too.
CoveredNextMutant(a) == {i \in rows : seq[i] <= a + 1}

\* The rows an acknowledgment deletes.
Covered(a) == {i \in rows : seq[i] <= a}

\* handle_input_ack
ReadInputAck(c) ==
  /\ backend[c] = "serving" /\ up[c] # <<>>
  /\ \/ known[c] /\ rows' = rows \ Covered(Head(up[c]))
     \/ (DbError \/ ~known[c]) /\ UNCHANGED rows
  /\ up' = [up EXCEPT ![c] = Tail(@)]
  /\ UNCHANGED <<input_seq, accepted, seq, stored, client, registry, tasks,
                 link, down, proxies>>

\* The socket is at its end: the cleanup unregisters it.
SocketEnds(c) ==
  /\ backend[c] = "serving" /\ link[c] = "cut"
  /\ registered' = IF registered = c THEN 0 ELSE registered
  /\ backend' = [backend EXCEPT ![c] = "done"]
  /\ up' = [up EXCEPT ![c] = <<>>]
  /\ down' = [down EXCEPT ![c] = <<>>]
  /\ UNCHANGED <<table, client, queue, known, replay, link, proxies>>

\* The backend stops and starts again: only the database is left.
BackendRestart ==
  /\ "restart" \in Faults
  /\ cur < MaxConn
  /\ client' = [w \in Clients |-> Idle]
  /\ registered' = 0
  /\ queue' = <<>>
  /\ backend' = [c \in Conns |-> IF link[c] = "unused" THEN "new" ELSE "done"]
  /\ replay' = [c \in Conns |-> {}]
  /\ link' = [c \in Conns |-> IF link[c] = "unused" THEN "unused" ELSE "cut"]
  /\ down' = [c \in Conns |-> <<>>]
  /\ up' = [c \in Conns |-> <<>>]
  /\ UNCHANGED <<table, known, proxies>>

-----------------------------------------------------------------------------
(* The proxy.                                                               *)

Connect ==
  /\ proxy = "off" /\ cur < MaxConn
  /\ cur' = cur + 1
  /\ link' = [link EXCEPT ![cur + 1] = "open"]
  /\ proxy' = "registering"
  /\ UNCHANGED <<table, client, registry, tasks, down, up, reader, input_rx,
                 wiggum_rx, got, agent>>

Receive(m) ==
  /\ cur # 0 /\ link[cur] = "open" /\ down[cur] # <<>>
  /\ m = Head(down[cur])
  /\ down' = [down EXCEPT ![cur] = Tail(@)]

\* A mutated form of LeaveConnection: the channel of inputs goes, too.
LeaveInputsMutant ==
  /\ proxy' = "off"
  /\ reader' = 0
  /\ input_rx' = <<>>
  /\ wiggum_rx' = <<>>
  /\ UNCHANGED <<cur, got, agent>>

\* The end of a connection: its channels and its reader go with it, the
\* channel of inputs stays.
LeaveConnection ==
  /\ proxy' = "off"
  /\ reader' = 0
  /\ wiggum_rx' = <<>>
  /\ UNCHANGED <<cur, input_rx, got, agent>>

\* register_session of the proxy waits for RegisterAck and passes over
\* everything else.
AwaitAck ==
  /\ proxy = "registering"
  /\ \E m \in Down :
       /\ Receive(m)
       /\ \/ /\ m.kind = "ack"
             /\ proxy' = "up"
             /\ UNCHANGED <<cur, reader, input_rx, wiggum_rx, got, agent, link>>
          \/ /\ m.kind = "nak"
             /\ LeaveConnection
             /\ link' = [link EXCEPT ![cur] = "cut"]
          \/ m.kind = "input" /\ UNCHANGED <<link, proxies>>
  /\ UNCHANGED <<table, client, registry, tasks, up>>

\* Without an answer in ten seconds it assumes success.
AckTimeout ==
  /\ "ack_timeout" \in Faults
  /\ proxy = "registering" /\ link[cur] = "open"
  /\ proxy' = "up"
  /\ UNCHANGED <<table, client, registry, tasks, wires, cur, reader, input_rx,
                 wiggum_rx, got, agent>>

\* The reader passes an input on and is about to acknowledge its number.
ReadInput ==
  /\ proxy = "up" /\ reader = 0
  /\ \E m \in Down :
       /\ Receive(m)
       /\ IF m.kind # "input"
          THEN UNCHANGED <<reader, input_rx, wiggum_rx, got>>
          ELSE /\ got' = Append(got, m.id)
               /\ reader' = seq[m.id]
               /\ IF m.wiggum
                  THEN wiggum_rx' = Append(wiggum_rx, m.id) /\ UNCHANGED input_rx
                  ELSE input_rx' = Append(input_rx, m.id) /\ UNCHANGED wiggum_rx
  /\ UNCHANGED <<table, client, registry, tasks, link, up, cur, proxy, agent>>

SendInputAck ==
  /\ reader # 0
  /\ up' = [up EXCEPT ![cur] = IF link[cur] = "open" THEN Append(@, reader) ELSE @]
  /\ reader' = 0
  /\ UNCHANGED <<table, client, registry, tasks, link, down, cur, proxy, input_rx,
                 wiggum_rx, got, agent>>

\* The main loop hands inputs and wiggum prompts to the agent.
TakeInput ==
  /\ proxy = "up" /\ input_rx # <<>>
  /\ agent' = agent \union {[id |-> Head(input_rx), wiggum |-> FALSE]}
  /\ input_rx' = Tail(input_rx)
  /\ UNCHANGED <<table, client, registry, tasks, wires, cur, proxy, reader,
                 wiggum_rx, got>>

TakeWiggum ==
  /\ proxy = "up" /\ wiggum_rx # <<>>
  /\ agent' = agent \union {[id |-> Head(wiggum_rx), wiggum |-> TRUE]}
  /\ wiggum_rx' = Tail(wiggum_rx)
  /\ UNCHANGED <<table, client, registry, tasks, wires, cur, proxy, reader,
                 input_rx, got>>

LinkCut ==
  /\ cur # 0 /\ cur < MaxConn /\ link[cur] = "open"
  /\ link' = [link EXCEPT ![cur] = "cut"]
  /\ UNCHANGED <<table, client, registry, tasks, down, up, proxies>>

\* The proxy notices that its connection is gone.
Disconnect ==
  /\ proxy # "off" /\ link[cur] = "cut"
  /\ LeaveConnection
  /\ UNCHANGED <<table, client, registry, tasks, wires>>

-----------------------------------------------------------------------------
ClientStep(w) == AllocateSeq(w) \/ InsertRow(w) \/ SendInput(w)

BackendStep(c) ==
  \/ RegisterSession(c) \/ RegisterLost(c) \/ SendRegisterAck(c) \/ LoadPending(c)
  \/ ReplayNext(c) \/ ReadInputAck(c) \/ SocketEnds(c)

ProxyStep ==
  \/ Connect \/ AwaitAck \/ ReadInput \/ SendInputAck \/ TakeInput
  \/ TakeWiggum \/ Disconnect

Next ==
  \/ \E w \in Clients : ClientStep(w)
  \/ \E c \in Conns : BackendStep(c)
  \/ ProxyStep
  \/ AckTimeout \/ LinkCut \/ BackendRestart

Spec == Init /\ [][Next]_vars

\* Tasks run on, on both sides; a client that took a number goes on.
FairSpec ==
  /\ Spec
  /\ \A w \in Clients : WF_vars(InsertRow(w) \/ SendInput(w))
  /\ \A c \in Conns : WF_vars(BackendStep(c))
  /\ WF_vars(Connect) /\ WF_vars(Disconnect)
  /\ WF_vars(AwaitAck) /\ WF_vars(ReadInput) /\ WF_vars(SendInputAck)
  /\ WF_vars(TakeInput) /\ WF_vars(TakeWiggum)

-----------------------------------------------------------------------------
(* Properties.                                                              *)

Got == Elements(got)

Copies(i) == Cardinality({k \in DOMAIN got : got[k] = i})

\* An input leaves the table only when the reader took it or one with a higher
\* number: under every fault and interleaving this is all an ack can cost.
DeletedWasCovered ==
  \A i \in stored \ rows : \E j \in Got : seq[j] >= seq[i]

\* An input that was stored is still stored or was taken by the reader.
InputKept == stored \subseteq rows \union Got

\* An input is taken at most once as it was sent and once for each connection
\* that replays it.
CopiesBounded == \A i \in Inputs : Copies(i) <= cur + 1

\* The reader takes inputs for the first time in the order of their numbers.
FirstInOrder ==
  \A k \in DOMAIN got : \A i \in stored :
    seq[i] < seq[got[k]] => \E l \in 1..k : got[l] = i

\* What the reader took reaches the agent or waits for the main loop.
TakenReachesAgent ==
  \A i \in Got :
    \/ i \in Elements(input_rx) \union Elements(wiggum_rx)
    \/ \E m \in agent : m.id = i

\* An input that was stored is still stored or was taken by the reader, which
\* takes inputs for the first time in the order of their numbers; and what it took
\* on a connection that lasts reaches the agent (TakenReachesAgent).
KeptInOrder == InputKept /\ FirstInOrder /\ TakenReachesAgent

\* An input the reader took is one the agent gets in the mode it was sent in.
ModeKept == \A m \in agent : m.wiggum = (m.id \in Wiggum)

\* An input that found no proxy is replayed to the next one: once that
\* connection has passed over it, the input was taken.
QueuedIsReplayed ==
  (proxy = "up" /\ backend[cur] = "serving" /\ down[cur] = <<>>) =>
    \A i \in 1..accepted :
      \/ i \in Got \union rows
      \/ \E m \in Elements(queue) : m.id = i
      \/ \E w \in Clients : client[w].id = i

\* A stored input reaches the agent once a connection stays up, and its row is
\* deleted.
StoredReachesAgent ==
  \A i \in Inputs : (i \in stored) ~> (\E m \in agent : m.id = i)

RowsDrain == <>[](rows = {})
=============================================================================
