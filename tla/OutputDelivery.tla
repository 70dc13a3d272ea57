--------------------------- MODULE OutputDelivery ---------------------------
(***************************************************************************)
(* Delivery of one session's outputs from the proxy to the backend:        *)
(* PendingOutputBuffer (claude-session-lib/src/output_buffer.rs), the      *)
(* connection loop and its two senders (proxy_session/mod.rs,              *)
(* output_forwarder.rs, wiggum.rs) and handle_claude_output with the       *)
(* last_ack_seq tracker (backend websocket/message_handlers.rs).           *)
(*                                                                         *)
(* An output is a natural number, its rank among the contents created; a   *)
(* message is an output with the sequence number push() gave it.           *)
(***************************************************************************)
EXTENDS Naturals, Sequences, FiniteSets

CONSTANTS
  MaxOutputs,  \* bound: no output of the agent beyond this many contents
  MaxConn,     \* bound: connections the proxy opens; the last one stays up
  Capacity,    \* MAX_MEMORY_MESSAGES
  Agent,       \* "claude" (typed outputs) or "codex" (raw JSONL outputs)
  Wiggum,      \* TRUE when the session runs in wiggum mode
  Faults       \* the environment faults that may happen

FaultKinds == {"cut", "backend_restart", "proxy_exit", "proxy_crash",
               "db_error", "db_pool", "unparsed"}

ASSUME OutputDeliveryAssumption ==
  /\ MaxOutputs \in Nat
  /\ MaxConn \in Nat
  /\ Capacity \in Nat \ {0}
  /\ Agent \in {"claude", "codex"}
  /\ Wiggum \in BOOLEAN
  /\ Faults \subseteq FaultKinds

VARIABLES
  made,        \* number of contents created so far
  mode,        \* where the proxy is in run_connection_loop
  cur,         \* the proxy's latest connection
  cursor,      \* replay position: pending messages below it were resent
  buf,         \* PendingOutputBuffer.state in memory
  disk,        \* the persisted BufferState
  chan,        \* output_tx / output_rx of the current connection
  fwd,         \* the output forwarder task
  main,        \* the main loop task
  link,        \* [connection -> state of its socket]
  wire,        \* [connection -> SequencedOutput messages under way]
  acks,        \* OutputAcks under way to the proxy's current connection
  hand,        \* [connection -> its handle_claude_output call]
  last_ack,    \* SessionManager.last_ack_seq of the session (0 if absent)
  rows,        \* the session's rows of the messages table, in order
  pushed,      \* history: every message push() ever made
  overflowed   \* history: the messages push() trimmed

proxyVars   == <<made, mode, cur, cursor, buf, disk, chan, fwd, main>>
networkVars == <<link, wire, acks>>
backendVars == <<hand, last_ack, rows>>
history     == <<pushed, overflowed>>
vars == <<proxyVars, networkVars, backendVars, history>>

Conns   == 1..MaxConn
Msg     == [seq : Nat, item : Nat]
Buffer  == [next : Nat, ack : Nat, pending : SUBSET Msg]
NoMsg   == [seq |-> 0, item |-> 0]
Stored  == {rows[i] : i \in DOMAIN rows}

TypeOK ==
  /\ made \in Nat
  /\ mode \in {"down", "backoff", "replay", "loop"}
  /\ cur \in 0..MaxConn
  /\ cursor \in Nat
  /\ buf \in Buffer
  /\ disk \in Buffer
  /\ chan \in Seq(Nat)
  /\ fwd \in [at : {"recv", "push", "send", "dead"}, m : Msg]
  /\ main \in [at : {"select", "push", "send"}, m : Msg]
  /\ link \in [Conns -> {"unused", "open", "cut"}]
  /\ wire \in [Conns -> Seq(Msg)]
  /\ acks \in Seq(Nat)
  /\ hand \in [Conns -> [at : {"idle", "store", "ack"}, m : Msg]]
  /\ last_ack \in Nat
  /\ rows \in Seq(Msg)
  /\ pushed \subseteq Msg
  /\ overflowed \subseteq Msg

-----------------------------------------------------------------------------
(* PendingOutputBuffer. The deque is kept in sequence order, so it is the   *)
(* set of its messages: its front is the message with the least number.     *)

FreshBuffer == [next |-> 0, ack |-> 0, pending |-> {}]

\* A mutated form of IsOldest, taking the back of the deque for its front.
NewestMutant(m, ms) == m \in ms /\ \A n \in ms : m.seq >= n.seq

IsOldest(m, ms) == m \in ms /\ \A n \in ms : m.seq <= n.seq

\* push: what is trimmed when the buffer holds Capacity messages already.
Trimmed(ms) == {m \in ms : Cardinality(ms) > Capacity /\ IsOldest(m, ms)}

\* acknowledge: an ack at or below the last one is ignored.
Acknowledged(b, a) ==
  IF a <= b.ack THEN b
  ELSE [b EXCEPT !.ack = a, !.pending = {m \in @ : m.seq > a}]

\* new: a persisted state is loaded without the messages already acked.
Loaded(b) == [b EXCEPT !.pending = {m \in @ : m.seq > b.ack}]

\* push: content i becomes the message NextMsg(i) of the buffer.
NextMsg(i) == [seq |-> buf.next, item |-> i]

Push(i) ==
  LET grown == buf.pending \union {NextMsg(i)}
  IN  /\ buf' = [buf EXCEPT !.next = @ + 1, !.pending = grown \ Trimmed(grown)]
      /\ pushed' = pushed \union {NextMsg(i)}
      /\ overflowed' = overflowed \union Trimmed(grown)

\* ws.send: what is written to a dead connection never arrives.
Send(m) ==
  wire' = IF link[cur] = "open"
          THEN [wire EXCEPT ![cur] = Append(@, m)]
          ELSE wire

-----------------------------------------------------------------------------
Init ==
  /\ made = 0
  /\ mode = "backoff"
  /\ cur = 0
  /\ cursor = 0
  /\ buf = FreshBuffer
  /\ disk = FreshBuffer
  /\ chan = <<>>
  /\ fwd = [at |-> "recv", m |-> NoMsg]
  /\ main = [at |-> "select", m |-> NoMsg]
  /\ link = [c \in Conns |-> "unused"]
  /\ wire = [c \in Conns |-> <<>>]
  /\ acks = <<>>
  /\ hand = [c \in Conns |-> [at |-> "idle", m |-> NoMsg]]
  /\ last_ack = 0
  /\ rows = <<>>
  /\ pushed = {}
  /\ overflowed = {}

-----------------------------------------------------------------------------
(* The proxy: connecting.                                                   *)

\* connect_to_backend and register_session succeed (a failure leaves the
\* proxy in backoff).
Connect ==
  /\ mode = "backoff"
  /\ cur < MaxConn
  /\ cur' = cur + 1
  /\ mode' = "replay"
  /\ cursor' = 0
  /\ link' = [link EXCEPT ![cur + 1] = "open"]
  /\ UNCHANGED <<made, buf, disk, chan, fwd, main, wire, acks,
                 backendVars, history>>

Unsent == {m \in buf.pending : m.seq >= cursor}

\* One turn of the replay loop over get_pending().
ReplayNext ==
  /\ mode = "replay"
  /\ \E m \in Unsent :
       /\ IsOldest(m, Unsent)
       /\ Send(m)
       /\ cursor' = m.seq + 1
  /\ UNCHANGED <<made, mode, cur, buf, disk, chan, fwd, main, link, acks,
                 backendVars, history>>

\* The "Session started" / "Proxy reconnected" portal message, pushed and
\* sent after the replay; then the message loop starts.
Announce ==
  /\ mode = "replay"
  /\ Unsent = {}
  /\ made' = made + 1
  /\ Push(made + 1)
  /\ Send(NextMsg(made + 1))
  /\ mode' = "loop"
  /\ UNCHANGED <<cur, cursor, disk, chan, fwd, main, link, acks, backendVars>>

-----------------------------------------------------------------------------
(* The proxy: the message loop and the forwarder task.                      *)

Selecting == mode = "loop" /\ main.at = "select"

\* An Output event of a Claude session is handed to the forwarder. In wiggum
\* mode the main loop may go on to announce the next iteration.
ClaudeOutput ==
  /\ Selecting
  /\ Agent = "claude"
  /\ fwd.at # "dead"
  /\ made < MaxOutputs
  /\ made' = made + 1
  /\ chan' = Append(chan, made + 1)
  /\ \/ UNCHANGED main
     \/ Wiggum /\ main' = [main EXCEPT !.at = "push"]
  /\ UNCHANGED <<mode, cur, cursor, buf, disk, fwd, networkVars,
                 backendVars, history>>

\* The wiggum portal message, pushed by the main loop ...
WiggumPush ==
  /\ mode = "loop"
  /\ main.at = "push"
  /\ made' = made + 1
  /\ Push(made + 1)
  /\ main' = [at |-> "send", m |-> NextMsg(made + 1)]
  /\ UNCHANGED <<mode, cur, cursor, disk, chan, fwd, networkVars, backendVars>>

\* A RawOutput event, of a Codex session or for a message of the claude process
\* that cannot be parsed: pushed by the main loop itself ...
RawOutput ==
  /\ Selecting
  /\ Agent = "codex" \/ "unparsed" \in Faults
  /\ made < MaxOutputs
  /\ made' = made + 1
  /\ Push(made + 1)
  /\ main' = [at |-> "send", m |-> NextMsg(made + 1)]
  /\ UNCHANGED <<mode, cur, cursor, disk, chan, fwd, networkVars, backendVars>>

\* ... and sent under the write lock, taken after the buffer's was released.
MainSend ==
  /\ mode = "loop"
  /\ main.at = "send"
  /\ Send(main.m)
  /\ main' = [at |-> "select", m |-> NoMsg]
  /\ UNCHANGED <<made, mode, cur, cursor, buf, disk, chan, fwd, link, acks,
                 backendVars, history>>

\* output_rx.recv()
ForwarderTake ==
  /\ mode = "loop"
  /\ fwd.at = "recv"
  /\ chan # <<>>
  /\ fwd' = [at |-> "push", m |-> [seq |-> 0, item |-> Head(chan)]]
  /\ chan' = Tail(chan)
  /\ UNCHANGED <<made, mode, cur, cursor, buf, disk, main, networkVars,
                 backendVars, history>>

ForwarderPush ==
  /\ mode = "loop"
  /\ fwd.at = "push"
  /\ Push(fwd.m.item)
  /\ fwd' = [at |-> "send", m |-> NextMsg(fwd.m.item)]
  /\ UNCHANGED <<made, mode, cur, cursor, disk, chan, main, networkVars,
                 backendVars>>

\* The send; an output may be followed by the portal message of an image,
\* pushed and sent in its turn.
ForwarderSend ==
  /\ mode = "loop"
  /\ fwd.at = "send"
  /\ Send(fwd.m)
  /\ \/ /\ fwd' = [at |-> "recv", m |-> NoMsg]
        /\ UNCHANGED made
     \/ /\ made < MaxOutputs
        /\ made' = made + 1
        /\ fwd' = [at |-> "push", m |-> [seq |-> 0, item |-> made + 1]]
  /\ UNCHANGED <<mode, cur, cursor, buf, disk, chan, main, link, acks,
                 backendVars, history>>

\* The send fails: the forwarder leaves its loop for good. (After a failed
\* image message it goes on: that is ForwarderSend on a dead link.)
ForwarderFails ==
  /\ mode = "loop"
  /\ fwd.at = "send"
  /\ link[cur] # "open"
  /\ fwd' = [at |-> "dead", m |-> NoMsg]
  /\ UNCHANGED <<made, mode, cur, cursor, buf, disk, chan, main, networkVars,
                 backendVars, history>>

\* An OutputAck: acknowledge() and persist() under the buffer's lock.
ReceiveAck ==
  /\ Selecting
  /\ acks # <<>>
  /\ buf' = Acknowledged(buf, Head(acks))
  /\ disk' = buf'
  /\ acks' = Tail(acks)
  /\ UNCHANGED <<made, mode, cur, cursor, chan, fwd, main, link, wire,
                 backendVars, history>>

-----------------------------------------------------------------------------
(* The proxy: leaving a connection. The forwarder is aborted, the channels  *)
(* of the connection are dropped with what they hold.                       *)

LeaveConnection ==
  /\ chan' = <<>>
  /\ fwd' = [at |-> "recv", m |-> NoMsg]
  /\ main' = [at |-> "select", m |-> NoMsg]
  /\ acks' = <<>>
  /\ link' = [c \in Conns |-> IF link[c] = "open" THEN "cut" ELSE link[c]]
  /\ UNCHANGED <<wire, cur, cursor>>

\* A send fails or the socket ends; or the heartbeat expires or the server
\* announces its shutdown. run_connection_loop persists the buffer and backs off.
Disconnect ==
  /\ \/ mode = "replay" /\ Unsent # {} /\ link[cur] # "open"
     \/ mode = "loop" /\ main.at # "push" /\ link[cur] # "open"
     \/ "cut" \in Faults /\ cur < MaxConn /\ Selecting
  /\ mode' = "backoff"
  /\ disk' = buf
  /\ LeaveConnection
  /\ UNCHANGED <<made, buf, backendVars, history>>

\* An Output event when the forwarder is gone: output_tx.send fails, and the
\* loop ends without the output.
OutputWithoutForwarder ==
  /\ Selecting
  /\ Agent = "claude"
  /\ fwd.at = "dead"
  /\ made < MaxOutputs
  /\ made' = made + 1
  /\ mode' = "backoff"
  /\ disk' = buf
  /\ LeaveConnection
  /\ UNCHANGED <<buf, backendVars, history>>

\* A mutated form of ProxyExit, without persist().
ExitWithoutPersistMutant ==
  /\ "proxy_exit" \in Faults
  /\ Selecting
  /\ cur < MaxConn
  /\ mode' = "down"
  /\ LeaveConnection
  /\ UNCHANGED <<made, buf, disk, backendVars, history>>

\* The agent exits or the session is terminated: the buffer is persisted.
ProxyExit ==
  /\ "proxy_exit" \in Faults
  /\ Selecting
  /\ cur < MaxConn
  /\ mode' = "down"
  /\ disk' = buf
  /\ LeaveConnection
  /\ UNCHANGED <<made, buf, backendVars, history>>

\* The proxy process is killed: what it had not persisted is gone.
ProxyCrash ==
  /\ "proxy_crash" \in Faults
  /\ mode # "down"
  /\ cur < MaxConn
  /\ mode' = "down"
  /\ LeaveConnection
  /\ UNCHANGED <<made, buf, disk, backendVars, history>>

\* A new proxy process for the session loads the persisted buffer.
ProxyStart ==
  /\ mode = "down"
  /\ mode' = "backoff"
  /\ buf' = Loaded(disk)
  /\ UNCHANGED <<made, cur, cursor, disk, chan, fwd, main, networkVars,
                 backendVars, history>>

-----------------------------------------------------------------------------
(* The network and the backend. Each socket has its own handler; two run at *)
(* the same time when the proxy reconnects before the backend has drained   *)
(* the old socket.                                                          *)

\* The current link dies; what was written may still arrive.
LinkCut ==
  /\ "cut" \in Faults
  /\ 0 < cur /\ cur < MaxConn
  /\ link[cur] = "open"
  /\ link' = [link EXCEPT ![cur] = "cut"]
  /\ UNCHANGED <<proxyVars, wire, acks, backendVars, history>>

\* tx.send(OutputAck): it reaches the proxy while its connection is up.
SendAck(c, a) ==
  acks' = IF c = cur /\ link[c] = "open" THEN Append(acks, a) ELSE acks

\* A duplicate is acknowledged and otherwise ignored.
BackendSkip(c) ==
  /\ hand[c].at = "idle"
  /\ wire[c] # <<>>
  /\ Head(wire[c]).seq <= last_ack
  /\ wire' = [wire EXCEPT ![c] = Tail(@)]
  /\ SendAck(c, Head(wire[c]).seq)
  /\ UNCHANGED <<proxyVars, link, backendVars, history>>

\* A mutated form of BackendAccept, raising last_ack_seq before the insert.
AckBeforeStoreMutant(c) ==
  /\ hand[c].at = "idle"
  /\ wire[c] # <<>>
  /\ Head(wire[c]).seq > last_ack
  /\ wire' = [wire EXCEPT ![c] = Tail(@)]
  /\ hand' = [hand EXCEPT ![c] = [at |-> "store", m |-> Head(wire[c])]]
  /\ last_ack' = Head(wire[c]).seq
  /\ UNCHANGED <<proxyVars, link, acks, rows, history>>

BackendAccept(c) ==
  /\ hand[c].at = "idle"
  /\ wire[c] # <<>>
  /\ Head(wire[c]).seq > last_ack
  /\ wire' = [wire EXCEPT ![c] = Tail(@)]
  /\ hand' = [hand EXCEPT ![c] = [at |-> "store", m |-> Head(wire[c])]]
  /\ UNCHANGED <<proxyVars, link, acks, last_ack, rows, history>>

\* A mutated form of BackendStore, with an insert that may be repeated.
RetriedInsertMutant(c) ==
  /\ hand[c].at = "store"
  /\ rows' = Append(rows, hand[c].m)
  /\ \/ hand' = [hand EXCEPT ![c].at = "ack"]
     \/ UNCHANGED hand
  /\ UNCHANGED <<proxyVars, networkVars, last_ack, history>>

\* insert_into(messages)
BackendStore(c) ==
  /\ hand[c].at = "store"
  /\ rows' = Append(rows, hand[c].m)
  /\ hand' = [hand EXCEPT ![c].at = "ack"]
  /\ UNCHANGED <<proxyVars, networkVars, last_ack, history>>

\* The insert fails, or the session row is gone: logged, and on to the ack.
BackendStoreFails(c) ==
  /\ "db_error" \in Faults
  /\ hand[c].at = "store"
  /\ hand' = [hand EXCEPT ![c].at = "ack"]
  /\ UNCHANGED <<proxyVars, networkVars, last_ack, rows, history>>

\* No database connection: the message is dropped without an ack.
BackendNoConnection(c) ==
  /\ "db_pool" \in Faults
  /\ hand[c].at = "store"
  /\ hand' = [hand EXCEPT ![c] = [at |-> "idle", m |-> NoMsg]]
  /\ UNCHANGED <<proxyVars, networkVars, last_ack, rows, history>>

\* A mutated form of BackendAck, without the OutputAck.
StoreWithoutAckMutant(c) ==
  /\ hand[c].at = "ack"
  /\ last_ack' = IF hand[c].m.seq > last_ack THEN hand[c].m.seq ELSE last_ack
  /\ hand' = [hand EXCEPT ![c] = [at |-> "idle", m |-> NoMsg]]
  /\ UNCHANGED <<proxyVars, networkVars, rows, history>>

\* last_ack_seq is raised to the message's number, the message acknowledged.
BackendAck(c) ==
  /\ hand[c].at = "ack"
  /\ last_ack' = IF hand[c].m.seq > last_ack THEN hand[c].m.seq ELSE last_ack
  /\ SendAck(c, hand[c].m.seq)
  /\ hand' = [hand EXCEPT ![c] = [at |-> "idle", m |-> NoMsg]]
  /\ UNCHANGED <<proxyVars, link, wire, rows, history>>

\* The backend sees a dead socket end: what had not arrived is lost.
BackendSocketEnds(c) ==
  /\ link[c] = "cut"
  /\ hand[c].at = "idle"
  /\ wire[c] # <<>>
  /\ wire' = [wire EXCEPT ![c] = <<>>]
  /\ UNCHANGED <<proxyVars, link, acks, backendVars, history>>

\* The backend stops and starts again: last_ack_seq is only in memory.
BackendRestart ==
  /\ "backend_restart" \in Faults
  /\ cur < MaxConn
  /\ last_ack' = 0
  /\ hand' = [c \in Conns |-> [at |-> "idle", m |-> NoMsg]]
  /\ wire' = [c \in Conns |-> <<>>]
  /\ link' = [c \in Conns |-> IF link[c] = "open" THEN "cut" ELSE link[c]]
  /\ UNCHANGED <<proxyVars, acks, rows, history>>

-----------------------------------------------------------------------------
ProxyStep ==
  \/ Connect \/ ReplayNext \/ Announce
  \/ ClaudeOutput \/ WiggumPush \/ RawOutput \/ MainSend
  \/ ForwarderTake \/ ForwarderPush \/ ForwarderSend \/ ForwarderFails
  \/ ReceiveAck
  \/ Disconnect \/ OutputWithoutForwarder
  \/ ProxyExit \/ ProxyCrash \/ ProxyStart

BackendStep(c) ==
  \/ BackendSkip(c) \/ BackendAccept(c) \/ BackendStore(c)
  \/ BackendStoreFails(c) \/ BackendNoConnection(c) \/ BackendAck(c)
  \/ BackendSocketEnds(c)

Next ==
  \/ ProxyStep
  \/ LinkCut
  \/ BackendRestart
  \/ \E c \in Conns : BackendStep(c)

Spec == Init /\ [][Next]_vars

\* The tasks of both programs keep running; the agent, the faults and the
\* operator's restarts owe nothing. A dead link is noticed by the heartbeat.
Fairness ==
  /\ WF_vars(Connect \/ ReplayNext \/ Announce \/ ProxyStart)
  /\ WF_vars(WiggumPush \/ MainSend)
  /\ WF_vars(ForwarderTake \/ ForwarderPush \/ ForwarderSend \/ ForwarderFails)
  /\ WF_vars(ReceiveAck)
  /\ WF_vars(cur > 0 /\ link[cur] # "open" /\ Disconnect)
  /\ \A c \in Conns :
       WF_vars(BackendSkip(c) \/ BackendAccept(c) \/ BackendStore(c)
               \/ BackendAck(c))

FairSpec == Spec /\ Fairness

-----------------------------------------------------------------------------
(* Properties.                                                              *)

\* Everything numbered 1..s is in the messages table (or was trimmed by the
\* buffer's limit). Number 0 is left out: see AckConfirmsStorageFromZero.
Settled(s) ==
  \A m \in pushed : 1 <= m.seq /\ m.seq <= s => m \in Stored \union overflowed

\* An acknowledgment that is under way or was taken by the buffer covers only
\* messages the backend has stored: acknowledge() drops everything up to it,
\* so anything else would be gone for good.
AckConfirmsStorage ==
  /\ Settled(buf.ack)
  /\ \A i \in DOMAIN acks : Settled(acks[i])

\* The same for every number, as the protocol states it.
AckConfirmsStorageFromZero ==
  \A i \in DOMAIN acks : \A m \in pushed :
    m.seq <= acks[i] => m \in Stored \union overflowed

\* A message that got its number is stored or still in the buffer of the
\* running proxy, which replays it: disconnects, restarts of either side and
\* old sockets drained late lose none.
BufferHoldsUnstored ==
  mode # "down" =>
    \A m \in pushed : 1 <= m.seq => m \in Stored \union overflowed \union buf.pending

\* The table is filled in sequence order: when a message is stored for the
\* first time, all earlier ones have been, whichever socket brought it.
StoredInOrder ==
  [][\A m \in Stored' \ Stored : Settled(m.seq - 1)]_vars

\* Duplicates come from replays only: a message has at most one row for each
\* connection the proxy has opened.
CopiesPerConnection ==
  \A m \in Stored : Cardinality({i \in DOMAIN rows : rows[i] = m}) <= cur

\* The buffer is bounded, and what it gives up is older than all it keeps and
\* all it has yet to number.
OverflowDropsOldest ==
  /\ [](Cardinality(buf.pending) <= Capacity)
  /\ [][\A o \in overflowed' \ overflowed :
          \A m \in buf'.pending : o.seq < m.seq /\ m.seq < buf'.next]_vars

\* No acknowledgment reaches a buffer that has not assigned its number: one
\* left over from a crashed process would empty the new one's buffer.
AckNeverAhead ==
  mode # "down" =>
    /\ \A i \in DOMAIN acks : acks[i] < buf.next
    /\ buf.ack = 0 \/ buf.ack < buf.next

\* Every content the agent or the proxy produced is on its way, buffered or
\* stored (contents numbered 0 aside).
NoOutputLost ==
  \A i \in 1..made :
    \/ \E j \in DOMAIN chan : chan[j] = i
    \/ i \in {fwd.m.item, main.m.item}
    \/ \E m \in buf.pending \union Stored \union overflowed : m.item = i
    \/ [seq |-> 0, item |-> i] \in pushed

\* Whatever got a number is stored in the end, once a connection stays up.
PushedIsStored ==
  \A i \in 1..(MaxOutputs + MaxConn) :
    (\E m \in pushed : m.item = i /\ 1 <= m.seq)
      ~> (\E m \in Stored : m.item = i)

\* And then acknowledged: the buffer empties, but for a lone number 0, whose
\* acknowledgment the buffer ignores.
BufferDrains == <>[](\A m \in buf.pending : m.seq = 0)
=============================================================================
