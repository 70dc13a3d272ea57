-------------------------- MODULE SessionRegistry --------------------------
(***************************************************************************)
(* The registry of connected proxies for one session, step by step: the    *)
(* maps of SessionManager (backend websocket/session_manager.rs), the      *)
(* registration and the cleanup a session socket's task runs               *)
(* (proxy_socket.rs, registration.rs), the tasks that send to the session, *)
(* an administrator's deletion of the session (admin.rs) and the clean-up   *)
(* of stale sessions after a start (main.rs).                              *)
(*                                                                         *)
(* Each operation on a DashMap is atomic (it holds the shard's lock);      *)
(* between two of them any other task may run. 0 stands for an absent      *)
(* entry.                                                                  *)
(***************************************************************************)
EXTENDS Naturals, Sequences

CONSTANTS
  MaxConn,     \* bound: sockets the proxy opens for the session
  Clients,     \* the tasks that call send_to_session
  MaxSends,    \* bound: messages each of them sends
  QueueLimit,  \* MAX_PENDING_MESSAGES_PER_SESSION
  Overlap,     \* TRUE: a socket may register while another one still does
  Faults       \* the faults and interventions that may happen

ASSUME SessionRegistryAssumption ==
  /\ MaxConn \in Nat
  /\ MaxSends \in Nat
  /\ QueueLimit \in Nat \ {0}
  /\ Overlap \in BOOLEAN
  /\ Faults \subseteq {"expiry", "db_error", "closed_sender", "admin_delete",
                      "recent_start"}

VARIABLES
  gen_counter,     \* next generation number
  connection_gen,  \* the session's current generation
  sessions,        \* the socket whose sender is registered
  pending,         \* pending_messages: the session's queue
  status,          \* the session's status column
  pc,              \* [socket -> where its task is]
  gen,             \* [socket -> the generation it was given]
  known,           \* [socket -> db_session_id is set]
  closed,          \* [socket -> the receiver of its sender is gone]
  chan,            \* [socket -> messages put into its sender, in order]
  sent,            \* [client -> number of messages it has sent]
  holding,         \* [client -> found no proxy, about to queue its message]
  cleaner,         \* the stale-session task of main.rs
  admin,           \* the handler of an administrator's deletion
  dropped          \* history: messages given up by limit, age or closed sender

maps == <<gen_counter, connection_gen, sessions, pending>>
sockets == <<pc, gen, known, closed, chan>>
clients == <<sent, holding>>
others == <<cleaner, admin>>
vars == <<maps, status, sockets, clients, others, dropped>>

Conns == 1..MaxConn
Message == [from : Clients, n : Nat]

Registering == {"replay", "forget", "gen", "sender", "active"}
Leaving == {"check", "mark", "release", "rmgen", "rmsender", "abort"}

TypeOK ==
  /\ gen_counter \in Nat \ {0}
  /\ connection_gen \in Nat
  /\ sessions \in 0..MaxConn
  /\ pending \in Seq(Message)
  /\ status \in {"active", "disconnected", "deleted"}
  /\ pc \in [Conns -> {"new", "serving", "done"} \union Registering \union Leaving]
  /\ gen \in [Conns -> Nat]
  /\ known \in [Conns -> BOOLEAN]
  /\ closed \in [Conns -> BOOLEAN]
  /\ chan \in [Conns -> Seq(Message)]
  /\ sent \in [Clients -> Nat]
  /\ holding \in [Clients -> BOOLEAN]
  /\ cleaner \in {"wait", "load", "update", "done"}
  /\ admin \in {"wait", "rmsender", "delete", "done"}
  /\ dropped \subseteq Message

FirstGeneration == 1

Init ==
  /\ gen_counter = FirstGeneration
  /\ connection_gen = 0
  /\ sessions = 0
  /\ pending = <<>>
  /\ status \in {"active", "disconnected"}
  /\ pc = [c \in Conns |-> "new"]
  /\ gen = [c \in Conns |-> 0]
  /\ known = [c \in Conns |-> FALSE]
  /\ closed = [c \in Conns |-> FALSE]
  /\ chan = [c \in Conns |-> <<>>]
  /\ sent = [w \in Clients |-> 0]
  /\ holding = [w \in Clients |-> FALSE]
  /\ cleaner = IF "recent_start" \in Faults THEN "wait" ELSE "done"
  /\ admin = "wait"
  /\ dropped = {}

Goto(c, where) == pc' = [pc EXCEPT ![c] = where]

Elements(s) == {s[i] : i \in DOMAIN s}

-----------------------------------------------------------------------------
(* A socket's Register message: register_session, then the database.        *)

\* A mutated form of TakeGeneration: the sender is registered at once.
EarlySenderMutant(c) ==
  /\ pc[c] = "new"
  /\ gen' = [gen EXCEPT ![c] = gen_counter]
  /\ gen_counter' = gen_counter + 1
  /\ sessions' = c
  /\ Goto(c, "replay")
  /\ UNCHANGED <<connection_gen, pending, status, known, closed, chan, clients,
                 others, dropped>>

\* gen_counter.fetch_add
TakeGeneration(c) ==
  /\ pc[c] = "new"
  /\ \A d \in 1..(c - 1) : pc[d] \notin {"new"} \union (IF Overlap THEN {} ELSE Registering)
  /\ gen' = [gen EXCEPT ![c] = gen_counter]
  /\ gen_counter' = gen_counter + 1
  /\ Goto(c, "replay")
  /\ UNCHANGED <<connection_gen, sessions, pending, status, known, closed,
                 chan, clients, others, dropped>>

\* A mutated form of ReplayPending: the queue is copied, not drained.
CopyPendingMutant(c) ==
  /\ pc[c] = "replay"
  /\ chan' = [chan EXCEPT ![c] = @ \o pending]
  /\ Goto(c, "forget")
  /\ UNCHANGED <<maps, status, gen, known, closed, clients, others, dropped>>

\* replay_pending_messages: under the queue's lock the messages that are not
\* too old go to the new socket; if its receiver is gone the first one is lost
\* and the loop ends.
ReplayPending(c) ==
  /\ pc[c] = "replay"
  /\ \E old \in 0..Len(pending) :
       /\ old > 0 => "expiry" \in Faults
       /\ LET fresh   == SubSeq(pending, old + 1, Len(pending))
              refused == closed[c] /\ fresh # <<>>
          IN  /\ chan' = IF closed[c] THEN chan ELSE [chan EXCEPT ![c] = @ \o fresh]
              /\ pending' = IF refused THEN Tail(fresh) ELSE <<>>
              /\ dropped' = dropped \union Elements(SubSeq(pending, 1, old))
                              \union (IF refused THEN {fresh[1]} ELSE {})
  /\ Goto(c, "forget")
  /\ UNCHANGED <<gen_counter, connection_gen, sessions, status, gen, known,
                 closed, clients, others>>

\* ... and the queue's entry is removed, whatever was added meanwhile.
ForgetQueue(c) ==
  /\ pc[c] = "forget"
  /\ pending' = <<>>
  /\ Goto(c, "gen")
  /\ UNCHANGED <<gen_counter, connection_gen, sessions, status, gen, known,
                 closed, chan, clients, others, dropped>>

InsertGeneration(c) ==
  /\ pc[c] = "gen"
  /\ connection_gen' = gen[c]
  /\ Goto(c, "sender")
  /\ UNCHANGED <<gen_counter, sessions, pending, status, gen, known, closed,
                 chan, clients, others, dropped>>

InsertSender(c) ==
  /\ pc[c] = "sender"
  /\ sessions' = c
  /\ Goto(c, "active")
  /\ UNCHANGED <<gen_counter, connection_gen, pending, status, gen, known,
                 closed, chan, clients, others, dropped>>

\* register_or_update_session marks the session active (or creates its row), or
\* fails and leaves the socket without a session in the database.
MarkActive(c) ==
  /\ pc[c] = "active"
  /\ \/ /\ status' = "active"
        /\ known' = [known EXCEPT ![c] = TRUE]
     \/ /\ "db_error" \in Faults
        /\ UNCHANGED <<status, known>>
  /\ Goto(c, "serving")
  /\ UNCHANGED <<maps, gen, closed, chan, clients, others, dropped>>

-----------------------------------------------------------------------------
(* The end of a socket and its cleanup.                                     *)

\* The send task meets a dead link: the receiver of the sender is dropped.
SendTaskStops(c) ==
  /\ "closed_sender" \in Faults
  /\ pc[c] \notin {"new", "done"}
  /\ ~closed[c]
  /\ closed' = [closed EXCEPT ![c] = TRUE]
  /\ UNCHANGED <<maps, status, pc, gen, known, chan, clients, others, dropped>>

SocketEnds(c) ==
  /\ pc[c] = "serving"
  /\ Goto(c, "check")
  /\ UNCHANGED <<maps, status, gen, known, closed, chan, clients, others, dropped>>

\* A mutated form of CheckCurrent: no entry counts as another's entry.
CheckPresentMutant(c) ==
  /\ pc[c] = "check"
  /\ Goto(c, IF connection_gen # gen[c] THEN "abort"
             ELSE IF known[c] THEN "mark" ELSE "release")
  /\ UNCHANGED <<maps, status, gen, known, closed, chan, clients, others, dropped>>

\* is_current_connection: a stale socket skips the cleanup.
CheckCurrent(c) ==
  /\ pc[c] = "check"
  /\ Goto(c, IF connection_gen \notin {0, gen[c]} THEN "abort"
             ELSE IF known[c] THEN "mark" ELSE "release")
  /\ UNCHANGED <<maps, status, gen, known, closed, chan, clients, others, dropped>>

\* The update finds no row when the session was deleted.
Disconnected == IF status = "deleted" THEN "deleted" ELSE "disconnected"

MarkDisconnected(c) ==
  /\ pc[c] = "mark"
  /\ \/ status' = Disconnected
     \/ "db_error" \in Faults /\ UNCHANGED status
  /\ Goto(c, "release")
  /\ UNCHANGED <<maps, gen, known, closed, chan, clients, others, dropped>>

\* unregister_session: the generation is compared ...
CompareGeneration(c) ==
  /\ pc[c] = "release"
  /\ Goto(c, IF connection_gen \notin {0, gen[c]} THEN "abort" ELSE "rmgen")
  /\ UNCHANGED <<maps, status, gen, known, closed, chan, clients, others, dropped>>

\* ... and the two entries are removed, one after the other.
RemoveGeneration(c) ==
  /\ pc[c] = "rmgen"
  /\ connection_gen' = 0
  /\ Goto(c, "rmsender")
  /\ UNCHANGED <<gen_counter, sessions, pending, status, gen, known, closed,
                 chan, clients, others, dropped>>

\* A mutated form of RemoveSender: only the generation is removed.
KeepSenderMutant(c) ==
  /\ pc[c] = "rmsender"
  /\ Goto(c, "abort")
  /\ UNCHANGED <<maps, status, gen, known, closed, chan, clients, others, dropped>>

RemoveSender(c) ==
  /\ pc[c] = "rmsender"
  /\ sessions' = 0
  /\ Goto(c, "abort")
  /\ UNCHANGED <<gen_counter, connection_gen, pending, status, gen, known,
                 closed, chan, clients, others, dropped>>

\* send_task.abort()
AbortSendTask(c) ==
  /\ pc[c] = "abort"
  /\ closed' = [closed EXCEPT ![c] = TRUE]
  /\ Goto(c, "done")
  /\ UNCHANGED <<maps, status, gen, known, chan, clients, others, dropped>>

-----------------------------------------------------------------------------
(* send_to_session, called by the tasks of web clients and launchers.       *)

NextOf(w) == [from |-> w, n |-> sent[w] + 1]

SendDirect(w) ==
  /\ ~holding[w] /\ sent[w] < MaxSends
  /\ sessions # 0 /\ ~closed[sessions]
  /\ chan' = [chan EXCEPT ![sessions] = Append(@, NextOf(w))]
  /\ sent' = [sent EXCEPT ![w] = @ + 1]
  /\ UNCHANGED <<maps, status, pc, gen, known, closed, holding, others, dropped>>

FindNoProxy(w) ==
  /\ ~holding[w] /\ sent[w] < MaxSends
  /\ sessions # 0 => closed[sessions]
  /\ holding' = [holding EXCEPT ![w] = TRUE]
  /\ UNCHANGED <<maps, status, sockets, sent, others, dropped>>

\* How many of the oldest messages make room for a new one.
Crowd(q) == IF Len(q) >= QueueLimit THEN Len(q) + 1 - QueueLimit ELSE 0

\* queue_pending_message
QueueMessage(w) ==
  /\ holding[w]
  /\ LET k == Crowd(pending)
     IN  /\ pending' = Append(SubSeq(pending, k + 1, Len(pending)), NextOf(w))
         /\ dropped' = dropped \union Elements(SubSeq(pending, 1, k))
  /\ sent' = [sent EXCEPT ![w] = @ + 1]
  /\ holding' = [holding EXCEPT ![w] = FALSE]
  /\ UNCHANGED <<gen_counter, connection_gen, sessions, status, sockets,
                 others>>

-----------------------------------------------------------------------------
(* main.rs: when the grace period after a start is over, sessions without a *)
(* proxy are marked.                                                        *)

\* The keys are read first, the database afterwards.
SnapshotKeys ==
  /\ cleaner = "wait"
  /\ \/ cleaner' = IF sessions # 0 THEN "done" ELSE "load"
     \/ "db_error" \in Faults /\ cleaner' = "done"
  /\ UNCHANGED <<maps, status, sockets, clients, admin, dropped>>

LoadActive ==
  /\ cleaner = "load"
  /\ \/ cleaner' = IF status = "active" THEN "update" ELSE "done"
     \/ "db_error" \in Faults /\ cleaner' = "done"
  /\ UNCHANGED <<maps, status, sockets, clients, admin, dropped>>

MarkStale ==
  /\ cleaner = "update"
  /\ \/ status' = Disconnected
     \/ "db_error" \in Faults /\ UNCHANGED status
  /\ cleaner' = "done"
  /\ UNCHANGED <<maps, sockets, clients, admin, dropped>>

-----------------------------------------------------------------------------
(* admin.rs delete_session: unregister_session without a generation, then   *)
(* the session's rows.                                                      *)

ForceRemoveGeneration ==
  /\ "admin_delete" \in Faults
  /\ admin = "wait" /\ status # "deleted"
  /\ connection_gen' = 0
  /\ admin' = "rmsender"
  /\ UNCHANGED <<gen_counter, sessions, pending, status, sockets, clients,
                 cleaner, dropped>>

ForceRemoveSender ==
  /\ admin = "rmsender"
  /\ sessions' = 0
  /\ admin' = "delete"
  /\ UNCHANGED <<gen_counter, connection_gen, pending, status, sockets, clients,
                 cleaner, dropped>>

DeleteSession ==
  /\ admin = "delete"
  /\ \/ status' = "deleted"
     \/ "db_error" \in Faults /\ UNCHANGED status
  /\ admin' = "done"
  /\ UNCHANGED <<maps, sockets, clients, cleaner, dropped>>

-----------------------------------------------------------------------------
RegisterStep(c) ==
  \/ TakeGeneration(c) \/ ReplayPending(c) \/ ForgetQueue(c)
  \/ InsertGeneration(c) \/ InsertSender(c) \/ MarkActive(c)

CleanupStep(c) ==
  \/ CheckCurrent(c) \/ MarkDisconnected(c) \/ CompareGeneration(c)
  \/ RemoveGeneration(c) \/ RemoveSender(c) \/ AbortSendTask(c)

SocketStep(c) ==
  \/ RegisterStep(c) \/ CleanupStep(c) \/ SendTaskStops(c) \/ SocketEnds(c)

ClientStep(w) == SendDirect(w) \/ FindNoProxy(w) \/ QueueMessage(w)

CleanerStep == SnapshotKeys \/ LoadActive \/ MarkStale

AdminStep == ForceRemoveGeneration \/ ForceRemoveSender \/ DeleteSession

Next ==
  \/ \E c \in Conns : SocketStep(c)
  \/ \E w \in Clients : ClientStep(w)
  \/ CleanerStep
  \/ AdminStep

Spec == Init /\ [][Next]_vars

\* The task of a socket that has begun to register or to leave runs on.
FairSpec ==
  /\ Spec
  /\ \A c \in Conns :
       WF_vars((pc[c] # "new" /\ RegisterStep(c)) \/ CleanupStep(c))

-----------------------------------------------------------------------------
(* Properties.                                                              *)

\* When every socket's task is over, the registry holds no sender for the
\* session, in whatever order the tasks ran (an administrator's removal of it
\* may be under way): a proxy that is gone is not found by send_to_session,
\* and its messages are queued.
EmptyWhenAllGone ==
  (\A c \in Conns : pc[c] \in {"new", "abort", "done"}) =>
    sessions = 0 \/ admin = "rmsender"

\* A message reaches one socket once, though registrations may overlap.
DeliveredOnce ==
  /\ \A c, d \in Conns : \A i \in DOMAIN chan[c], j \in DOMAIN chan[d] :
       chan[c][i] = chan[d][j] => c = d /\ i = j
  /\ \A c \in Conns : \A i \in DOMAIN chan[c], j \in DOMAIN pending :
       chan[c][i] # pending[j]

\* On a socket the messages of a client come in the order it sent them: what
\* was queued before what was sent directly.
ChannelOrder ==
  \A c \in Conns : \A i, j \in DOMAIN chan[c] :
    i < j /\ chan[c][i].from = chan[c][j].from => chan[c][i].n < chan[c][j].n

\* The queue never holds more than its limit.
QueueBounded == Len(pending) <= QueueLimit

\* A sender whose socket has ended is replaced or removed in the end, when
\* registrations do not overlap.
DeadSenderGone ==
  \A c \in Conns :
    (sessions = c /\ pc[c] \in Leaving \union {"done"}) ~> sessions # c

\* Only socket c is left, it is serving, and nobody else is at work.
Alone(c) ==
  /\ pc[c] = "serving" /\ known[c]
  /\ \A d \in Conns \ {c} : pc[d] \in {"new", "done"}
  /\ cleaner = "done"

\* Neither the cleanup of an old socket nor that of stale sessions leaves the
\* session of a registered, serving proxy marked as disconnected.
ServingIsActive == \A c \in Conns : Alone(c) => status = "active"

\* The cleanup of an old socket leaves the newer one's registration alone:
\* the proxy that is left is found by send_to_session.
RegistrationKept == \A c \in Conns : Alone(c) => sessions = c

\* A message accepted for the session is queued or given to a socket, unless
\* the limit, its age or a closed sender dropped it.
NoneLost ==
  \A w \in Clients : \A k \in 1..sent[w] :
    [from |-> w, n |-> k] \in
      Elements(pending) \union dropped \union UNION {Elements(chan[c]) : c \in Conns}
=============================================================================
