---------------------------- MODULE Conversation ----------------------------
(***************************************************************************)
(* One session seen by the browsers that have it open: the history a view  *)
(* loads, its web socket and the replay after every registration, the live *)
(* output the backend fans out, the permission request and its answers,    *)
(* the inputs shown as pending, and the panel of background tasks.         *)
(*                                                                         *)
(* The backend handles the proxy's socket and every browser's socket in    *)
(* threads of their own.  An output is broadcast first and stored then; a  *)
(* permission request is stored first and broadcast then; a registration   *)
(* adds the browser to the fan-out, reads the history, sends it, reads the *)
(* pending request and sends it.  These are the steps below.               *)
(*                                                                         *)
(* Messages are numbered in the order of the proxy's outputs, and so are   *)
(* the times of creation of their rows.  The time a view takes from the    *)
(* browser's clock ends in Z, which the backend does not parse: it is 0, as*)
(* is the time of no message.                                              *)
(***************************************************************************)
EXTENDS Option, Naturals, Sequences, SequencesExt, FiniteSets

CONSTANTS
  Browsers,        \* the tabs that show the session, each of its own user
  Requests,        \* permission requests of the agent
  Kinds,           \* the kinds of output the agent produces
  MaxMessages,     \* bound: outputs
  MaxInputs,       \* bound: inputs of all the users
  MaxConnections,  \* bound: web sockets of one browser
  MAX_MESSAGES_PER_SESSION,
  MAX_ATTEMPTS,
  FaultSets        \* what may go wrong: sets of "overlap", "cut", "refuse", "revoke",
                   \* "parallel", one of which the first state picks

(* A message, and what the thread of the proxy's socket may be in the middle*)
(* of: an output to be stored, a request to be broadcast.                  *)
Message ==
  [id : Nat, kind : Kinds, by : Browsers \cup {None}, author : Browsers \cup {None}]
Storing == [type : {"store"}, message : Message]
Asking == [type : {"ask"}, request : Requests]

ASSUME ConversationAssumption ==
  /\ Kinds \subseteq {"user", "text", "task_start", "task_end"}
  /\ MAX_MESSAGES_PER_SESSION \in Nat \ {0} /\ MAX_ATTEMPTS \in Nat
  /\ None \notin Requests \cup Browsers \cup Storing \cup Asking

VARIABLES
  faults,     \* one of FaultSets
  table,      \* messages of the session
  row,        \* its row of pending_permission_requests
  handling,   \* what the thread of the proxy's socket is in the middle of
  last_input_sender,
  written,    \* how many inputs the users have sent from their views
  inputs,     \* inputs the agent has not echoed yet: who wrote them
  asked, answers,  \* requests of the agent, answers that reached its proxy
  access,     \* users with access to the session
  sock,       \* the browsers' web sockets and their threads in the backend
  view        \* the SessionView of every browser

vars == <<faults, table, row, handling, last_input_sender, written, inputs, asked,
          answers, access, sock, view>>
agentVars == <<written, inputs, asked, answers>>

-----------------------------------------------------------------------------
(* Views *)

SessionView ==
  [phase |-> "loading", messages |-> <<>>, last_message_timestamp |-> 0,
   pending_permission |-> None, reconnect_attempt |-> 0, pending_sends |-> 0,
   active_tasks |-> {}]

NoSocket == [up |-> FALSE, stage |-> "none",
             replay_after |-> 0, history |-> <<>>, pending |-> None, \* read, to be sent
             to_server |-> <<>>, to_view |-> <<>>, made |-> 0]

Init ==
  /\ faults \in FaultSets
  /\ table = <<>> /\ row = None /\ handling = None /\ last_input_sender = None
  /\ written = 0 /\ inputs = <<>> /\ asked = {} /\ answers = {} /\ access = Browsers
  /\ sock = [b \in Browsers |-> NoSocket]
  /\ view = [b \in Browsers |-> SessionView]

ws_sender(b) == view[b].phase = "connected"

Trimmed(s) ==
  IF Len(s) > MAX_MESSAGES_PER_SESSION
  THEN SubSeq(s, Len(s) - MAX_MESSAGES_PER_SESSION + 1, Len(s)) ELSE s

(* The panel: a task is running between its first and its last message.    *)
TaskSeen(tasks, m) ==
  CASE m.kind = "task_start" -> {1} [] m.kind = "task_end" -> {} [] OTHER -> tasks

TasksOfHistory(rows) == FoldLeft(TaskSeen, {}, rows)

(* The REST call that fetches the messages, and LoadHistory with its       *)
(* answer.                                                                 *)
list_messages(b) == IF b \in access THEN table ELSE <<>>

LoadHistory(b) ==
  /\ view[b].phase = "loading"
  /\ LET rows == list_messages(b)
     IN  view' = [view EXCEPT ![b].phase = "connecting",
                              ![b].messages = Trimmed(rows),
                              ![b].active_tasks = TasksOfHistory(Trimmed(rows)),
                              ![b].last_message_timestamp = Len(rows)]
  /\ UNCHANGED <<table, row, handling, last_input_sender, agentVars, access, sock>>

(* The fetch fails: the view connects without a history.                   *)
LoadFails(b) ==
  /\ "refuse" \in faults /\ view[b].phase = "loading"
  /\ view' = [view EXCEPT ![b].phase = "connecting"]
  /\ UNCHANGED <<table, row, handling, last_input_sender, agentVars, access, sock>>

connect_websocket(b) ==
  /\ view[b].phase = "connecting" /\ sock[b].made < MaxConnections
  /\ sock' = [sock EXCEPT ![b] =
       [NoSocket EXCEPT !.up = TRUE, !.made = sock[b].made + 1,
                        !.to_server = <<[type |-> "register",
                                   replay_after |-> view[b].last_message_timestamp]>>]]
  /\ view' = [view EXCEPT ![b].phase = "connected", ![b].reconnect_attempt = 0]
  /\ UNCHANGED <<table, row, handling, last_input_sender, agentVars, access>>

handle_ws_error(v) ==
  IF v.reconnect_attempt < MAX_ATTEMPTS
  THEN [v EXCEPT !.phase = "waiting", !.reconnect_attempt = @ + 1]
  ELSE [v EXCEPT !.phase = "given_up"]

ConnectFails(b) ==
  /\ "refuse" \in faults /\ view[b].phase = "connecting"
  /\ view' = [view EXCEPT ![b] = handle_ws_error(@)]
  /\ UNCHANGED <<table, row, handling, last_input_sender, agentVars, access, sock>>

attempt_reconnect(b) ==
  /\ view[b].phase = "waiting"
  /\ view' = [view EXCEPT ![b].phase = "connecting"]
  /\ UNCHANGED <<table, row, handling, last_input_sender, agentVars, access, sock>>

(* The socket is lost with everything under way in it.                     *)
Closed(b) == [NoSocket EXCEPT !.made = sock[b].made]

ConnectionLost(b) ==
  /\ "cut" \in faults /\ sock[b].up
  /\ sock' = [sock EXCEPT ![b] = Closed(b)]
  /\ view' = [view EXCEPT ![b] = handle_ws_error(@)]
  /\ UNCHANGED <<table, row, handling, last_input_sender, agentVars, access>>

-----------------------------------------------------------------------------
(* What a view does with a message of its socket *)

ReceivedOutput(v, m) ==
  [v EXCEPT !.messages = Trimmed(Append(@, m)),
            !.last_message_timestamp = 0,
            !.pending_sends = IF m.kind = "user" /\ @ > 0 THEN @ - 1 ELSE @,
            !.active_tasks = TaskSeen(@, m)]

HistoryBatch(v, rows) ==
  [v EXCEPT !.messages = Trimmed(@ \o rows), !.last_message_timestamp = 0]

PermissionRequest(v, r) == [v EXCEPT !.pending_permission = r]

handle_ws_event(v, e) ==
  CASE e.type = "output"  -> ReceivedOutput(v, e.message)
    [] e.type = "history" -> HistoryBatch(v, e.messages)
    [] e.type = "request" -> PermissionRequest(v, e.request)

Deliver(b) ==
  /\ sock[b].up /\ sock[b].to_view # <<>>
  /\ view' = [view EXCEPT ![b] = handle_ws_event(@, Head(sock[b].to_view))]
  /\ sock' = [sock EXCEPT ![b].to_view = Tail(@)]
  /\ UNCHANGED <<table, row, handling, last_input_sender, agentVars, access>>

-----------------------------------------------------------------------------
(* What a user does.  Without a socket the view keeps nothing to be sent   *)
(* later.                                                                  *)

Sent(b, m) ==
  sock' = IF ws_sender(b) THEN [sock EXCEPT ![b].to_server = Append(@, m)] ELSE sock

handle_send_input_with_mode(b) ==
  /\ written < MaxInputs
  /\ written' = written + 1
  /\ view' = [view EXCEPT ![b].pending_sends = @ + 1]
  /\ Sent(b, [type |-> "input"])
  /\ UNCHANGED <<table, row, handling, last_input_sender, inputs, asked, answers, access>>

handle_approve_permission(b) ==
  /\ view[b].pending_permission # None
  /\ view' = [view EXCEPT ![b].pending_permission = None]
  /\ Sent(b, [type |-> "answer", request |-> view[b].pending_permission])
  /\ UNCHANGED <<table, row, handling, last_input_sender, agentVars, access>>

-----------------------------------------------------------------------------
(* The threads of the web sockets *)

Registering(b) == sock[b].stage \in {"added", "read", "asking"}

Heard(b, type) == sock[b].up /\ ~Registering(b)
                  /\ sock[b].to_server # <<>> /\ Head(sock[b].to_server).type = type

(* Unless the instance lets them overlap, no output is handled while a     *)
(* browser registers.                                                      *)
Undisturbed == "overlap" \in faults \/ handling = None
NobodyRegisters == "overlap" \in faults \/ \A b \in Browsers : ~Registering(b)

handle_web_register(b) ==
  /\ Heard(b, "register") /\ Undisturbed
  /\ b \in access
  /\ sock' = [sock EXCEPT ![b].stage = "added",
                          ![b].replay_after = Head(sock[b].to_server).replay_after,
                          ![b].to_server = Tail(@)]
  /\ UNCHANGED <<table, row, handling, last_input_sender, agentVars, access, view>>

(* A browser without access is sent an error and closed.                   *)
AccessDenied(b) ==
  /\ Heard(b, "register") /\ b \notin access
  /\ sock' = [sock EXCEPT ![b] = Closed(b)]
  /\ view' = [view EXCEPT ![b] = handle_ws_error(@)]
  /\ UNCHANGED <<table, row, handling, last_input_sender, agentVars, access>>

\* Mutant: only a browser that comes back is sent history.
replay_historyMutant(b) ==
  /\ sock[b].stage = "added"
  /\ sock' = [sock EXCEPT ![b].stage = "read",
       ![b].history = IF sock[b].made = 1 THEN <<>>
                      ELSE SubSeq(table, sock[b].replay_after + 1, Len(table))]
  /\ UNCHANGED <<table, row, handling, last_input_sender, agentVars, access, view>>

replay_history(b) ==
  /\ sock[b].stage = "added"
  /\ sock' = [sock EXCEPT ![b].stage = "read",
       ![b].history = SubSeq(table, sock[b].replay_after + 1, Len(table))]
  /\ UNCHANGED <<table, row, handling, last_input_sender, agentVars, access, view>>

(* Sends the history that was read and reads the pending request.          *)
HistoryIsSent(b) ==
  /\ sock[b].stage = "read"
  /\ sock' = [sock EXCEPT ![b].stage = "asking", ![b].pending = row,
       ![b].to_view = IF sock[b].history = <<>> THEN @
                      ELSE Append(@, [type |-> "history", messages |-> sock[b].history]),
       ![b].history = <<>>]
  /\ UNCHANGED <<table, row, handling, last_input_sender, agentVars, access, view>>

replay_pending_permission(b) ==
  /\ sock[b].stage = "asking"
  /\ sock' = [sock EXCEPT ![b].stage = "done", ![b].pending = None,
       ![b].to_view = IF sock[b].pending = None THEN @
                      ELSE Append(@, [type |-> "request", request |-> sock[b].pending])]
  /\ UNCHANGED <<table, row, handling, last_input_sender, agentVars, access, view>>

handle_web_input(b) ==
  /\ Heard(b, "input")
  /\ inputs' = Append(inputs, b)
  /\ last_input_sender' = b
  /\ sock' = [sock EXCEPT ![b].to_server = Tail(@)]
  /\ UNCHANGED <<table, row, handling, written, asked, answers, access, view>>

handle_permission_response(b) ==
  /\ Heard(b, "answer")
  /\ row' = None
  /\ answers' = answers \cup {Head(sock[b].to_server).request}
  /\ sock' = [sock EXCEPT ![b].to_server = Tail(@)]
  /\ UNCHANGED <<table, handling, last_input_sender, written, inputs, asked, access, view>>

-----------------------------------------------------------------------------
(* The thread of the proxy's socket *)

\* Mutant: a browser is added to the fan-out when its replay is over.
broadcast_to_web_clientsMutant(m) ==
  sock' = [b \in Browsers |->
    IF sock[b].stage # "done" THEN sock[b]
    ELSE [sock[b] EXCEPT !.to_view = Append(@, m)]]

broadcast_to_web_clients(m) ==
  sock' = [b \in Browsers |->
    IF sock[b].stage = "none" THEN sock[b]
    ELSE [sock[b] EXCEPT !.to_view = Append(@, m)]]

Produced == Len(table)

TaskRunning == TasksOfHistory(table) # {}

(* handle_claude_output up to its broadcast.  An echo is attributed to the *)
(* user whose input came last.                                             *)
handle_claude_output(kind) ==
  /\ handling = None /\ NobodyRegisters /\ Produced < MaxMessages
  /\ kind = "user" => inputs # <<>>
  /\ kind = "task_end" => TaskRunning
  /\ kind = "task_start" => ~TaskRunning
  /\ LET m == [id |-> Produced + 1, kind |-> kind,
               by |-> IF kind = "user" THEN last_input_sender ELSE None,
               author |-> IF kind = "user" THEN Head(inputs) ELSE None]
     IN  /\ broadcast_to_web_clients([type |-> "output", message |-> m])
         /\ handling' = [type |-> "store", message |-> m]
  /\ IF kind = "user"
     THEN inputs' = Tail(inputs) /\ last_input_sender' = None
     ELSE UNCHANGED <<inputs, last_input_sender>>
  /\ UNCHANGED <<table, row, written, asked, answers, access, view>>

StoreMessage ==
  /\ handling # None /\ handling.type = "store"
  /\ table' = Append(table, handling.message)
  /\ handling' = None
  /\ UNCHANGED <<row, last_input_sender, agentVars, access, sock, view>>

(* The agent asks: one request after the other, unless it runs tools in    *)
(* parallel.                                                               *)
handle_permission_request(r) ==
  /\ handling = None
  /\ r \notin asked /\ ("parallel" \in faults \/ asked \subseteq answers)
  /\ asked' = asked \cup {r}
  /\ row' = r
  /\ handling' = [type |-> "ask", request |-> r]
  /\ UNCHANGED <<table, last_input_sender, written, inputs, answers, access, sock, view>>

ForwardRequest ==
  /\ handling # None /\ handling.type = "ask"
  /\ broadcast_to_web_clients([type |-> "request", request |-> handling.request])
  /\ handling' = None
  /\ UNCHANGED <<table, row, last_input_sender, agentVars, access, view>>

(* The owner takes a user's access away; the sockets it has stay.          *)
RemoveMember(b) ==
  /\ "revoke" \in faults /\ access = Browsers
  /\ access' = access \ {b}
  /\ UNCHANGED <<table, row, handling, last_input_sender, agentVars, sock, view>>

-----------------------------------------------------------------------------
ViewStep(b) ==
  \/ LoadHistory(b) \/ LoadFails(b) \/ connect_websocket(b) \/ ConnectFails(b)
  \/ attempt_reconnect(b) \/ ConnectionLost(b) \/ Deliver(b)

UserStep(b) == handle_send_input_with_mode(b) \/ handle_approve_permission(b)

SocketStep(b) ==
  \/ handle_web_register(b) \/ AccessDenied(b) \/ replay_history(b) \/ HistoryIsSent(b)
  \/ replay_pending_permission(b) \/ handle_web_input(b) \/ handle_permission_response(b)

ProxyStep ==
  \/ \E k \in Kinds : handle_claude_output(k)
  \/ StoreMessage
  \/ \E r \in Requests : handle_permission_request(r)
  \/ ForwardRequest

Step ==
  \/ \E b \in Browsers : ViewStep(b) \/ UserStep(b) \/ SocketStep(b) \/ RemoveMember(b)
  \/ ProxyStep

Next == Step /\ UNCHANGED faults

Spec == Init /\ [][Next]_vars

-----------------------------------------------------------------------------
(* Properties *)

Phases == {"loading", "connecting", "connected", "waiting", "given_up"}

\* Every variable has its type.
TypeOK ==
  /\ row \in Requests \cup {None} /\ access \subseteq Browsers
  /\ last_input_sender \in Browsers \cup {None} /\ inputs \in Seq(Browsers)
  /\ asked \subseteq Requests /\ answers \subseteq Requests
  /\ \A b \in Browsers : view[b].phase \in Phases /\ (sock[b].up <=> ws_sender(b))
       /\ Len(view[b].messages) <= MAX_MESSAGES_PER_SESSION

\* Nothing is under way to b or from it, and no thread is between its steps.
Settled(b) ==
  /\ sock[b].up /\ sock[b].stage = "done" /\ handling = None
  /\ sock[b].to_view = <<>> /\ sock[b].to_server = <<>>

\* A browser that is connected has a dialog open as long as the session has a
\* request pending: a request that arrives while the browser registers is
\* broadcast to it or replayed to it, and one whose answer was lost with the
\* socket is shown again.
PendingIsShown ==
  \A b \in DOMAIN view : Settled(b) /\ row # None => view[b].pending_permission # None

\* A browser that is connected shows the session's last messages, however often
\* it lost its socket: what came while it had none is replayed, unless it registers
\* while an output is handled.
NothingMissed ==
  "overlap" \notin faults => \A b \in DOMAIN view : Settled(b) =>
    ToSet(Trimmed(table)) \subseteq ToSet(view[b].messages)

\* The panel of a browser shows a task as running exactly as long as it runs.
TasksAreTrue ==
  \A b \in DOMAIN view : Settled(b) => view[b].active_tasks = TasksOfHistory(table)

\* The dialog of a browser is for the request that is pending.
DialogIsPending ==
  \A b \in DOMAIN view : Settled(b) /\ row # None => view[b].pending_permission = row

\* No message is shown twice.
ShownOnce == \A b \in DOMAIN view : IsInjective(view[b].messages)

\* A request the agent waits for is the one a browser that connects is shown.
WaitingIsPending ==
  handling = None /\ asked \ answers # {} /\ (\A b \in DOMAIN view : Settled(b))
  => row \in asked \ answers

\* A stored echo has the user who wrote the input.
ActualSender == \A i \in DOMAIN table : table[i].by = table[i].author

\* An input leaves the pending ones when its own echo was shown.
OnlyConfirmedLeave ==
  \A b \in DOMAIN view :
    (view[b].pending_sends = 0 /\ view[b].phase # "loading") => b \notin ToSet(inputs)
=============================================================================
