---------------------------- MODULE AgentSession ----------------------------
(***************************************************************************)
(* One session's task (launcher/src/process_manager.rs, and likewise       *)
(* proxy/src/main.rs): the agent and the I/O task that owns it, the        *)
(* Session (claude-session-lib/src/session.rs), and the connection loop    *)
(* with its reader, heartbeats, permission answers and wiggum mode         *)
(* (proxy_session/mod.rs, ws_reader.rs, wiggum.rs).                        *)
(*                                                                         *)
(* Outputs and inputs are counted only as far as they start and end turns: *)
(* their delivery is the subject of OutputDelivery and InputDelivery.      *)
(***************************************************************************)
EXTENDS Naturals, Sequences, FiniteSets, SequencesExt

CONSTANTS
  Agent,          \* "claude" or "codex"
  Requests,       \* permission requests the agent may make
  None,           \* no request
  MaxConnections, \* bound: connections made
  MaxInputs,      \* bound: messages of users that start a turn
  MaxIterations,  \* WIGGUM_MAX_ITERATIONS
  Faults          \* what may go wrong

ASSUME AgentSessionAssumption ==
  /\ Agent \in {"claude", "codex"}
  /\ None \notin Requests
  /\ MaxConnections \in Nat /\ MaxInputs \in Nat /\ MaxIterations \in Nat \ {0}
  /\ Faults \subseteq {"cut", "half_open", "parallel", "twice", "terminate", "shutdown",
                       "stop", "not_found", "exit", "error", "wiggum", "plain"}

VARIABLES
  agent,     \* the process: whether it is alive, turns it has to do, whether it
             \* is to wait in one, and the requests that wait for an answer
  io,        \* the I/O task
  cmd,       \* its command channel
  evt,       \* its event channel
  session,   \* Session: state, pending_permission, whether its channels are open
  task,      \* what the session's task does
  conn,      \* connections made by this connection loop
  link,      \* "up", "cut", or "dead": half open
  inbox,     \* messages from the backend on this connection
  input,     \* input channel; it outlives connections
  channel,   \* the connection's channel of answers and wiggum prompts
  signal,    \* signals of the reader to the main loop
  wiggum,    \* iteration of wiggum_state, 0 if there is none
  shown,     \* requests the backend has been sent
  answered,  \* how often users have answered each request
  inputs,    \* messages of users so far
  taken,     \* answers the agent was given, in order
  dismissed, \* whether the reader was told that the session is terminated
  fresh      \* whether the session was replaced by a fresh one

process == <<agent, io, cmd, evt>>
network == <<link, inbox, channel, signal>>
users == <<shown, answered, inputs>>
history == <<taken, dismissed, fresh>>
vars == <<process, network, users, history, session, task, conn, input, wiggum>>

Input(w) == [kind |-> "input", wiggum |-> w, request |-> None]
Answer(r) == [kind |-> "answer", wiggum |-> FALSE, request |-> r]
Tell(kind) == [kind |-> kind, wiggum |-> FALSE, request |-> None]
Event(kind, r) == [kind |-> kind, request |-> r]
Messages == [kind : {"input", "answer", "terminated", "shutdown"},
             wiggum : BOOLEAN, request : Requests \union {None}]
Asleep == [alive |-> TRUE, turns |-> 0, asking |-> {}]
Opened == [state |-> "running", pending |-> None, open |-> TRUE]

Over == task \in {"exited", "stopped"}

TypeOK ==
  /\ agent \in [alive : BOOLEAN, turns : Nat, asking : SUBSET Requests]
  /\ io \in {"running", "ended"}
  /\ cmd \in Seq(Messages)
  /\ evt \in Seq([kind : {"done", "result", "asks", "exited", "error", "not found"},
                  request : Requests \union {None}])
  /\ session \in [state : {"running", "waiting", "exited"},
                  pending : Requests \union {None}, open : BOOLEAN]
  /\ task \in {"connecting", "registering", "main", "sleeping", "exited", "stopped"}
  /\ conn \in 0..MaxConnections
  /\ link \in {"up", "cut", "dead"}
  /\ inbox \in Seq(Messages) /\ input \in Seq(Messages) /\ channel \in Seq(Messages)
  /\ signal \subseteq {"disconnect", "terminated", "shutdown"}
  /\ wiggum \in 0..MaxIterations
  /\ shown \subseteq Requests /\ answered \in [Requests -> 0..2]
  /\ inputs \in 0..MaxInputs
  /\ taken \in Seq(Requests)
  /\ dismissed \in BOOLEAN /\ fresh \in BOOLEAN

\* Session::new: the agent and its I/O task are started.
Init ==
  /\ agent = Asleep /\ io = "running" /\ cmd = <<>> /\ evt = <<>>
  /\ session = Opened
  /\ task = "connecting" /\ conn = 0 /\ link = "cut"
  /\ inbox = <<>> /\ input = <<>> /\ channel = <<>> /\ signal = {}
  /\ wiggum = 0
  /\ shown = {} /\ answered = [r \in Requests |-> 0] /\ inputs = 0
  /\ taken = <<>> /\ dismissed = FALSE /\ fresh = FALSE

-----------------------------------------------------------------------------
(* The agent and the I/O task.                                              *)

\* What the I/O task says is lost when the Session's receiver is dropped; then
\* the task ends and with it the agent.
Emits(event, after) ==
  /\ io = "running" /\ agent.alive
  /\ IF session.open
     THEN /\ evt' = Append(evt, event)
          /\ agent' = after
          /\ io' = IF after.alive THEN io ELSE "ended"
     ELSE /\ agent' = [after EXCEPT !.alive = FALSE]
          /\ io' = "ended"
          /\ UNCHANGED evt

Said(kind) == \E i \in 1..Len(evt) : evt[i].kind = kind

\* A turn may ask for permissions, one after the other or at once.
AgentAsks(r) ==
  /\ agent.turns > 0
  /\ r \notin agent.asking \union Range(taken)
  /\ agent.asking = {} \/ "parallel" \in Faults
  /\ Emits(Event("asks", r), [agent EXCEPT !.asking = @ \union {r}])
  /\ UNCHANGED <<cmd, network, users, history, session, task, conn, input, wiggum>>

\* A turn ends with a result, which says DONE or not.
AgentResult(kind) ==
  /\ agent.turns > 0 /\ agent.asking = {}
  /\ Emits(Event(kind, None), [agent EXCEPT !.turns = @ - 1])
  /\ UNCHANGED <<cmd, network, users, history, session, task, conn, input, wiggum>>

\* The agent exits, fails, or says that it does not know the session. Nobody
\* listens to codex between turns.
AgentExits ==
  /\ "exit" \in Faults
  /\ IF Agent = "codex" /\ agent.turns = 0
     THEN /\ io = "running" /\ agent.alive
          /\ agent' = [agent EXCEPT !.alive = FALSE]
          /\ UNCHANGED <<io, evt>>
     ELSE Emits(Event("exited", None), [agent EXCEPT !.alive = FALSE])
  /\ UNCHANGED <<cmd, network, users, history, session, task, conn, input, wiggum>>

AgentError ==
  /\ "error" \in Faults /\ ~Said("error")
  /\ Emits(Event("error", None), [agent EXCEPT !.alive = (Agent = "claude")])
  /\ UNCHANGED <<cmd, network, users, history, session, task, conn, input, wiggum>>

AgentNotFound ==
  /\ "not_found" \in Faults /\ ~fresh /\ Agent = "claude" /\ agent = Asleep
  /\ ~Said("not found")
  /\ Emits(Event("not found", None), agent)
  /\ UNCHANGED <<cmd, network, users, history, session, task, conn, input, wiggum>>

\* claude_io_task: a command is written to claude, which queues inputs itself.
ClaudeCommand ==
  /\ Agent = "claude" /\ io = "running" /\ agent.alive /\ cmd # <<>>
  /\ cmd' = Tail(cmd)
  /\ LET c == Head(cmd)
     IN  IF c.kind = "input"
         THEN agent' = [agent EXCEPT !.turns = @ + 1] /\ UNCHANGED taken
         ELSE /\ agent' = [agent EXCEPT !.asking = @ \ {c.request}]
              /\ taken' = Append(taken, c.request)
  /\ UNCHANGED <<io, evt, network, users, dismissed, fresh, session, task, conn, input,
                 wiggum>>

\* codex_io_task: an input starts a turn if none is active, and is dropped
\* if one is; an answer counts in a turn only. A turn that cannot be started
\* has failed.
CodexCommand ==
  /\ Agent = "codex" /\ io = "running" /\ cmd # <<>>
  /\ cmd' = Tail(cmd)
  /\ \/ /\ Head(cmd).kind = "input" /\ agent.alive
        /\ agent' = [agent EXCEPT !.turns = 1]
        /\ UNCHANGED <<evt, taken>>
     \/ /\ Head(cmd).kind = "input" /\ ~agent.alive
        /\ evt' = IF session.open THEN Append(evt, Event("result", None)) ELSE evt
        /\ UNCHANGED <<agent, taken>>
     \/ /\ Head(cmd).kind = "answer" /\ agent.turns > 0
        /\ agent' = [agent EXCEPT !.asking = @ \ {Head(cmd).request}]
        /\ taken' = Append(taken, Head(cmd).request)
        /\ UNCHANGED evt
     \/ /\ Head(cmd).kind = "answer" /\ agent.turns = 0
        /\ UNCHANGED <<agent, evt, taken>>
  /\ UNCHANGED <<io, network, users, dismissed, fresh, session, task, conn, input,
                 wiggum>>

\* Without a turn codex_io_task waits for commands only, and ends with them.
CodexEnds ==
  /\ Agent = "codex" /\ io = "running" /\ agent.turns = 0
  /\ cmd = <<>> /\ ~session.open
  /\ io' = "ended"
  /\ agent' = [agent EXCEPT !.alive = FALSE]
  /\ UNCHANGED <<cmd, evt, network, users, history, session, task, conn, input, wiggum>>

-----------------------------------------------------------------------------
(* The connection loop.                                                     *)

\* A connection is made, or is not.
ConnectToBackend ==
  /\ task = "connecting" /\ conn < MaxConnections
  /\ conn' = conn + 1
  /\ task' = "registering" /\ link' = "up"
  /\ UNCHANGED <<process, users, history, session, inbox, channel, signal, input, wiggum>>

ConnectFails ==
  /\ "cut" \in Faults /\ task = "connecting"
  /\ task' = "sleeping"
  /\ UNCHANGED <<process, network, users, history, session, conn, input, wiggum>>

\* RegisterAck, or ten seconds without one, lead to the main loop; a refusal
\* and the loss of the connection to another attempt.
RegisterSession ==
  /\ task = "registering"
  /\ \/ link # "cut" /\ task' = "main"
     \/ link = "cut" /\ task' = "sleeping"
  /\ UNCHANGED <<process, network, users, history, session, conn, input, wiggum>>

\* Backoff, or the delay the server asked for.
WakeUp ==
  /\ task = "sleeping"
  /\ task' = "connecting"
  /\ UNCHANGED <<process, network, users, history, session, conn, input, wiggum>>

\* The end of a connection: forwarder and reader are aborted, the connection's
\* channels and wiggum_state are dropped.
Leaves(next) ==
  /\ task' = next
  /\ link' = "cut" /\ inbox' = <<>> /\ channel' = <<>> /\ signal' = {}
  /\ wiggum' = 0

\* The Session is dropped or stopped: its channels close.
Closes == session' = [session EXCEPT !.state = "exited", !.open = FALSE]

\* run_session_task goes on with a fresh session if the agent did not know the
\* one that was to be resumed.
StartsFresh ==
  /\ agent' = Asleep /\ io' = "running" /\ cmd' = <<>> /\ evt' = <<>>
  /\ session' = Opened /\ input' = <<>> /\ conn' = 0
  /\ fresh' = TRUE

MainTerminated ==
  /\ task = "main" /\ "terminated" \in signal
  /\ Leaves("exited") /\ Closes
  /\ UNCHANGED <<process, users, history, conn, input>>

MainDisconnected ==
  /\ task = "main" /\ signal \intersect {"disconnect", "shutdown"} # {}
  /\ Leaves("sleeping")
  /\ UNCHANGED <<process, users, history, session, conn, input>>

\* Fifteen seconds without a heartbeat.
MainExpired ==
  /\ task = "main" /\ link = "dead"
  /\ Leaves("sleeping")
  /\ UNCHANGED <<process, users, history, session, conn, input>>

\* Session::send_input fails if the session has ended or its I/O task.
CanSend == session.state # "exited" /\ io # "ended"

AgentGone == Leaves("exited") /\ Closes

MainInput ==
  /\ task = "main" /\ input # <<>>
  /\ input' = Tail(input)
  /\ IF CanSend
     THEN cmd' = Append(cmd, Input(FALSE)) /\ UNCHANGED <<session, task, network, wiggum>>
     ELSE AgentGone /\ UNCHANGED cmd
  /\ UNCHANGED <<agent, io, evt, users, history, conn>>

\* The prompt of wiggum mode goes to the agent and the iterations start.
MainWiggum ==
  /\ task = "main" /\ channel # <<>> /\ Head(channel).kind = "input"
  /\ IF CanSend
     THEN /\ cmd' = Append(cmd, Input(TRUE))
          /\ channel' = Tail(channel)
          /\ wiggum' = 1
          /\ UNCHANGED <<session, task, link, inbox, signal>>
     ELSE AgentGone /\ UNCHANGED cmd
  /\ UNCHANGED <<agent, io, evt, users, history, conn, input>>

\* Mutant: respond_permission does not compare the request with the pending one.
MainPermissionMutant ==
  /\ task = "main" /\ channel # <<>> /\ Head(channel).kind = "answer"
  /\ channel' = Tail(channel)
  /\ session' = [session EXCEPT !.pending = None, !.state = "running"]
  /\ cmd' = Append(cmd, Answer(Head(channel).request))
  /\ UNCHANGED <<agent, io, evt, link, inbox, signal, users, history, task, conn, input,
                 wiggum>>

\* respond_permission: an answer to what is not the pending request is only
\* logged.
MainPermission ==
  /\ task = "main" /\ channel # <<>> /\ Head(channel).kind = "answer"
  /\ channel' = Tail(channel)
  /\ LET r == Head(channel).request
     IN  IF session.pending = r /\ CanSend
         THEN /\ session' = [session EXCEPT !.pending = None, !.state = "running"]
              /\ cmd' = Append(cmd, Answer(r))
         ELSE UNCHANGED <<session, cmd>>
  /\ UNCHANGED <<agent, io, evt, link, inbox, signal, users, history, task, conn, input,
                 wiggum>>

Happens(kind) == task = "main" /\ evt # <<>> /\ Head(evt).kind = kind

\* next_event: a request becomes the pending one and goes to the backend. It
\* has left the channel even if it cannot be sent.
MainAsks ==
  /\ Happens("asks")
  /\ evt' = Tail(evt)
  /\ session' = [session EXCEPT !.pending = Head(evt).request, !.state = "waiting"]
  /\ IF link = "cut"
     THEN Leaves("sleeping") /\ UNCHANGED shown
     ELSE /\ shown' = IF link = "up" THEN shown \union {Head(evt).request} ELSE shown
          /\ UNCHANGED <<task, network, wiggum>>
  /\ UNCHANGED <<agent, io, cmd, answered, inputs, history, conn, input>>

\* What codex says is not looked at, but sent on.
MainRaw ==
  /\ Agent = "codex" /\ (Happens("done") \/ Happens("result"))
  /\ evt' = Tail(evt)
  /\ IF link = "cut" THEN Leaves("sleeping") ELSE UNCHANGED <<task, network, wiggum>>
  /\ UNCHANGED <<agent, io, cmd, users, history, session, conn, input>>

\* handle_session_event_with_wiggum: a result without wiggum mode, or the one
\* that ends it.
MainResult ==
  /\ Agent = "claude"
  /\ \/ Happens("done")
     \/ Happens("result") /\ wiggum \in {0, MaxIterations}
  /\ evt' = Tail(evt)
  /\ wiggum' = 0
  /\ UNCHANGED <<agent, io, cmd, network, users, history, session, task, conn, input>>

\* Mutant: the iterations are not counted.
MainIteratesMutant ==
  /\ Agent = "claude"
  /\ Happens("result") /\ wiggum \in 1..(MaxIterations - 1)
  /\ link # "cut" /\ CanSend
  /\ evt' = Tail(evt)
  /\ cmd' = Append(cmd, Input(TRUE))
  /\ UNCHANGED <<agent, io, users, history, conn, input, session, task, network, wiggum>>

\* Another result in wiggum mode: its status is sent and then the prompt again.
MainIterates ==
  /\ Agent = "claude"
  /\ Happens("result") /\ wiggum \in 1..(MaxIterations - 1)
  /\ evt' = Tail(evt)
  /\ \/ /\ link = "cut"
        /\ Leaves("sleeping") /\ UNCHANGED <<session, cmd>>
     \/ /\ link # "cut" /\ CanSend
        /\ cmd' = Append(cmd, Input(TRUE))
        /\ wiggum' = wiggum + 1
        /\ UNCHANGED <<session, task, network>>
     \/ /\ link # "cut" /\ ~CanSend
        /\ AgentGone /\ UNCHANGED cmd
  /\ UNCHANGED <<agent, io, users, history, conn, input>>

\* Mutant: an error of the agent is not taken for its end.
MainExitedMutant ==
  /\ Happens("exited")
  /\ evt' = <<>>
  /\ AgentGone
  /\ UNCHANGED <<agent, io, cmd, users, history, conn, input>>

\* The agent is gone or has failed. (The event channel closes by itself only
\* when nobody listens to it.)
MainExited ==
  /\ Happens("exited") \/ Happens("error")
  /\ evt' = <<>>
  /\ AgentGone
  /\ UNCHANGED <<agent, io, cmd, users, history, conn, input>>

MainNotFound ==
  /\ Happens("not found")
  /\ Leaves("connecting") /\ StartsFresh
  /\ UNCHANGED <<users, taken, dismissed>>

\* The launcher stops the task; the same as the session's end.
StopTask ==
  /\ "stop" \in Faults /\ ~Over
  /\ Leaves("stopped") /\ Closes
  /\ UNCHANGED <<process, users, history, conn, input>>

-----------------------------------------------------------------------------
(* The reader of the connection.                                            *)

Reading == task = "main" /\ "disconnect" \notin signal

\* One message goes to its channel.
ReadMessage ==
  /\ Reading /\ inbox # <<>> /\ link = "up"
  /\ LET m == Head(inbox)
         plain == m.kind = "input" /\ ~m.wiggum
     IN  /\ input' = IF plain THEN Append(input, m) ELSE input
         /\ channel' = IF m.kind = "answer" \/ m.wiggum THEN Append(channel, m) ELSE channel
         /\ signal' = IF m.kind \in {"terminated", "shutdown"}
                      THEN signal \union {m.kind, "disconnect"} ELSE signal
         /\ dismissed' = (dismissed \/ m.kind = "terminated")
  /\ inbox' = Tail(inbox)
  /\ UNCHANGED <<process, link, users, taken, fresh, session, task, conn, wiggum>>

\* The connection is lost, and the reader sees it.
ReaderEnds ==
  /\ Reading /\ link = "cut"
  /\ signal' = signal \union {"disconnect"}
  /\ UNCHANGED <<process, link, inbox, channel, users, history, session, task, conn, input,
                 wiggum>>

-----------------------------------------------------------------------------
(* The network and the backend.                                             *)

Connected == task \in {"registering", "main"}

LinkCut ==
  /\ "cut" \in Faults /\ Connected /\ link # "cut" /\ conn < MaxConnections
  /\ link' = "cut"
  /\ inbox' = <<>>
  /\ UNCHANGED <<process, channel, signal, users, history, session, task, conn, input,
                 wiggum>>

LinkDies ==
  /\ "half_open" \in Faults /\ Connected /\ link = "up" /\ conn < MaxConnections
  /\ link' = "dead"
  /\ inbox' = <<>>
  /\ UNCHANGED <<process, channel, signal, users, history, session, task, conn, input,
                 wiggum>>

Sends(m) ==
  /\ task = "main" /\ link = "up"
  /\ inbox' = Append(inbox, m)
  /\ UNCHANGED <<process, link, channel, signal, shown, history, session, task, conn, input,
                 wiggum>>

UserInput(w) ==
  /\ inputs < MaxInputs
  /\ w => "wiggum" \in Faults
  /\ ~w => "plain" \in Faults
  /\ Sends(Input(w))
  /\ inputs' = inputs + 1 /\ UNCHANGED answered

\* Users answer what the backend shows; with several clients, twice.
UserAnswers(r) ==
  /\ r \in shown
  /\ answered[r] < IF "twice" \in Faults THEN 2 ELSE 1
  /\ Sends(Answer(r))
  /\ answered' = [answered EXCEPT ![r] = @ + 1] /\ UNCHANGED inputs

Terminate ==
  /\ "terminate" \in Faults /\ conn < MaxConnections /\ ~dismissed
  /\ Tell("terminated") \notin Range(inbox)
  /\ Sends(Tell("terminated"))
  /\ UNCHANGED <<answered, inputs>>

Shutdown ==
  /\ "shutdown" \in Faults /\ conn < MaxConnections
  /\ Tell("shutdown") \notin Range(inbox)
  /\ Sends(Tell("shutdown"))
  /\ UNCHANGED <<answered, inputs>>

-----------------------------------------------------------------------------
AgentStep ==
  \/ \E kind \in {"done", "result"} : AgentResult(kind)
  \/ ClaudeCommand \/ CodexCommand \/ CodexEnds

TaskStep ==
  \/ ConnectToBackend \/ ConnectFails \/ RegisterSession \/ WakeUp
  \/ MainTerminated \/ MainDisconnected \/ MainExpired
  \/ MainInput \/ MainWiggum \/ MainPermission
  \/ MainAsks \/ MainRaw \/ MainResult \/ MainIterates \/ MainExited \/ MainNotFound

ReaderStep == ReadMessage \/ ReaderEnds

Mishap ==
  \/ AgentExits \/ AgentError \/ AgentNotFound
  \/ LinkCut \/ LinkDies \/ StopTask

UserStep ==
  \/ \E w \in BOOLEAN : UserInput(w)
  \/ \E r \in Requests : UserAnswers(r)
  \/ Terminate \/ Shutdown

Next ==
  \/ AgentStep \/ TaskStep \/ ReaderStep \/ Mishap \/ UserStep
  \/ \E r \in Requests : AgentAsks(r)

\* The agent works, the tasks run, the backend can be reached again, and a user
\* answers what is asked.
Fairness ==
  /\ SF_vars(ConnectToBackend)
  /\ WF_vars(AgentStep) /\ WF_vars(TaskStep) /\ WF_vars(ReaderStep)
  /\ \A r \in Requests : WF_vars(UserAnswers(r))

Spec == Init /\ [][Next]_vars

FairSpec == Spec /\ Fairness

-----------------------------------------------------------------------------
(* Properties.                                                              *)

\* The requests that messages of a kind in a queue are about, and that no two of
\* them are about the same.
About(q, kind) == {q[i].request : i \in {j \in DOMAIN q : q[j].kind = kind}}
OneEach(q, kind) ==
  \A i, j \in DOMAIN q :
    (q[i].kind = kind /\ q[j].kind = kind /\ q[i].request = q[j].request) => i = j

\* However often and from wherever users answer, and whatever connections are
\* lost in between, the agent is given one answer to a request, and no answer
\* to what was not shown (respond_permission, next_event): of those it was given
\* and those on their way to it.
AnsweredOnce ==
  /\ Range(taken) \subseteq shown /\ IsInjective(taken)
  /\ About(cmd, "answer") \subseteq shown \ Range(taken) /\ OneEach(cmd, "answer")

\* A request that the agent waits for is answered as long as users answer and
\* the connection holds: it becomes the pending one, is shown, and the answer
\* passes the reader, the main loop and the I/O task.
RequestIsAnswered(r) == r \in agent.asking ~> (r \notin agent.asking \/ Over)

\* Wiggum mode ends: one prompt for each result, and no more than
\* WIGGUM_MAX_ITERATIONS of them, even if the agent never says DONE.
WiggumEnds == wiggum # 0 ~> wiggum = 0

\* The session's task does not outlive an agent that was heard to exit or to
\* fail, whatever happens to the connection.
EndsWithAgent == io = "ended" ~> (Over \/ io = "running")

\* mod.rs:122, "Session was terminated by the server (do not reconnect)".
TerminatedStaysAway == [][dismissed => conn' = conn]_vars

\* session.rs:633, "Dropping the command_tx will cause the I/O task to exit,
\* which in turn will drop the client and terminate the process".
StopEndsAgent == Over ~> ~agent.alive
=============================================================================
