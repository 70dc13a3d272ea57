# Verification of agent-portal

This directory holds a TLA+ development of the agent portal: what its parts keep,
what they do with it, what has to hold whatever the network, the processes and the
database do, and how far it does. The modules are checked with TLC on small
instances; the theorems are proved with TLAPS for every value of the constants.
Lines named `file:line` are of this repository.

- [1. The system](#1-the-system)
- [2. Modules and runs](#2-modules-and-runs)
- [3. Output delivery](#3-output-delivery)
- [4. Session registry](#4-session-registry)
- [5. Input delivery](#5-input-delivery)
- [6. Scheduled tasks and the launcher's sessions](#6-scheduled-tasks-and-the-launchers-sessions)
- [7. Launcher link and launch dialog](#7-launcher-link-and-launch-dialog)
- [8. Login and start of the command line program](#8-login-and-start-of-the-command-line-program)
- [9. A session's task](#9-a-sessions-task)
- [10. The browser](#10-the-browser)
- [11. Accounts, pages and retention](#11-accounts-pages-and-retention)
- [12. What is proved](#12-what-is-proved)
- [13. What disagrees with the documentation](#13-what-disagrees-with-the-documentation)
- [14. What is not modelled](#14-what-is-not-modelled)
- [15. Plan](#15-plan)

## 1. The system

Users follow and steer coding agents (Claude, Codex) from a browser. On a user's
machine a **proxy session** (`claude-session-lib`, started by `proxy` or by the
`launcher`) runs one agent process and holds a WebSocket to the **backend**. The
backend stores sessions, outputs and inputs in PostgreSQL and forwards between
proxies and **web clients**. A **launcher** daemon, one per host and user, holds a
WebSocket of its own, starts session tasks on request and on schedule. The
**frontend** is a page of session views, each with a web socket of its own.

| part | state | operations | hard because |
| --- | --- | --- | --- |
| output path: `output_buffer.rs`, `proxy_session/*`, `message_handlers.rs` | pending outputs and next number (memory, file), output channel; `last_ack_seq`, `messages` rows | push, send, replay, acknowledge, persist; deduplicate, store, ack | two senders, reconnects, restarts and crashes on both sides, failing inserts |
| session registry: `session_manager.rs`, `proxy_socket.rs`, `registration.rs` | `sessions`, `connection_gen`, `pending_messages`, status column | register, unregister, queue, replay, stale clean-up, administrator's delete | several concurrent maps, no common lock; an old socket's clean-up races with a new socket's registration |
| input path: `web_client_socket.rs`, `launcher_socket.rs`, `ws_reader.rs` | `input_seq`, `pending_inputs`, channels to the agent | number, store, send, replay on registration, ack, delete | cumulative deletion over messages of several senders; channels per connection |
| scheduled tasks: `scheduled_tasks.rs`, `scheduler.rs`, launcher `connection.rs` | table; the launcher's tasks, pending launches and prompts, running | edit, sync, fire, launch, prompt, stop, report | three places know what runs; messages are lost with the connection |
| launcher's sessions: launcher `connection.rs`, `process_manager.rs`, `config.rs` | expected sessions, config file, restart counters, tasks | reconcile, launch, stop, restart, give up | counters and requests per connection; three programs write the config |
| launcher link: `launcher_socket.rs`, `launchers.rs`, launcher `main.rs` | `launchers`, tokens, config file, the process's own token | register, refuse duplicates, renew token, restart | check-then-act across an await, half-open sockets, token rotation in four steps |
| launch dialog: `launch_dialog.rs`, `launchers.rs` | selection, browser, listings under way | open, browse, type, launch | listings are answered in any order |
| device flow: `device_flow.rs`, `portal-auth` | codes in memory, tokens in the database | code, poll, approve, deny, expire | approval, denial, expiry and poll race; approval is several steps |
| start of `claude-portal`: proxy `main.rs`, `config.rs` | config file, lock file | lock, resolve, save, log in | several processes, stale locks, copies of the config |
| session task: `session.rs`, `proxy_session/mod.rs`, `wiggum.rs`, `heartbeat.rs` | agent, I/O task, pending request, wiggum state | read, ask, answer, iterate, reconnect, end | one select over ten channels, some per connection |
| browser's view of a session: `session_view/*`, `web_client_socket.rs`, `permissions.rs` | messages, pending sends, dialog, tasks; clients per session; one row per request | load, register, replay, fan out, answer | registration and output are several steps in two tasks |
| uploads: `component.rs`, `web_client_socket.rs`, `mod.rs` | chunks under way, files | start, chunk, announce | two channels in the proxy, no acknowledgment |
| dashboard: `page.rs`, `use_sessions.rs`, `use_keyboard_nav.rs`, `session_rail.rs` | list, focused index, marks | poll, select, hide, keys | callbacks hold old state; an index into a list that changes |
| accounts: `admin.rs`, `proxy_tokens.rs`, `sessions.rs`, `registration.rs`; pages | users, tokens, sessions, members; lists shown | update, ban, create, revoke, share, leave, delete | handlers without transactions, pages that write back old lists |
| retention: `retention.rs`, `helpers.rs`, `main.rs` | messages, costs, queue of sessions to truncate | store, truncate, delete, record costs | statements without a transaction |
| sign-in, voice, rendering, sounds, downloads, updates, terminal | | | - |

The parts meet in few places. A session's WebSocket carries outputs, input acks and
registrations up and inputs, output acks and permission answers down; the
**registry** maps a session to the channel of the socket that serves it, which the
input path, the permission flow and scheduled prompts send to; a registration
replays the registry's queue and the stored inputs. The scheduler's prompts are
inputs of a session as a user's are. What the output path stores and broadcasts is
what the views show; what a launch or a registration enters into `sessions` is what
the dashboard lists and retention deletes.

What makes each part right: outputs are stored in order, at least once, and
acknowledged only when stored; the registry knows the socket that serves and
nothing of sockets that are gone; an accepted input is stored until the agent's
side has it, and reaches the agent in order; a task has one run at a time, is
never forgotten, and its run gets its prompt; what the launcher runs it can stop and
is expected to run; a host has one launcher, which can always come back, with a
token that works; a program that logs in gets the token of who approved it; a
request of the agent is shown everywhere and answered once; a view misses no
message; pages show what is stored; costs are counted once.

## 2. Modules and runs

| module | what it is | extends, uses |
| --- | --- | --- |
| `OutputDelivery` | output path | |
| `AtLeastOnceLog` | abstract log the output path implements | |
| `OutputDeliveryInv` | inductive invariant, refinement mapping | `OutputDelivery`, `AtLeastOnceLog` |
| `OutputDeliveryProofs` | proofs | `OutputDeliveryInv` |
| `SessionRegistry`, `SessionRegistryProofs` | registry, proofs | |
| `InputDelivery`, `InputDeliveryProofs` | input path, proofs | |
| `ScheduledTasks`, `ScheduledTasksProofs` | table, scheduler, runs, proofs | |
| `LauncherSessions` | expected sessions, restarts, session tasks | |
| `LauncherLink` | registration, restarts, tokens of a launcher | |
| `LaunchDialog` | launch dialog, directory listings | |
| `LauncherLinkProofs` | proofs about the launcher: link, dialog, sessions | `LauncherLink`, `LaunchDialog`, `LauncherSessions` |
| `DeviceFlow` | codes, web login, approval, polls | |
| `ProxyStart`, `ProxyStartProofs` | start of `claude-portal`, proofs about both | `DeviceFlow` |
| `AgentSession`, `AgentSessionProofs` | agent, I/O task, connection loop, proofs | |
| `Conversation` | history, sockets, dialogs, inputs of the views | `Option` |
| `FileUpload` | chunks from the view to the proxy's files | |
| `Dashboard` | list, focus, marks, keys | |
| `Records` | tables of accounts, their handlers | `Option` |
| `Panels` | pages that show and change them | `Records` |
| `PagesProofs` | proofs about the views, uploads, accounts and retention | `Conversation`, `FileUpload`, `Panels`; an instance of `Retention` |
| `Retention` | messages, costs, clean-up | |
| `Option` | the constant `None` of modules that are extended together | |
| `MC_*` | instances for TLC | the modules |

In each module a variable is named after the field it stands for where there is
one; an action is named after the function, the select arm or the handler it
translates, and is one step exactly when nothing else can come in between (no
await, no lock given up, no second DashMap or database operation). Where the code
has several such steps, the variable that holds the task's position (`pc`, `hand`,
`backend`, `client`, `job`, `renewal`, `handling`) says which comes next. Inputs,
outputs and tokens are numbers, payloads are left out.

`Faults` (`Changes`) lists what may go wrong in an instance; in `LauncherLink`,
`LauncherSessions` and `Conversation` the first state picks it (`faults` from `FaultSets`,
`mishaps` from `MishapSets`). A run that
passes names the faults it stands; a fault that breaks its property is in section 13,
with the instance on which TLC refutes it. The same holds for the flags below, which
confine an interleaving:

- `Overlap` (registry): a socket registers while another one still does.
- `Orderly` (input): no client sends during a registration, sockets register in
  the order of their connections.
- `Patient` (tasks): a task does not become due while its launch is answered. Cron
  times are at least a minute apart, an answer is normally there in a second.
- `Serial` (tasks): the schedule is not loaded while a loaded one is unsent.
- `Patient` (dialog): the user waits for a listing or a launch before the next click.
- `Batched` (dashboard): several callbacks may run before the page is rendered.
- `half_open`, `crossing`, `overlapping` (launcher, as faults): the backend notices
  a loss late; two registrations, or two renewals, at once.
- `MaxInFlight` (accounts): the number of requests handled at the same time.

A run often checks several **instances** of a module, or of related ones: an MC
module instantiates them side by side, with a variable (`mode`, `trouble`, `faulty`)
that the first state chooses and no step changes. The variables of the instances that
were not chosen keep their initial value, each property names the instance it is
about, and the steps of all of them have to fire. So the instances cost no more than
runs of their own would, and the one that is calm and the one where everything goes
wrong are read next to each other. The type invariants are conjuncts of such
properties, or proved (section 12). A property that a theorem states names what it
presupposes itself (`OrderlyRunsArePrompted`: `Patient` and the absence of four faults;
`NothingMissed`: no `overlap`; `SerialAccountsAreWhole`: one request at a time;
`SessionsAreKept`: `OneLaunchAtATime`), so that the run and the theorem are about the same
formula. Where such a condition differs between instances it is part of the first state:
`faults` and `mishaps` above, and `requests` of `Records`, which has one slot for each
request that may be handled at a time.

| run | instances | distinct states |
| --- | --- | --- |
| `output` | `OutputDelivery`: reliable; every fault | 332,049 |
| `registry` | `SessionRegistry` | 726,846 |
| `input_orderly`, `input_faults` | `InputDelivery` | 180,355; 4,151,634 |
| `schedule` | `ScheduledTasks`: orderly | 113,410 |
| `schedule_faults` | `ScheduledTasks` | 1,017,176 |
| `launcher` | `LauncherLink`: calm, troubled; `LaunchDialog`; `LauncherSessions`: kept, tried, mixed | 1,090,680 |
| `login` | `ProxyStart` with `DeviceFlow`: calm, killed, contested | 181,070 |
| `agent` | `AgentSession`: calm, faults, codex | 96,813 |
| `pages` | `Conversation`: calm, shaken, shared; `FileUpload`; `Dashboard`: rendered, batched; `Panels` with `Records`: accounts, overlap, pages, share; `Retention` | 1,170,254 |
| `output_zero`, `dashboard_number` | violations, section 13 | |

A definition whose name ends in `Mutant` is a plausible error in the code, used to
show that the property named with it in PROJECT.json would notice.

## 3. Output delivery

`OutputDelivery` follows one session's outputs. The proxy numbers an output
(`push`), keeps it in `buf` until it is acknowledged, and resends what is pending
on every connection; the backend stores numbers above `last_ack`, skips the others
and acknowledges both.

| state | code | actions | code |
| --- | --- | --- | --- |
| `buf`, `disk` | `PendingOutputBuffer`, its file | `Connect`, `ReplayNext`, `Announce` | `run_single_connection` (mod.rs:337-464) |
| `mode`, `cur`, `cursor` | where `run_connection_loop` is | `ClaudeOutput`, `RawOutput`, `ReceiveAck`, `MainSend` | arms of `run_main_loop` |
| `chan`, `fwd` | `output_tx`/`output_rx`, the forwarder task | `Forwarder*` | `spawn_output_forwarder` |
| `wire`, `acks`, `link` | the sockets | `Backend*` | `handle_claude_output` |
| `hand`, `last_ack`, `rows` | the call in progress, the tracker, the table | `ProxyExit`, `ProxyCrash`, `ProxyStart`, `LinkCut`, `BackendRestart` | ends and starts |

A connection that is cut still has messages the backend may read: `wire` of an old
connection is drained while the new one is served. Two tasks of the proxy push and
send: the forwarder, and the main loop in wiggum mode or for an agent with raw
outputs. `ReceiveAck` does what `acknowledge` and `persist` do, in one step.

The run `output` has two instances.

- Reliable (3 connections, 2 outputs besides the announcements): with cut links,
  backend restarts and orderly exits of the proxy, acknowledgments cover stored
  messages only (`AckConfirmsStorage`), no numbered message is lost
  (`BufferHoldsUnstored`), rows come in order (`StoredInOrder`). Once the last
  connection stays up all that was numbered is stored and acknowledged, and delivered
  by the abstract log (`Drains`). The path implements `AtLeastOnceLog` (`ImplementsLog`,
  its initial states and steps; the refinement mapping is in `OutputDeliveryInv`: sent is
  what was numbered, delivered are the rows). Three connections are what it takes for an
  old socket to be read while a second one replays and a third opens.
- Faulty (wiggum mode, a buffer of 2, 3 outputs, 2 connections, every fault): no
  acknowledgment is ahead of the buffer that gets it, also when that buffer was loaded
  after a crash; a message has at most one row per connection; what does not fit is
  given up oldest first, and nothing else is (`FaultyDeliveryIsBounded`).
- `output_zero` (violation): see section 13.

Fairness: every task of the two programs runs on; a connection that is lost is
left (the heartbeat notices a dead link, `heartbeat.rs`); the agent, the faults and
exits owe nothing. The last connection of an instance is not cut: without that
assumption no protocol delivers.

## 4. Session registry

`SessionRegistry` has the maps of `SessionManager` for one session and the tasks
that use them, one step for each DashMap or database operation: a socket registers
(`TakeGeneration` to `MarkActive`), ends and cleans up (`CheckCurrent` to
`AbortSendTask`); clients send (`SendDirect`, or `FindNoProxy` and `QueueMessage`); an
administrator removes the session (`ForceRemove*`, `DeleteSession`); the task of
`main.rs` marks stale sessions (`SnapshotKeys`, `LoadActive`, `MarkStale`).

- `registry` (2 sockets, a client with 2 messages, a queue of 1; expiry, dead
  senders, deletion and the stale task): when all sockets are gone none is
  registered (`EmptyWhenAllGone`); queue and channels hold each message once, in order,
  within the limit (`DeliveredOnce`, `ChannelOrder`); and the sender of a socket that ended
  is replaced or removed in the end (`DeadSenderGone`). Two
  sockets make every pair of registration and cleanup, two messages and a queue of
  one make the trim. Failing database operations and overlapping registrations are
  left out of this run and are in the theorems, which hold for every number of
  sockets, clients and messages and every fault (section 12).

Fairness: a socket's task that began to register or to leave goes on.

## 5. Input delivery

`InputDelivery` follows the inputs of one session from clients (web sockets, or
launchers injecting a scheduled prompt) to the agent. `AllocateSeq`, `InsertRow` and
`SendInput` are the three steps of `handle_web_input` and of `InjectInput`;
`RegisterSession` to `ReplayNext` are a socket's registration and its replay of
`pending_inputs`; `ReadInputAck` deletes the rows an acknowledgment covers. On the
proxy, `AwaitAck` passes over what precedes the RegisterAck, `ReadInput` and
`SendInputAck` are the reader, `TakeInput` and `TakeWiggum` the main loop. `input_rx`
outlives a connection, `wiggum_rx` does not.

The registry's own races are in section 4: here a registration with its queue
replay is one step, and so is a cleanup.

- `input_orderly` (liveness; one client, 3 inputs, 2 connections, backend restarts,
  `Orderly`): a stored input is stored until taken; first takes come in the order of
  numbers; what was taken is handed to the agent (`KeptInOrder`); in the end all are
  and the rows are gone (`InputsArrive`).
- `input_faults` (a web client and a launcher, one wiggum input, every fault, no
  order): a row is deleted only when its input or a later one was taken
  (`DeletedWasCovered`), and an input is taken at most once more than there are
  connections (`CopiesBounded`).

Two connections and two inputs are the least in which an acknowledgment, a replay
and a new input overlap; a third input lets one be acknowledged, one be replayed and
one be new at a time. All three safety properties are theorems, for every number of inputs,
connections and clients they allow. Fairness as for the output path; a client that took a number
goes on, but need not begin.

## 6. Scheduled tasks and the launcher's sessions

`ScheduledTasks` has the table and the requests that edit it, the backend's side of
the launcher's socket, the scheduler and the session tasks of one launcher. Cron
arithmetic is left open: a task that waits may become due at any moment
(`TimeComes`), which allows every schedule. `FireDue` skips or launches; the backend
answers with `Launch` (`ReceiveRequest`); `LaunchSession` spawns within `max_sessions`;
`SendPrompt` injects the prompt; `SessionExited` reports; `Stop` is a stop request
or the enforcement of the maximum runtime; `Replace` is the new session that
`run_session_task` starts for one the agent does not know.

`LauncherSessions` has the sessions that users launch and the config lists. `Register`
is the connection of the launcher with its reconciliation: what is expected and does
not run is asked for (`RequestLaunch`), which the backend answers with a launch
(`ReceiveRequest`); `LaunchSession` spawns, enters the task and makes its directory
expected; `SessionExited` is the arm that reports an exit and, by its code and by
how often the directory failed on this connection, restarts it later
(`DelayedRestart`), gives it up or forgets it. `configured` is the config file, which
the program `login` also reads and writes (`LoginLoads`, `LoginSaves`). `wish` is what
the user wants, kept to state the properties; the code has no such variable.

The run `schedule_faults` (1 task, 3 runs, a change, two connections, room for two
sessions; refused tokens, stubborn, slow and replaced sessions, reports that cannot be
sent, overlapping loads of the schedule) shows that runs of a task do not overlap and
every one that lasts can be stopped (`OneTrackedTask`). The run `schedule` (2 tasks, 2
runs, a change, one connection, a limit of one session, `Patient` and `Serial`, and nothing
else goes wrong) shows that what the scheduler takes for running runs or its end is on the
way, and a run's prompt is stored for the session it has (`OrderlyRunsArePrompted`); when
all syncs are delivered the schedule is the table's (`OrderlyScheduleFollows`); every run
that was fired gets its prompt, ends or is refused, and tasks keep firing while session
tasks end (`OrderlyRunsProgress`).

The run `launcher` has three instances of `LauncherSessions`, besides those of section 7.

- Kept (2 directories, one of them configured, room for both,
  failures and lost connections): what runs is tracked, so that it can be stopped, and
  expected, with its identity, also by a launcher that starts anew (`SessionsAreKept`);
  a session that the user stopped stays away, and one that keeps failing is restarted
  `MAX_RESTART_ATTEMPTS` times, no more and no less (`RestartsAsAsked`, on one
  connection and for a first launch); an expected session runs in the end
  (`KeptExpectedRuns`); the run checks both (`ExpectedAsAsked`).
- Tried (room for one; also exits that race a stop, reports that cannot be sent,
  crashes, stubborn tasks, refused launches, directories that are gone), Mixed (one
  directory, shared with scheduled runs, the login program and replaced sessions): what
  runs is tracked.

Two runs, or two launches in one directory, are what it takes to overlap or to follow, a
third run, to follow on two; two connections, to lose what the first one knew. `MAX_RESTART_ATTEMPTS` is 1 (3 in
the code): the counter is compared at one place, and 1 reaches both sides of it within
six tasks.

Fairness: both sockets and every arm of the launcher's select run on, times come, a
spawned session registers, and a launcher that is down is started (`GoesOn`); a session
need not end. `OrderlyRunsProgress` has that as a condition of its own.

## 7. Launcher link and launch dialog

`LauncherLink` has the processes a host's service manager starts (each with a
`launcher_id` of its own), their connections, the backend's task for each, the
launchers map and the tokens. `CheckDuplicate` and `RegisterLauncher` are two steps,
`Mint`, `Revoke`, `UpdateEntry` and `Push` the four of a renewal; a heartbeat's renewal
runs in its socket's task, a user's in a request.

`LaunchDialog` has the dialog of the dashboard: the launchers it offers, the one
selected, `DirBrowser` with its path and entries, the timer of a typed path, and the
listings that are under way, in any order, through the backend (`BackendAsks`,
`TimesOut`) to a launcher that may be gone (`LauncherAnswers`, `Connection`).

The run `launcher` has three instances of these two modules (and those of
`LauncherSessions`, section 6).

- Calm (3 processes one after the other, 4 connections, no renewals): one launcher is
  entered, and one that serves is reached through its entry (`OneReachableLauncher`);
  none is refused for an entry of its own or of one that is gone
  (`OwnEntryIsNoObstacle`); and after the last crash, restart and loss one serves for
  good (`LauncherComesBackForGood`).
- Troubled (2 processes, also at once, 3 connections, 2 tokens minted, a request
  besides the heartbeats; half-open links, failing queries and config writes, renewals
  that overlap): the first of these holds, and the user is never without a token
  that works (`ATokenIsValid`).
- Dialog (2 launchers with different directories, 3 listings, a launcher that comes or
  goes, a patient user): the entries shown are those of the path on the selected
  launcher, and what is launched is launched in a directory that is there
  (`PatientDialogIsTrue`).

Fairness: the service manager restarts a launcher that exits (`Restart=on-failure`,
`service.rs`), both sides run on, and the backend notices that a connection ended.

## 8. Login and start of the command line program

`DeviceFlow` has the backend's store of codes, the program that asks for one and polls
(`RequestCode`, `Poll`, `TakeToken`), and browsers with a session cookie each that visit
the verification page, sign in, and approve or deny. `Approve` mints the token and its
row, `Complete` gives it to the code: two steps, as in the handler, with a second
approval, a denial, expiry, the purge and a restart in between. `ProxyStart` extends it
with the start of `claude-portal`: the lock file with its attempts and its stale owners
(`CreateLock`, `SeeStaleLock`, `RemoveStaleLock`), the session of the directory
(`ResolveSession`), what is saved and from which copy of the config, the login, the
sub-commands and the restart after an update.

The run `login` has three instances.

- Calm (two processes in one directory without a token, one browser, codes that
  expire): every start ends, and an approval the user was told of reaches its program
  (`CalmLoginEnds`).
- Killed (two processes with a token, two directories, killed at any step, updates):
  a directory has the last session that a process resolved there (`CachedRemembers`).
- Contested (one process that logs in anew, two browsers of two users, one banned, with
  failing queries, a lost network, restarts and expiry).

In all three the token a program is given is one of the user whose approval completed
its code, and no two programs have the same (`TokenOfApprover`).

Two processes are what a lock and a copy are about; a third one is in section 13.
Fairness: a process runs on, a browser that asked shows the answer; the user owes
nothing, nor does the fault of an expiry.

## 9. A session's task

`AgentSession` is a session as the launcher or the proxy runs it: the agent (turns,
requests, results, exits), the I/O task with its channels, `Session` with the one
pending permission, the reader of the socket, and the connection loop, whose arms are
actions (`MainPermission`, `MainAsks`, `MainIterates`, ...). A connection is made, refused,
lost, half open until the heartbeat's time is over, shut down by the server or
terminated; the next one has new channels, except for the inputs'. `claude` and `codex`
differ in how they take commands (`ClaudeCommand`, `CodexCommand`: the latter drops an
input during a turn).

The run `agent` has three instances (2 requests, 2 connections, an input):

- Calm (claude; users that answer twice; wiggum mode of 2 iterations; a connection that
  holds): a request the agent waits for is answered, and wiggum mode ends
  (`CalmWorkEnds`).
- Faults (claude with every mishap but answers given twice) and codex (lost
  connections, double answers, raw outputs, exits, stops).

In all three a request is answered once and only the one that was asked
(`AnsweredOnce`), and the task does not outlive an agent that was heard to end,
whatever becomes of the connection (`EndsWithAgent`).

Fairness: agent, task and reader run on, and connecting succeeds again and again
(strong fairness: attempts fail, but not for ever; the backoff only delays them). A user
answers the requests she is shown in the calm instance, where that is asked for.

## 10. The browser

`Conversation` is one session and the views that show it. A view loads the history,
connects, registers, and reconnects (`LoadHistory`, `connect_websocket`,
`attempt_reconnect`); the backend's task of its socket adds it to the fan-out, reads and
sends the history after the time it gave, then the pending request
(`handle_web_register` to `replay_pending_permission`: four steps); the proxy's task
broadcasts an output and then stores it (`handle_claude_output`, `StoreMessage`), and
stores a request and then broadcasts it (`handle_permission_request`, `ForwardRequest`).
`FileUpload` has the chunks of a dropped file, the backend's check, the proxy's two
channels and the files. `Dashboard` has the list that is polled, the focused index, the
mounted views, the marks of the sessions that wait or are connected, and the keys; a
callback computes from `seen`, the state of the last render, and sets `page`, as a Yew
closure over state handles does.

Six instances of the run `pages` are about these modules.

- `Conversation` with one browser that loses its socket (3 outputs, an input, a
  request, 2 sockets); with every mishap (registrations that overlap outputs, parallel
  requests, refused sockets, lost membership); and with two users that answer two
  requests at the same time. Wherever a connected view is settled and a request is
  pending, a dialog is open (`PendingIsShown`); where no registration overlaps an
  output no message is missed (`NothingMissed`).
- `FileUpload` with two uploads of two chunks, a break of the connection and files that
  cannot be created: a received file has no gap and no chunk out of its place
  (`FilesAreBeginnings`).
- `Dashboard`, three sessions, one of them scheduled: rendered after every callback,
  with sessions that end, start early in the order or are hidden, and polls that fail,
  the marks are those of the views; with several callbacks between renders and new
  sessions last in the order, the page is not blank (`PageStaysTrue`).

Three events and one change are what it takes to read, write and read again across a
poll. No fairness: these are safety properties of what is shown.

## 11. Accounts, pages and retention

`Records` has the tables of users, tokens, sessions and members and the handlers that
change them, one step for each statement (`update_user`, `delete_user_sessions`,
`register_or_update_session`, ...): a statement may fail, and several handlers run at a
time. `Panels` extends it with the pages of a browser: a page asks for its list, a change is
confirmed in a dialog that holds the list of that moment, and the answer is applied to
it. `Retention` has the outputs as they are stored and counted, the queue of
sessions to truncate and the task that drains it, the clean-ups by age, and deletions
with the costs they move.

The other five instances of the run `pages` are about these.

- Accounts (two administrators, one session, one request at a time): an enabled
  administrator remains, and a banned user has neither a token that works nor a
  session (`SerialAccountsAreWhole`).
- Overlap (an administrator and an owner, two requests or registrations at a time): a
  session's owner is its member, and a session that is gone has none
  (`SessionHasOwner`).
- Pages and share (a user who waits for each answer): a page shows what is in the
  tables, and the secret it shows works (`CalmPageIsTrue`).
- Retention (one session, a limit of one message, two outputs, one deletion): what is
  shown as spent is what was spent, and the newest messages are never truncated
  (`SerialCostsCounted`); a session over the limit is truncated
  (`OversizeIsTruncated`).

Two requests at a time make every pair of handlers interleave; a limit of one and two
messages are the least that is truncated. Fairness: the clean-up task and the storing
of an output run on (`MCFairness`); nobody need delete.

## 12. What is proved

TLAPS checks these for every value of the constants, from the assumptions named in
the modules and no others.

| theorem | says | for |
| --- | --- | --- |
| `OutputDeliveryProofs!TypeCorrect` | `[]TypeOK` | every fault and mode |
| `Invariance`, `AcksAreSafe`, `NothingDropped`, `InOrder` | `[]IInv`, `[]AckConfirmsStorage`, `[]BufferHoldsUnstored`, `StoredInOrder` | `Reliable`: no wiggum mode, no kill, no database failure, nothing unparsed |
| `Refinement` | `ImplementsLog` | `Reliable`, as long as the buffer does not overflow |
| `NeverOverflows` | `[](overflowed = {})` | a buffer with room for all the contents |
| `SessionRegistryProofs!TypeCorrect`, `NobodyLeftBehind`, `Ordered`, `OnceAtMost`, `QueueStaysBounded` | `[]TypeOK`, `[]EmptyWhenAllGone`, `[]ChannelOrder`, `[]DeliveredOnce`, `[]QueueBounded` | every fault, overlapping registrations |
| `InputDeliveryProofs!TypeCorrect`, `DeletionsAreCovered`, `CopiesAreBounded` | `[]TypeOK`, `[]DeletedWasCovered`, `[]CopiesBounded` | every fault and interleaving |
| `KeptInTheirOrder` | `[]KeptInOrder` | `Steady` and `Plain`: one client, orderly registrations, no fault but restarts of the backend, no wiggum prompts |
| `TakenIsGiven` | `[]TakenReachesAgent` | `Plain`, every fault and interleaving |
| `ScheduledTasksProofs!TypeCorrect` | `[]TypeOK` | every fault and interleaving |
| `OneTracked` | `[]OneTrackedTask` | `Patient`, every fault |
| `RunsArePrompted` | `[]OrderlyRunsArePrompted` | its own conditions |
| `ScheduleFollows` | `[]OrderlyScheduleFollows` | its own conditions |
| `LauncherLinkProofs!TypeCorrect`, `TokenStaysValid` | `[]TypeOK`, `[]ATokenIsValid` | every fault and interleaving |
| `SoleLauncher` | `[]OneReachableLauncher` | its own condition: no registrations that cross |
| `OwnEntryNoObstacle` | `[]OwnEntryIsNoObstacle` | its own conditions: no second launcher, no half-open links |
| `DialogInvariance`, `DialogIsTrue` | `[]DialogInv`, `[]PatientDialogIsTrue` | any launchers and directories; its own condition: a patient user |
| `SessionInvariance`, `SessionTypesCorrect`, `SessionsKept` | `[]SessionInv`, `[]STypeOK`, `[]SessionsAreKept` | every mishap; `SessionsAreKept` has conditions of its own |
| `ProxyStartProofs!FlowInvariant`, `TokensOfApprovers` | `[]FlowInv`, `[]TokenOfApprover` | every fault, every start |
| `SessionsRemembered` | `[]LastSessionRemembered` | `Provided`: every directory has a token, nobody logs in or is killed |
| `AgentSessionProofs!TypeCorrect`, `OneAnswer` | `[]TypeOK`, `[]AnsweredOnce` | both agents, every fault |
| `PagesProofs!UploadInvariance`, `ReceivedAreBeginnings` | `[]IInv`, `[]FilesAreBeginnings` | `Separate`: each upload has a file of its own, writes do not fail |
| `ConversationInvariance`, `PendingRequestIsShown` | `[]CInv`, `[]PendingIsShown` | every fault and interleaving |
| `HistoryIsWhole` | `[]NothingMissed` | its own condition: no output that overlaps a registration |
| `RecordsInvariance`, `SessionsHaveOwners` | `[]PInv`, `[]SessionHasOwner` | no statement fails; any number of requests at a time |
| `SerialAccounts` | `[]SerialAccountsAreWhole` | one request at a time, no statement fails, there is an administrator, no tokens page |
| `RetentionInvariance`, `NewestAreKept` | `[]TInv`, `[]KeepsNewest` of `Retention` | no deletion fails half-way, no deleted session is registered again; deletions may overlap with anything |

The conditions are those of the code: section 13 has what happens without them.

**Output path** (`OutputDeliveryInv`). That an acknowledgment covers stored messages
only is not inductive: the backend stores number n and acknowledges it whatever came
before, so it has to be known that all smaller numbers are stored or given up when n
is read. `Gapless` says so of what is on each wire: before a message come all that
are smaller and not stored. It is kept by sending because of `Resent`: on the current
connection everything below the replay position, or below the next number once the
replay is over, is stored or on its way; and that rests on `OneSender` (the only task
that numbers also sends, so sends come in the order of numbers), `Numbering`, `Kept`
(what is not stored is in the buffer, so a replay starts from all of it) and
`Persisted` (what a stopped proxy left on disk is what it had). `Reliable` is what the
code needs: each of its conditions, taken away, gives a counterexample (section 13).

The refinement adds to it (`LogInv`) what relates the rows to what was numbered: every
number given is that of a message (`Numbered`), contents are produced before they are
numbered (`Produced`), and what is to be stored has a number of at least 1 (`Storable`).
A step of the path is then a step of the log or a stutter: `push` sends, an insert
delivers, and the rest stutters. What a full buffer gives up is never delivered, but
what comes after it is, out of the log's order; hence the hypothesis, and
`NeverOverflows`, by counting (`Counted`), that it can be met.

**Registry.** `Ownership`: the sender that is registered belongs to a socket whose
cleanup is still to come, or its removal is under way; the generation goes with it.
`Delivery`: a socket gets direct messages only after the queue was handed to it, the
queue is ordered and holds nothing that is in a channel, and nothing is anywhere
that was not sent.

**Input path.** `OnlyAccepted`: rows, channels and replays hold accepted inputs only;
`AcksAreTaken`: a number that is or will be acknowledged is one the reader took. With
both, deleting up to an acknowledged number deletes only what was covered.

That inputs are taken in order (`Kept`) is about what the proxy can come to read on its
current connection: before the RegisterAck it passes over everything, so a message is
`Readable` only behind it. In front of a readable input are all lower ones that are
stored and were not taken (`ReadInOrder`); once the rows are loaded, each stored input
was taken, is to be replayed, is readable or is with its client (`Complete`); and the
connection read from is the registered one (`Handshake`). So an acknowledgment deletes
no row whose input is still to come. Two clients, a client that sends during a
registration, a database that fails and a proxy that waits no longer for its RegisterAck
each break this (section 13). `Budget` accounts
for copies: what the reader took, what is queued, what is on the current connection, what a
client holds and what a replay may still send is at most one more than there were
connections; each step moves a copy or loses it.

**Scheduled tasks.** Types need `Owned`: whatever names a session for a task names the
session of one of its runs, and whatever names a run, one that was fired. `OneAsk`: a
task has one launch on its way (request or answer), for a run that has no session task,
and until it is answered the task is neither due nor running; this is where `Patient` comes in, and
what `pending_launches` does not ensure. `Held`: a session task that runs is in
`running` and in the manager under its own number, and its end is not in the channel; an
end that is in the channel is one of a session in `running`, once. From both, a spawn
overlaps with nothing. That a prompt is stored (`Recorded`) is a race between three
messages: the end of a run deletes its session's row, the next run resumes that session
and registers it again, and its prompt needs the row. `EndsFirst`: the report of the end
is ahead of the request for the next run, so it is handled before that run exists.
`Following`: a pending load, a loaded schedule or the last one on its way to the
launcher has the table's tasks, or else the launcher has them; on a later connection an
empty schedule is not sent, and without `Serial` the last one sent is not the last one
loaded.

**Launcher link.** `Shape` says what the steps of a process, its connection and the
backend's task know of each other: an acknowledgment comes before any token
(`Messages`), a renewal is for a connection that was registered and replaces an older token
(`Renewals`), and no token in use is newer than the last one minted, which nobody is
about to revoke (`Newest`). `SoleRegistration`: of all connections one is between its
duplicate check and its end, and the entry is its own; registrations that cross are two
tasks that have both checked. `SoleConnection`: one process runs, and the backend is done
with every connection but the last, so the check finds nothing.

**Launch dialog.** `Answers`: what a launcher listed it found, and the entries in the dialog
are of a directory that is there on the launcher they came from. For a patient user `OneAtATime`: of all
listings at most the last is under way, it is of the selected launcher and of the path
in the field or of one that the launcher resolves, and no timer is set meanwhile. So a
listing that comes is the one that is shown (`AreThere`), which is what the handlers do not
check.

**Launcher's sessions.** Whatever goes wrong, a task has its own number for a name or that of
an earlier task of its directory, and every id in the config, in the launcher, in the
copy the login has read or in a report is such a name (`Named`). Nothing is on the way
to or from a launcher that is down (`OnTheWay`). With one launch at a time (`OneThing`),
what makes a session run in a directory is one of five and exists once: a request to
the backend, a launch on its way to the launcher, a task, the report of a task's end, a
restart that waits. Each step turns one into the next; a reconciliation asks only where
there is none, since a directory without tracked task has neither task nor report
(`Reports`). So a spawn never takes the entry of a task that runs (`RunningIsTracked`), and
it is what is expected that is spawned. `ExpectedRunning` adds that the config and the
launcher have the same sessions and each task that runs is among them; the end of a task
takes only its own off, as the one thing of its directory. A user's launch where
something runs, a request of an earlier connection, a scheduled run that fails, and for
the config a login or any scheduled run there, each break it (section 13).

**Login.** `FlowInv`: cookies and tokens are of users that may log in (`Accounts`); a page
that completes a code has one, and a token that is minted (`Tabs`); a code's token is of
the user it names (`Codes`) and what a program has is its code's (`Programs`); and a token
is of one page or one code (`Apart`): an approval that comes too late keeps its token to
itself.

**Start.** `StartInv`: a process between the lock and its save owns the lock file
(`Locked`), and its copy of the config is the file, so that the save loses nothing; no
process goes to log in, which saves an older copy (`Provisioned`); session numbers in
the config are among those made so far (`Remembered`). A login and a kill break it
(section 13; the kill with three processes, the run `login` has two).

**Session task.** `Asked`: a request that the agent waits for is at one place, its event
on the way to `Session`, `pending`, or its answer on the way back, and one that was
answered is at none; a second answer of a user finds `pending` empty. `Answering`: what
comes from users is about requests that were shown.

**Uploads.** `InLine`: three numbers cut an upload's pieces into what was taken, what the
main loop has before it, what is on its way and what the view has left, each part in
order and without a gap; a connection that is new knows no upload, so the pieces that
come after a loss find none to be written to. An upload the proxy knows has its file's
length for its position. Without `Separate` section 13 has counterexamples.

**Views.** A view that has no dialog while a request is pending is about to get one: the
request is in its socket, its answer on the way to the backend, or a handler is between
storing and broadcasting (`Accounted`); `RequestComes` adds the registration that has read
the pending row and not sent it yet. That no message is missed is about the sequence of all
that was said (`Said`: the table, and the output that is broadcast and about to be stored).
A view's messages end like the first n of them, as far as a view keeps any (`UpTo`), and
`Follows`: the events on the socket lead, each one from where the one before it ends, from
there to all of them. While a view registers, nothing is being stored (this is where
`overlap` comes in), so what the backend read is what follows the time it was given
(`HistoryComes`). `HistoryBatch` and `ReceivedOutput` cut the messages to the limit; the
lemmas about `Trimmed` say that the end stays.

**Accounts.** `Owned`: the owner of a session in the table is its member, or a handler
that is between two of its statements accounts for it (`Excuses`: a registration before
its second insert, a deletion or a ban after its first delete); nobody else is an owner, and
a session that is gone has no members. A registration has its owner's token
(`OwnTokens`). For one request at a time, `Serial`: the administrator that acts is one, so
that one remains; a token and a session of a disabled user are those that the ban which
is under way has still to revoke and delete. The tokens page is excluded since the making
of a token does not look at `disabled`: a banned user whose page is open gets one
(section 13).

**Retention.** The truncation counts a session's messages, chooses the oldest and deletes
them in three statements; outputs are stored and sessions deleted between them. `TruncationOK` is
what makes that safe: what was counted in excess of the limit still is, since between
the count and the choice messages are only added to a session that stays
(`Stays`); and each chosen message has as many newer numbers as the limit, which later
outputs only increase. The step between the two is a lemma about finite sets
(`ChosenHaveNewer`): of the oldest e of a set that has the limit and e, each has at least
the limit's number above it. A session whose deletion has taken its messages never
stays again, without `db_error` and `again`; with either, it is in the table without messages. The
theorem is half of `SerialCostsCounted`, and of more instances: deletions may overlap.

TLC checks the properties on the instances of sections 3 to 11, and the inductive
invariants held on these instances before they were proved.

Only model-checked:

- all liveness (`Drains`, `DeadSenderGone`, `InputsArrive`, `OrderlyRunsProgress`,
  `LauncherComesBackForGood`, `CalmLoginEnds`, `CalmWorkEnds`, `EndsWithAgent`,
  `OversizeIsTruncated`, a part of `ExpectedAsAsked`): it needs fairness and ENABLED,
  which are out of the prover's reach, as are inductions over data;
- `FaultyDeliveryIsBounded`: what holds of the output path under the faults that
  `Reliable` excludes, where the inductive invariant above is false;
- `CachedRemembers` where processes are killed: it is true of two processes and false of
  three;
- `CostsCounted` (the other half of `SerialCostsCounted`): its sum over the sessions is a
  fold, of which only an induction over sets says anything;
- `PageStaysTrue`: the focus is a place in a sorted list, and sorting is a fold as well;
- `RestartsAsAsked` (in `ExpectedAsAsked`) of `LauncherSessions`, and `CalmPageIsTrue`
  of `Panels`, which is about one page's copy of the tables, and true of the pages of
  its instances only: those of a user whose changes touch no second page.

## 13. What disagrees with the documentation

Each line is a property that a comment or document of the repository states, the
instance on which TLC refutes it, and the code that does otherwise. Two of them are
runs of the project (`output_zero`, `dashboard_number`); for the others give the module's
constants the values named (all else as in the heading), the specification (`Spec`, or
the one in the heading) and the property. The passing runs show
that the property holds, where it does, without the fault or flag.

**Output delivery; `MaxOutputs` 4, `MaxConn` 2, `Capacity` 10, claude**

| property | instance | code | what it does | what is said |
| --- | --- | --- | --- | --- |
| `AckConfirmsStorageFromZero` (run `output_zero`) | no fault | message_handlers.rs:92 | a session without tracker counts as acknowledged up to 0 and numbers start at 0: the first message, "Session started", is acknowledged and never stored | PROTOCOL.md:112 "Confirms storage of all messages up to `ack_seq`" |
| `AckConfirmsStorage` | `Wiggum` | wiggum.rs:96 | `push()` and `ws.send()` are under different locks in two tasks: n+1 is sent before n, and n is acknowledged as a duplicate without being stored | same |
| `AckConfirmsStorage` | `unparsed` | proxy_session/mod.rs:799 | a message that cannot be parsed is pushed and sent by the main loop, next to the forwarder, as in wiggum mode | same |
| `AckConfirmsStorage` | `proxy_crash` | output_buffer.rs:81 | the buffer is persisted on acks and disconnects: a killed proxy gives numbers the backend has acknowledged to new outputs | same |
| `AckConfirmsStorage` | `db_error` | message_handlers.rs:199 | a failed insert is logged and acknowledged | same |
| `AckConfirmsStorage` | `db_pool` | message_handlers.rs:172 | without a pooled connection a message is neither stored nor acknowledged; the next ack covers it | same |
| `NoOutputLost` | `cut` | proxy_session/mod.rs:669 | `output_task.abort()` drops what waits in `output_rx` | output_buffer.rs:3-5 "ensures no messages are lost during WebSocket disconnects" |

**Session registry; `QueueLimit` 1, one client, `MaxSends` 0, not `Overlap`, no fault unless named**

| property | instance | code | what it does | what is said |
| --- | --- | --- | --- | --- |
| `ServingIsActive` | `MaxConn` 2 | proxy_socket.rs:61 | a proxy that registers between the check and the update of an old socket's cleanup is marked disconnected while it serves | proxy_socket.rs:54-57 "skip cleanup to avoid overwriting the new connection's state" |
| `ServingIsActive` | `MaxConn` 1, `recent_start` | main.rs:179 | a proxy that registers between the snapshot of keys and the load of active rows is marked disconnected | main.rs:163-164 "wait for proxies to reconnect before marking unreconnected sessions as disconnected" |
| `RegistrationKept` | `MaxConn` 2 | session_manager.rs:136 | generation and sender are compared and removed in separate operations: a newer registration in between goes | session_manager.rs:130-132 "preventing a stale connection's cleanup from removing a newer connection's registration" |
| `NoneLost` | `MaxConn` 2, `MaxSends` 2, `QueueLimit` 4 | session_manager.rs:126 | a message queued between the drain and the removal of the queue's entry is lost | PROTOCOL.md:302 "These are replayed on proxy reconnection" |

**Input delivery; `MaxInputs` 2, `MaxConn` 2, `Orderly`, no fault unless named**

| property | instance | code | what it does | what is said |
| --- | --- | --- | --- | --- |
| `InputKept` | two web clients | proxy_socket.rs:320 | the ack of the higher number deletes the row of the lower one, whose message is then lost with the link | PROTOCOL.md:89 "reliable, at-least-once delivery in both directions" |
| `InputKept` | one web client, not `Orderly` | proxy_socket.rs:320 | an input sent while the rows are replayed goes first; its ack deletes them, and the link is lost before their replay is read | PROTOCOL.md:168 "replays all unacknowledged `pending_inputs`" |
| `InputKept`, `FirstInOrder` | one web client, `db_error` | message_handlers.rs:37 | a load of the rows that fails replays nothing, and the ack of a later input deletes them | same |
| `InputKept`, `FirstInOrder` | one web client, `ack_timeout` | proxy_session/mod.rs:559 | after ten seconds the proxy reads on, behind inputs it has passed over; the ack of the next one deletes them | same |
| `FirstInOrder` | a web client and a launcher, `MaxConn` 1 | launcher_socket.rs:397 | number and send are two steps on one task per client | SCHEDULED_TASKS.md:226 "preventing ordering bugs" |
| `TakenReachesAgent` | one wiggum input | ws_reader.rs:161 | a wiggum prompt is acknowledged when it is in the connection's own channel | DATABASE.md:85 "Used for reliable input delivery across reconnections" |
| `ModeKept` | one wiggum input | message_handlers.rs:57 | a replay sends no mode: a wiggum prompt becomes an ordinary one | PROTOCOL.md:311 "Iterative autonomous loop" |
| `QueuedIsReplayed` | one input, `MaxConn` 1, `db_error` | proxy_session/mod.rs:537 | the queue is replayed before RegisterAck, and the proxy passes over what comes before it | PROTOCOL.md:302 "These are replayed on proxy reconnection" |

**Scheduled tasks; one task, one editor, `MaxRuns` 1, `MaxEdits` 0, `MaxConn` 1, `max_sessions` 1, `Patient`, `Serial`, no fault unless named**

| property | instance | code | what it does | what is said |
| --- | --- | --- | --- | --- |
| `NoOverlap` | `MaxRuns` 2, `max_sessions` 2, not `Patient` | scheduler.rs:122 | a task whose launch is not answered yet is in `pending_launches`, not in `running`, and is launched again | SCHEDULED_TASKS.md:357 "Skip if running" |
| `RunningIsAlive` | `stubborn` | process_manager.rs:175 | a task aborted after five seconds sends no SessionExited: it counts as running for ever | SCHEDULED_TASKS.md:163 "Reports results" |
| `RunningIsAlive` | `send`, `MaxConn` 2 | launcher connection.rs:203 | an exit that cannot be sent is taken from its channel, and the scheduler never hears of it | SCHEDULED_TASKS.md:357, as above |
| `TimedOrRunning` | `MaxEdits` 1 | scheduler.rs:66 | a sync during a run gives the task no next time, and neither does the end of the run | SCHEDULED_TASKS.md:272 "recomputes timers, preserving `running_session` state" |
| `ScheduleFollowsTable` | `MaxEdits` 1, `MaxConn` 2 | launcher_socket.rs:218 | no initial sync is sent when no task is enabled: the launcher keeps a task deleted while it was away | SCHEDULED_TASKS.md:274 "On launcher connect, the backend also sends an initial `ScheduleSync`" |
| `ScheduleFollowsTable` | two editors, `MaxEdits` 2, not `Serial` | scheduled_tasks.rs:89 | two syncs are sent in the other order than they were loaded | SCHEDULED_TASKS.md:270 "When a scheduled task is created/updated/deleted via API, the backend sends `ScheduleSync`" |
| `PromptReachesRun` | `slow` | launcher_socket.rs:422 | a prompt for a session that has not registered is dropped without an answer | SCHEDULED_TASKS.md:227 "Reliably delivered" |
| `PromptReachesRun` | `not_found`, `MaxRuns` 2, `MaxConn` 2 | process_manager.rs:248 | the replacement's id stays inside the session task: the prompt goes to the old session | SCHEDULED_TASKS.md:254 "the launcher reports the new `session_id`" |
| `RunsResume` | `MaxRuns` 2 | launcher_socket.rs:489 | the end of a run deletes its session, and no sync follows its start: the next run resumes nothing | SCHEDULED_TASKS.md:13 "resume the same Claude session" |
| `RunIsSettled` (under `FairSpec`) | `MaxConn` 2 | launcher connection.rs:291 | a RequestLaunch lost with the connection is not repeated | SCHEDULED_TASKS.md:23 "queued and reported on reconnect" |

**Launcher link; no requests, no fault unless named**

| property | instance | code | what it does | what is said |
| --- | --- | --- | --- | --- |
| `TokenNotRefused` | 1 process, 2 connections, 1 renewal | launcher connection.rs:541 | the process keeps the token it was started with, which the renewal revoked: it reconnects, is refused for good and exits | CHANGELOG.md:169 "Auto-renew launcher auth tokens over WebSocket when within 7 days of expiry" |
| `OneLauncher` | 2 processes, 2 connections, `second`, `crossing` | launcher_socket.rs:127 | duplicate check and registration are two steps with an await between them | launcher_socket.rs:126 "only one launcher per (hostname, user) is allowed" |
| `ServingIsRegistered` | 1 process, 3 connections, `half_open`, `crossing` | session_manager.rs:294 | an entry is removed by launcher_id, whichever connection it is for | launchers.rs:18 "List connected launchers for the current user" |
| `NotRefusedForItself` | 1 process, 2 connections, `half_open` | launcher_socket.rs:127 | the check does not exclude the launcher itself: a reconnect before the loss is noticed is fatal | launcher_socket.rs:142 "Stop the existing instance before starting a new one." |
| `SavedTokenWorks` | 1 process, 2 connections, 1 renewal | launcher_socket.rs:570 | the old token is revoked before the new one is pushed, once, over a link that may be lost | endpoints.rs:467 "Push a renewed auth token to the launcher" |
| `SavedTokenWorks` | 1 process, 1 connection, 2 renewals, a request, `overlapping` | launcher_socket.rs:585 | two renewals push in the other order than they updated the entry | launcher_socket.rs:516 "Used by both the heartbeat auto-renewal and the manual renew API endpoint." |
| `OldTokensRevoked` | the same | launchers.rs:222 | two renewals revoke the same old token; the first one's new token is never revoked | session_manager.rs:37 "for revocation on renewal" |

**Launcher's sessions (`LauncherSessions`, `SSpec`); directory d1, configured, `max_sessions` 2, `MAX_RESTART_ATTEMPTS` 1, `MaxTasks` 3, `MaxLinks` 2, `MaxLaunches` 1**

| property | instance | code | what it does | what is said |
| --- | --- | --- | --- | --- |
| `RunningIsTracked` | `twice` | process_manager.rs:156 | a launch of an identity that runs replaces its entry: the first task cannot be stopped | endpoints.rs:452 "Request to stop a running session" |
| `RunningIsTracked` | `cut`, `overlap` | launcher connection.rs:107 | a reconciliation asks again for what an earlier connection asked for and is still launched | connection.rs:105 "launch any that aren't running" |
| `RunningIsTracked` | `fail`, `scheduled` | launcher connection.rs:231 | a scheduled run that fails in an expected directory counts as the expected session | connection.rs:233 "Non-clean exit: try to restart" |
| `RunningIsExpected` | `scheduled` | launcher connection.rs:226 | the end of a scheduled run in the directory of a session makes that one unexpected | connection.rs:480 "New session — persist so it survives launcher restarts" |
| `RunningIsExpected` | `login` | launcher config.rs:128 | the login writes the config it read before a session was added | same |
| `CurrentIsExpected` | `not_found`, `crash`, `cut`, `fail` | process_manager.rs:251 | the replacement's id stays in the session task: the config and a restart have the old one | CHANGELOG.md:106 "Resume existing Claude sessions on launcher restart instead of creating new ones" |
| `StoppedStaysAway` | `fail`, `race`; `cut`, `unsent`; `crash`; `twice` | launcher connection.rs:203 | a stop is known by its exit being clean and reported: an exit that fails, is not sent or comes with a crash leaves the session expected | endpoints.rs:452, as above |
| `GivenUpInTime` | `fail`, `cut` | launcher connection.rs:106 | the counters start anew with every connection | connection.rs:248 "Expected session exceeded max restarts" |
| `GivenUpInTime` (on the first connection) | `fail`; `MaxLinks` 1, `MaxTasks` 5, `MaxLaunches` 2 | the same | a new launch does not reset the counter: it is given up too soon | same |
| `ExpectedRuns` (with `WF_svars(GoesOn)`) | `mint`; or no mishap, two configured directories, `max_sessions` 1 | launcher connection.rs:501 | a launch that is refused is answered and forgotten | LAUNCHER_ROADMAP.md:32 "Config supports `[[sessions]]` entries to auto-launch" |

**Launch dialog (`LaunchDialog`, `LSpec`); the trees of `MC_Launcher`, not `Patient`, `MaxFetches` 3, `MaxLeaves` 1**

| property | code | what it does | what is said |
| --- | --- | --- | --- |
| `ShownIsThere`, `LaunchedIsThere` | launch_dialog.rs:76 | a listing is shown whatever is selected when it comes | launchers.rs:18, as above |
| `TypedStays` | launch_dialog.rs:62 | a path resolved for an earlier listing replaces what was typed since | launch_dialog.rs:62 "so their input isn't overwritten" |

**Start of the command line program (`ProxyStart`, `Spec`)**

| property | instance | code | what it does | what is said |
| --- | --- | --- | --- | --- |
| `LastSessionRemembered` | one process without a token, in a directory without a session | proxy main.rs:520 | the login saves the copy of the config it was given, without the session resolved in between | main.rs:79 "By default, claude-portal resumes your last session in this directory" |
| `LastSessionRemembered` | three processes in two directories, `kill`, `MaxSessions` 4, no login | proxy config.rs:105 | the lock of a dead process is removed by path: two processes hold the lock, and one change is lost | config.rs:162 "This prevents race conditions when multiple proxy instances run in the same directory" |

**Session task (`AgentSession`); claude, 2 requests, 2 connections, 1 input, 2 iterations**

| property | instance | code | what it does | what is said |
| --- | --- | --- | --- | --- |
| `StopEndsAgent` (`FairSpec`) | `stop` | session.rs:635 | `stop` drops the command channel's sender and takes the I/O task's handle without waiting; a task that waits for the agent's output goes on with it | session.rs:633-634 "Dropping the command_tx will cause the I/O task to exit, which in turn will drop the client and terminate the process" |
| `TerminatedStaysAway` | `terminate` (also with `cut`) | proxy_session/mod.rs:710 | the notice of a termination races with the end of the socket in one select: if the latter is taken, the proxy reconnects | mod.rs:122 "Session was terminated by the server (do not reconnect)", endpoints.rs:201 |

**Views of a session (`Conversation`, `Spec`); one browser, `MAX_MESSAGES_PER_SESSION` 2, `MAX_ATTEMPTS` 1, one socket, no fault unless named**

| property | instance | code | what it does | what is said |
| --- | --- | --- | --- | --- |
| `DialogIsPending` | 2 browsers, 2 requests | permissions.rs:42 | the dialog of a request that was answered elsewhere stays open | PROTOCOL.md:221 "ensuring permissions aren't lost if the user refreshes" |
| `WaitingIsPending` | 2 browsers, 2 requests; or one, `parallel` | permissions.rs:110 | an answer deletes the session's row, which is a later request's by then | same |
| `ShownOnce` | 1 text message, 2 sockets, `cut` | component.rs:1398 | a live message gets the view's own time, and the replay asks for what is later than that | PROTOCOL.md:300 "to avoid duplicates" |
| `NothingMissed` | 1 text message, `overlap` | message_handlers.rs:161 | an output is broadcast before it is stored: a view that is added and loads the history in between gets neither | PROTOCOL.md:292 "Backend replays message history" |
| `TasksAreTrue` | 3 task messages | component.rs:363 | tasks are rebuilt from the last messages only: a task whose start is older is not shown after a reload | CHANGELOG.md:340 "Fix stale subagent entries persisting across page reloads" |
| `ActualSender` | 2 inputs, 2 "user" outputs, 1 or 2 browsers | message_handlers.rs:112 | an echo is attributed to whoever sent last | CHANGELOG.md:345 "store actual sender user_id in DB" |
| `OnlyConfirmedLeave` | 2 browsers, 2 inputs, 1 "user" output | component.rs:1390 | an echo of another user's input takes the oldest pending one away | component.rs:1387-1388 "remove the oldest pending send so it doesn't duplicate" |

**Uploads (`FileUpload`, `USpec`); `TotalChunks` 2, `MaxBreaks` 0, `Failing` {} unless named**

| property | instance | code | what it does | what is said |
| --- | --- | --- | --- | --- |
| `AnnouncedIsThere` | one upload | component.rs:815 | chunks and the announcement go through two channels of the proxy: the agent may be told first | component.rs:815 "I've uploaded the following files to your working directory" |
| `FilesAreBeginnings` | two uploads of one name | proxy_session/mod.rs:758 | both write the file, each at its own position: they are mixed | same |
| `FilesAreBeginnings` | one upload, `Failing` {"chunk"} | proxy_session/mod.rs:901 | a chunk that cannot be written is left out, and the upload goes on | same |

**Dashboard (`Dashboard`, `Spec`); sessions 1 to 3, 3 a scheduled task's, 1 and 2 connected, `MaxChanges` 1, `MaxEvents` 3, not `Batched` unless named**

| property | instance | code | what it does | what is said |
| --- | --- | --- | --- | --- |
| `NumberSelectsItsPill` (run `dashboard_number`) | 2 not connected | use_keyboard_nav.rs:205 | the keys count the connected sessions first, the rail does not | use_keyboard_nav.rs:50 "Numbers 1-9 select directly" |
| `FocusIsShown` | `ends`; `overtake`; `hide`; `early` with 1 and 3 connected, `Batched` | page.rs:427 | the focus is an index that a poll, a disconnection or an older answer leaves behind the list's end or on a session that is hidden | page.rs:179 "Disconnected sessions are completely hidden from the UI" |
| `FocusStays` | `early`, 1 and 3 connected | page.rs:201 | a session that is listed before the focused one shifts the focus to another | same |
| `AwaitingIsTrue` | `Batched`; or `ends`, `MaxChanges` 2 | page.rs:427 | of two callbacks between renders the second writes the set as it was before the first | same |
| `CountedIsListed` | `ends` | page.rs:427 | the mark of a session that is gone from the list is counted | same |
| `WaitingKeyFindsWaiting` | no change | use_keyboard_nav.rs:85 | the key goes to the next session that is not hidden, waiting or not | use_keyboard_nav.rs:51 "w -> next waiting session" |
| `ListIsNewest` | `overtake` | use_sessions.rs:60 | polls are answered in any order, and each answer replaces the list | same |

**Accounts and pages (`Panels`, `PSpec`); retention (`Retention`, `TSpec`; one session, a limit of 1, 2 messages, 2 deletions)**

| property | instance | code | what it does | what is said |
| --- | --- | --- | --- | --- |
| `AnAdminRemains` | two administrators, `MaxInFlight` 2 | admin.rs:352 | each may demote the other, and both are checked before either is stored | the check itself |
| `BannedHasNothing` | `MaxInFlight` 2 with a registration; the banned user's tokens page; `db_error` | proxy_tokens.rs:31, admin.rs | what the banned user asked for before is done after the tokens and sessions are gone; a failed step is not repeated | admin/mod.rs:704 "This will disable the user account and revoke all their access tokens" |
| `SessionHasOwner` | `db_error` | registration.rs:166 | the session's row stays when the member's insert fails | registration.rs |
| `ConnectedIsStored` | the list of one's own sessions | sessions.rs:105 | a session is deleted without a word to its proxy, which goes on without a row  |
| `PageIsTrue` | users, `hurry` and `cancel`; tokens, `hurry`; members, `hurry` | admin/mod.rs:321 | an answer is applied to the list as it was when the button was pressed | |
| `SecretWorks` | tokens, `hurry` | tokens_panel.rs:232 | of two renewals of a token the page may show the secret that the other one replaced | tokens_panel.rs:386 "Copy this token now" |
| `TruncationComes` | `pool` | main.rs:745 | the set is drained before there is a connection to truncate with | DEPLOYING.md:183 |
| `CostsCounted` | `overlap`; `db_error`; `again`; `new_agent` | helpers.rs:39 | costs are recorded and rows deleted by statements of their own, without a transaction | DATABASE.md:130 "so user spend totals remain accurate" |
| `ShownIsSpent` | `overlap` | db.rs:108 | sessions and deleted costs are read one after the other: a deletion in between is counted twice | same |
| `OnlyOldDeleted` | `overlap` | main.rs:768 | a session that became active since it was found old is deleted | main.rs:768 "Delete sessions whose last_activity is older than SESSION_MAX_AGE_DAYS" |
| `TokensCleaned` | `idle` | main.rs:796 | nothing is cleaned when no session was old | tokens_panel.rs:469 "Credentials expired for more than 7 days are automatically deleted." |

Met while reading, and not stated as a property: a program killed between making its
lock and writing its pid leaves an empty lock file (proxy config.rs:114); an approval
that fails late leaves a token's row that nobody has (device_flow.rs:799); a denial of
an approved code reports success (device_flow.rs:400).

## 14. What is not modelled

Within the modelled parts:

- Output path: contents, result metadata, branch and pull-request updates, images,
  the durations of the backoff. `persist` writes the whole state or nothing; an
  aborted task stops at once (in the code, at its next await).
- Registry: other columns, user lists, the truncation set (it is in `Retention`), the
  membership row (`Records`), the shutdown broadcast.
- Input path: echoes of slash commands, interrupts; senders of inputs are in
  `Conversation`.
- Scheduled tasks: creation of tasks, cron and time zones, the list of past runs, a
  restart of the launcher.
- Launcher's sessions: other fields of the config, arguments and names of sessions.
- Launcher link: development mode, the seven-day condition (a heartbeat may renew at
  any time), expiry of tokens, tokens given on the command line, the first login.
- Launch dialog: the agent and its arguments, hidden entries, names shorter than a
  whole one.
- Login: codes are taken to differ; what a browser's sign-in does elsewhere. Start: the
  backend's URL and the preferences in the config, an update's installation.
- Session task: what outputs and inputs say, their delivery (`OutputDelivery`,
  `InputDelivery`), their uploads.
- Views: messages of slash commands, costs and branches, voice, scrolling. Uploads: bytes
  and the progress bar. Dashboard: dialogs, costs, sparklines, sounds, the menu of the rail.
- Accounts: terms of tokens, statistics; pages: sorting, badges, the panels of launchers
  and sounds. Retention: one user, of a cost record its costs.

Parts without a module:

- Sign-in with cookies and JSON web tokens: an external provider and signatures; each
  request stands alone.
- Voice input: a stream to an external service and back.
- Message rendering: pure functions from messages to HTML.
- Sounds, launchers panel, schedule dialog, set-up pages: forms that read and write
  once; their requests are modelled where the backend handles them.
- Downloads and server configuration: files read on request.
- The terminal of `claude-portal`, the shim, sub-commands' output: pass-through.
- Installation of updates and of the launcher's service: downloads and file replacement.
- Message buffer and snapshots of `claude-session-lib`: kept for a snapshot that neither
  the proxy nor the launcher takes.
- Shared protocol types: serialized messages; each module has the ones it uses.

## 15. Plan

The parts with state that outlives a request have a module. What is left:

1. Compositions: `LauncherSessions` over `LauncherLink` (one connection for both);
   `InputDelivery` over `SessionRegistry`, its one-step registration shown to be
   implemented by the registry's steps when registrations do not overlap; an abstract
   life of a session that `AgentSession` and `OutputDelivery`'s `mode` implement.
2. Proofs, each in the module of proofs of the component next to it: `CostsCounted`
   (`Retention`); `GivenUpInTime` (`LauncherSessions`).
