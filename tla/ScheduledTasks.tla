--------------------------- MODULE ScheduledTasks ---------------------------
(***************************************************************************)
(* Scheduled tasks of one launcher: the scheduled_tasks table and its      *)
(* synchronization (scheduled_tasks.rs, launcher_socket.rs), the           *)
(* launcher's scheduler (scheduler.rs), the session tasks it spawns and    *)
(* stops (process_manager.rs), and the main loop that ties them together   *)
(* (launcher/src/connection.rs).                                           *)
(*                                                                         *)
(* A run is one firing of a task; runs are numbered. The session a run     *)
(* would create has the run's number, the one that replaces a session the  *)
(* agent does not know has a number above. Cron times are left open: a     *)
(* task that waits for its time may become due at any moment.              *)
(***************************************************************************)
EXTENDS Naturals, Sequences, FiniteSets

CONSTANTS
  Tasks,        \* the user's tasks on this host, numbers from 1
  Editors,      \* requests that may change tasks concurrently
  MaxRuns,      \* bound: runs fired
  MaxEdits,     \* bound: changes to tasks
  MaxConn,      \* bound: connections of the launcher
  max_sessions, \* the launcher's limit of session tasks
  Patient,      \* TRUE: no task becomes due while its launch is being answered
  Serial,       \* TRUE: the schedule is not loaded while a loaded one is unsent
  Faults        \* what may go wrong

ASSUME ScheduledTasksAssumption ==
  /\ Tasks \subseteq Nat \ {0}
  /\ 0 \notin Editors
  /\ MaxRuns \in Nat
  /\ MaxEdits \in Nat
  /\ MaxConn \in Nat
  /\ max_sessions \in Nat
  /\ {Patient, Serial} \subseteq BOOLEAN
  /\ Faults \subseteq {"mint", "stubborn", "not_found", "slow", "send"}

VARIABLES
  row,          \* scheduled_tasks: [task -> enabled, disabled or deleted]
  last_session, \* scheduled_tasks: [task -> last_session_id; 0 if none]
  sessions,     \* the sessions with a row
  job,          \* [request or connection -> its step towards a ScheduleSync]
  edits,        \* number of changes made
  link,         \* the launcher's connection
  conns,        \* number of connections opened
  to_launcher,  \* messages on it
  to_backend,
  known,        \* scheduler.tasks
  next_fire,    \* [task -> waiting for its time, due, or never]
  resume_id,    \* [task -> last_session_id as synchronized]
  fired,        \* number of runs fired
  run,          \* [run -> its task and the session it is to resume]
  launches,     \* scheduler.pending_launches: runs
  prompts,      \* scheduler.pending_prompts: runs
  running,      \* scheduler.running: [session -> task; 0 if none]
  tracked,      \* process_manager.tasks: [session -> run; 0 if none]
  exits,        \* exit_rx: sessions whose task ended
  proc          \* [run -> its session task]

table == <<row, last_session, sessions, edits>>
wire == <<link, conns, to_launcher, to_backend>>
schedule == <<known, next_fire, resume_id>>
started == <<fired, run>>
scheduler == <<schedule, started, launches, prompts, running>>
manager == <<tracked, exits, proc>>
vars == <<table, job, wire, scheduler, manager>>

Runs == 1..MaxRuns
Sessions == 1..(2 * MaxRuns)
Jobs == Editors \union {0}

Idle == [at |-> "idle", tasks |-> {}, last |-> [t \in Tasks |-> 0]]
Job == [at : {"idle", "load", "send"}, tasks : SUBSET Tasks,
        last : [Tasks -> {0} \union Sessions]]

\* ServerToLauncher and LauncherToServer
Launch(r) == [kind |-> "launch", run |-> r, tasks |-> {}, last |-> Idle.last]
ScheduleSync(j) == [kind |-> "sync", run |-> 0, tasks |-> j.tasks, last |-> j.last]
Message(kind, r, s) == [kind |-> kind, run |-> r, session |-> s]

\* A session task: [at] not spawned, running, registered with the backend or
\* over; the session it was spawned for, the one it has now; what became of its
\* prompt.
Unspawned == [at |-> "none", session |-> 0, now |-> 0, prompt |-> "none"]
Proc == [at : {"none", "starting", "registered", "over"},
         session : {0} \union Sessions, now : {0} \union Sessions,
         prompt : {"none", "stored", "dropped"}]

TypeOK ==
  /\ row \in [Tasks -> {"enabled", "disabled", "deleted"}]
  /\ last_session \in [Tasks -> {0} \union Sessions]
  /\ sessions \subseteq Sessions
  /\ job \in [Jobs -> Job]
  /\ edits \in 0..MaxEdits
  /\ link \in {"down", "open", "cut"}
  /\ conns \in 0..MaxConn
  /\ to_launcher \in Seq([kind : {"launch", "sync"}, run : {0} \union Runs,
                          tasks : SUBSET Tasks, last : [Tasks -> {0} \union Sessions]])
  /\ to_backend \in Seq([kind : {"request", "started", "inject", "completed"},
                         run : {0} \union Runs, session : {0} \union Sessions])
  /\ known \subseteq Tasks
  /\ next_fire \in [Tasks -> {"never", "waiting", "due"}]
  /\ resume_id \in [Tasks -> {0} \union Sessions]
  /\ fired \in 0..MaxRuns
  /\ run \in [Runs -> [task : {0} \union Tasks, resume : {0} \union Sessions]]
  /\ launches \subseteq Runs
  /\ prompts \subseteq Runs
  /\ running \in [Sessions -> {0} \union Tasks]
  /\ tracked \in [Sessions -> {0} \union Runs]
  /\ exits \in Seq(Sessions)
  /\ proc \in [Runs -> Proc]

Init ==
  /\ row \in [Tasks -> {"enabled", "disabled"}]
  /\ last_session = [t \in Tasks |-> 0]
  /\ sessions = {}
  /\ job = [j \in Jobs |-> Idle]
  /\ edits = 0
  /\ link = "down" /\ conns = 0
  /\ to_launcher = <<>> /\ to_backend = <<>>
  /\ known = {}
  /\ next_fire = [t \in Tasks |-> "never"]
  /\ resume_id = [t \in Tasks |-> 0]
  /\ fired = 0
  /\ run = [r \in Runs |-> [task |-> 0, resume |-> 0]]
  /\ launches = {} /\ prompts = {}
  /\ running = [s \in Sessions |-> 0]
  /\ tracked = [s \in Sessions |-> 0]
  /\ exits = <<>>
  /\ proc = [r \in Runs |-> Unspawned]

Elements(q) == {q[i] : i \in DOMAIN q}

RunningTasks == {running[s] : s \in Sessions} \ {0}

-----------------------------------------------------------------------------
(* The backend: changes to tasks, and the launcher's socket.                *)

Enabled == {t \in Tasks : row[t] = "enabled"}

\* update_task_handler, delete_task_handler: the row changes ...
EditTask(e, t) ==
  /\ edits < MaxEdits /\ job[e].at = "idle" /\ row[t] # "deleted"
  /\ \E v \in {"enabled", "disabled", "deleted"} : row' = [row EXCEPT ![t] = v]
  /\ edits' = edits + 1
  /\ job' = [job EXCEPT ![e] = [Idle EXCEPT !.at = "load"]]
  /\ UNCHANGED <<last_session, sessions, wire, scheduler, manager>>

\* ... then send_schedule_sync loads the enabled tasks, as the launcher's socket
\* does after registration, when it sends them only if there are any ...
LoadTasks(j) ==
  /\ job[j].at = "load"
  /\ Serial => \A i \in Jobs : job[i].at # "send"
  /\ job' = [job EXCEPT ![j] =
       IF j = 0 /\ Enabled = {}
       THEN Idle
       ELSE [at |-> "send", tasks |-> Enabled, last |-> last_session]]
  /\ UNCHANGED <<table, wire, scheduler, manager>>

\* ... and sends them to the launcher if it is registered.
SendSync(j) ==
  /\ job[j].at = "send"
  /\ to_launcher' = IF link = "open" THEN Append(to_launcher, ScheduleSync(job[j]))
                                     ELSE to_launcher
  /\ job' = [job EXCEPT ![j] = Idle]
  /\ UNCHANGED <<table, link, conns, to_backend, scheduler, manager>>

\* handle_launcher_message
ReceiveRequest ==
  /\ to_backend # <<>> /\ Head(to_backend).kind = "request"
  /\ \/ to_launcher' = IF link = "open"
                       THEN Append(to_launcher, Launch(Head(to_backend).run))
                       ELSE to_launcher
     \/ "mint" \in Faults /\ UNCHANGED to_launcher
  /\ to_backend' = Tail(to_backend)
  /\ UNCHANGED <<table, job, link, conns, scheduler, manager>>

\* last_session_id refers to a row of sessions: the update of a task with a
\* session that has none fails, and the deletion of the row sets it to NULL.
ReceiveStarted ==
  /\ to_backend # <<>> /\ Head(to_backend).kind = "started"
  /\ LET m == Head(to_backend)
         t == run[m.run].task
     IN  last_session' = IF row[t] = "deleted" \/ m.session \notin sessions
                         THEN last_session
                         ELSE [last_session EXCEPT ![t] = m.session]
  /\ to_backend' = Tail(to_backend)
  /\ UNCHANGED <<row, sessions, edits, job, link, conns, to_launcher, scheduler,
                 manager>>

\* An input for a session without a row has no number and is dropped.
ReceiveInject ==
  /\ to_backend # <<>> /\ Head(to_backend).kind = "inject"
  /\ LET m == Head(to_backend)
     IN  proc' = [proc EXCEPT ![m.run] =
                    [@ EXCEPT !.prompt = IF m.session \in sessions THEN "stored"
                                                                   ELSE "dropped"]]
  /\ to_backend' = Tail(to_backend)
  /\ UNCHANGED <<table, job, link, conns, to_launcher, scheduler, tracked, exits>>

ReceiveCompleted ==
  /\ to_backend # <<>> /\ Head(to_backend).kind = "completed"
  /\ LET s == Head(to_backend).session
     IN  /\ sessions' = sessions \ {s}
         /\ last_session' = [t \in Tasks |->
              IF last_session[t] = s THEN 0 ELSE last_session[t]]
  /\ to_backend' = Tail(to_backend)
  /\ UNCHANGED <<row, edits, job, link, conns, to_launcher, scheduler, manager>>

-----------------------------------------------------------------------------
(* The launcher's connection.                                               *)

\* A registration that is accepted, the backend being done with the previous
\* connection; the socket then goes on to the sync.
Connect ==
  /\ link = "down" /\ conns < MaxConn
  /\ to_backend = <<>>
  /\ job[0].at = "idle"
  /\ link' = "open"
  /\ conns' = conns + 1
  /\ to_launcher' = <<>>
  /\ job' = [job EXCEPT ![0] = [Idle EXCEPT !.at = "load"]]
  /\ UNCHANGED <<table, to_backend, scheduler, manager>>

\* The connection is lost with what is on its way; of that the backend may have
\* got a part.
LinkCut ==
  /\ link = "open" /\ conns < MaxConn
  /\ link' = "cut"
  /\ to_launcher' = <<>>
  /\ \E k \in 0..Len(to_backend) : to_backend' = SubSeq(to_backend, 1, k)
  /\ UNCHANGED <<table, job, conns, scheduler, manager>>

Disconnect ==
  /\ link = "cut"
  /\ link' = "down"
  /\ UNCHANGED <<table, job, conns, to_launcher, to_backend, scheduler, manager>>

\* What is sent on a connection that is lost goes nowhere.
Send(msgs) ==
  to_backend' = IF link = "open" THEN to_backend \o msgs ELSE to_backend

-----------------------------------------------------------------------------
(* The launcher's main loop.                                                *)

Received(kind) == link = "open" /\ to_launcher # <<>> /\ Head(to_launcher).kind = kind

\* A mutated form of UpdateTasks: tasks that are no longer sent stay.
UpdateKeepMutant ==
  /\ Received("sync")
  /\ LET m == Head(to_launcher)
     IN  /\ known' = known \union m.tasks
         /\ next_fire' = [t \in Tasks |->
              IF t \in m.tasks /\ t \notin RunningTasks THEN "waiting"
              ELSE next_fire[t]]
         /\ resume_id' = m.last
  /\ to_launcher' = Tail(to_launcher)
  /\ UNCHANGED <<table, job, link, conns, to_backend, started, launches, prompts,
                 running, manager>>

\* update_tasks: a task that is running gets no time.
UpdateTasks ==
  /\ Received("sync")
  /\ LET m == Head(to_launcher)
     IN  /\ known' = m.tasks
         /\ next_fire' = [t \in Tasks |->
              IF t \in m.tasks /\ t \notin RunningTasks THEN "waiting" ELSE "never"]
         /\ resume_id' = [t \in Tasks |-> IF t \in m.tasks THEN m.last[t] ELSE 0]
  /\ to_launcher' = Tail(to_launcher)
  /\ UNCHANGED <<table, job, link, conns, to_backend, started, launches, prompts,
                 running, manager>>

\* A launch of the task is on its way to the backend or back.
Asked(t) ==
  \E m \in Elements(to_backend) \union Elements(to_launcher) :
    m.kind \in {"request", "launch"} /\ run[m.run].task = t

\* The time of a task comes.
TimeComes(t) ==
  /\ next_fire[t] = "waiting" /\ fired < MaxRuns
  /\ Patient => ~Asked(t)
  /\ next_fire' = [next_fire EXCEPT ![t] = "due"]
  /\ UNCHANGED <<table, job, wire, known, resume_id, started, launches, prompts,
                 running, manager>>

\* A mutated form of Overlaps: no task is skipped.
OverlapsNothingMutant(t) == FALSE

Overlaps(t) == t \in RunningTasks

\* fire_due_tasks, for one task: tasks due together fire one after the other.
FireDue(t) ==
  /\ link # "down" /\ next_fire[t] = "due"
  /\ next_fire' = [next_fire EXCEPT ![t] = "waiting"]
  /\ IF Overlaps(t)
     THEN UNCHANGED <<started, launches, to_backend>>
     ELSE /\ fired < MaxRuns
          /\ fired' = fired + 1
          /\ run' = [run EXCEPT ![fired + 1] = [task |-> t, resume |-> resume_id[t]]]
          /\ launches' = launches \union {fired + 1}
          /\ Send(<<Message("request", fired + 1, 0)>>)
  /\ UNCHANGED <<table, job, link, conns, to_launcher, known, resume_id, prompts,
                 running, manager>>

\* get_pending_launch_info: the task a request is for.
TaskOf(r) == run[r].task

\* A mutated form of LaunchSession: nobody notes the prompt.
LaunchSilentMutant ==
  /\ Received("launch")
  /\ LET r == Head(to_launcher).run
         s == IF run[r].resume # 0 THEN run[r].resume ELSE r
     IN  /\ launches' = launches \ {r}
         /\ proc' = [proc EXCEPT ![r] =
              [at |-> "starting", session |-> s, now |-> s, prompt |-> "none"]]
         /\ tracked' = [tracked EXCEPT ![s] = r]
         /\ running' = [running EXCEPT ![s] = TaskOf(r)]
  /\ to_launcher' = Tail(to_launcher)
  /\ UNCHANGED <<table, job, link, conns, to_backend, schedule, started, prompts,
                 exits>>

\* LaunchSession: a session task is spawned for the session to resume or a new
\* one, unless there are as many as may be.
LaunchSession ==
  /\ Received("launch")
  /\ LET r == Head(to_launcher).run
         s == IF run[r].resume # 0 THEN run[r].resume ELSE r
     IN  /\ launches' = launches \ {r}
         /\ IF Cardinality({x \in Sessions : tracked[x] # 0}) >= max_sessions
            THEN UNCHANGED <<proc, tracked, running, prompts>>
            ELSE /\ proc' = [proc EXCEPT ![r] =
                      [at |-> "starting", session |-> s, now |-> s, prompt |-> "none"]]
                 /\ tracked' = [tracked EXCEPT ![s] = r]
                 /\ running' = [running EXCEPT ![s] = TaskOf(r)]
                 /\ prompts' = prompts \union {r}
  /\ to_launcher' = Tail(to_launcher)
  /\ UNCHANGED <<table, job, link, conns, to_backend, schedule, started, exits>>

\* A mutated form of SendPrompt: the prompt is sent at once.
SendEarlyMutant(r) ==
  /\ link # "down" /\ r \in prompts
  /\ prompts' = prompts \ {r}
  /\ Send(<<Message("started", r, proc[r].session),
            Message("inject", r, proc[r].session)>>)
  /\ UNCHANGED <<table, job, link, conns, to_launcher, schedule, started, launches,
                 running, manager>>

\* A prompt is sent five seconds after the spawn, by when the session is
\* expected to be registered.
SendPrompt(r) ==
  /\ link # "down" /\ r \in prompts
  /\ "slow" \in Faults \/ proc[r].at # "starting"
  /\ prompts' = prompts \ {r}
  /\ Send(<<Message("started", r, proc[r].session),
            Message("inject", r, proc[r].session)>>)
  /\ UNCHANGED <<table, job, link, conns, to_launcher, schedule, started, launches,
                 running, manager>>

\* A session task ended: it is forgotten and reported.
SessionExited ==
  /\ link # "down" /\ exits # <<>>
  /\ LET s == Head(exits)
     IN  /\ tracked' = [tracked EXCEPT ![s] = 0]
         /\ running' = [running EXCEPT ![s] = 0]
         /\ prompts' = {r \in prompts : proc[r].session # s}
         /\ Send(IF running[s] # 0 THEN <<Message("completed", 0, s)>> ELSE <<>>)
  /\ exits' = Tail(exits)
  /\ UNCHANGED <<table, job, link, conns, to_launcher, schedule, started, launches,
                 proc>>

\* The report cannot be sent: the loop is left before the scheduler hears of it.
ReportFails ==
  /\ "send" \in Faults
  /\ link = "cut" /\ exits # <<>>
  /\ tracked' = [tracked EXCEPT ![Head(exits)] = 0]
  /\ exits' = Tail(exits)
  /\ link' = "down"
  /\ UNCHANGED <<table, job, conns, to_launcher, to_backend, scheduler, proc>>

\* stop: a session past its time, or one the user stops. A session task that
\* does not stop in time is aborted and reports nothing.
Stop(s) ==
  /\ link # "down" /\ tracked[s] # 0
  /\ tracked' = [tracked EXCEPT ![s] = 0]
  /\ LET r == tracked[s]
     IN  IF proc[r].at = "over" THEN UNCHANGED <<proc, exits>>
         ELSE /\ proc' = [proc EXCEPT ![r] = [@ EXCEPT !.at = "over"]]
              /\ \/ exits' = Append(exits, s)
                 \/ "stubborn" \in Faults /\ UNCHANGED exits
  /\ UNCHANGED <<table, job, wire, scheduler>>

-----------------------------------------------------------------------------
(* The session tasks.                                                       *)

\* The proxy registers its session with the backend.
Register(r) ==
  /\ proc[r].at = "starting"
  /\ proc' = [proc EXCEPT ![r] = [@ EXCEPT !.at = "registered"]]
  /\ sessions' = sessions \union {proc[r].now}
  /\ UNCHANGED <<row, last_session, edits, job, wire, scheduler, tracked, exits>>

\* The agent does not know the session to resume: the task goes on with a new one.
Replace(r) ==
  /\ "not_found" \in Faults
  /\ proc[r].at \in {"starting", "registered"}
  /\ proc[r].now = run[r].resume
  /\ proc' = [proc EXCEPT ![r] = [@ EXCEPT !.at = "starting", !.now = MaxRuns + r]]
  /\ UNCHANGED <<table, job, wire, scheduler, tracked, exits>>

Exit(r) ==
  /\ proc[r].at \in {"starting", "registered"}
  /\ proc' = [proc EXCEPT ![r] = [@ EXCEPT !.at = "over"]]
  /\ exits' = Append(exits, proc[r].session)
  /\ UNCHANGED <<table, job, wire, scheduler, tracked>>

-----------------------------------------------------------------------------
Backend ==
  \/ \E j \in Jobs : LoadTasks(j) \/ SendSync(j)
  \/ ReceiveRequest \/ ReceiveStarted \/ ReceiveInject \/ ReceiveCompleted

Launcher ==
  \/ Connect \/ Disconnect \/ UpdateTasks \/ LaunchSession \/ SessionExited
  \/ ReportFails
  \/ \E t \in Tasks : FireDue(t)
  \/ \E r \in Runs : SendPrompt(r)

Next ==
  \/ Backend \/ Launcher \/ LinkCut
  \/ \E e \in Editors, t \in Tasks : EditTask(e, t)
  \/ \E t \in Tasks : TimeComes(t)
  \/ \E s \in Sessions : Stop(s)
  \/ \E r \in Runs : Register(r) \/ Replace(r) \/ Exit(r)

Spec == Init /\ [][Next]_vars

\* The sockets and every arm of the main loop's select run on, times come, sessions
\* register. A session task need not end.
Fairness ==
  /\ WF_vars(Backend)
  /\ WF_vars(Connect) /\ WF_vars(Disconnect)
  /\ WF_vars(UpdateTasks) /\ WF_vars(LaunchSession) /\ WF_vars(SessionExited)
  /\ \A t \in Tasks : WF_vars(TimeComes(t)) /\ WF_vars(FireDue(t))
  /\ \A r \in Runs : WF_vars(Register(r)) /\ WF_vars(SendPrompt(r))

FairSpec == Spec /\ Fairness

-----------------------------------------------------------------------------
(* Properties.                                                              *)

Alive(r) == proc[r].at \in {"starting", "registered"}

\* "Skip if running": never two session tasks of a scheduled task at a time.
NoOverlap ==
  \A r, q \in Runs : Alive(r) /\ Alive(q) /\ run[r].task = run[q].task => r = q

\* A session task that runs is one the launcher can stop and counts.
AliveIsTracked == \A r \in Runs : Alive(r) => tracked[proc[r].session] = r

\* Whatever goes wrong, both: no two session tasks of a scheduled task at a time,
\* and each one that runs can be stopped.
OneTrackedTask == NoOverlap /\ AliveIsTracked

\* What the scheduler takes for running is, or its end is to be heard of: else
\* the task would be skipped forever.
RunningIsAlive ==
  \A s \in Sessions : running[s] # 0 =>
    s \in Elements(exits) \/ \E r \in Runs : Alive(r) /\ proc[r].session = s

\* A task on the schedule that is not running has a time to fire.
TimedOrRunning == \A t \in known : next_fire[t] # "never" \/ t \in RunningTasks

\* With all changes delivered the launcher's schedule is what the table says.
ScheduleFollowsTable ==
  (/\ link = "open"
   /\ \A j \in Jobs : job[j].at = "idle"
   /\ \A m \in Elements(to_launcher) : m.kind # "sync")
     => known = Enabled

\* The prompt of a run that lasts is stored, for the session the run has.
PromptReachesRun ==
  \A r \in Runs : Alive(r) =>
    /\ proc[r].prompt # "dropped"
    /\ proc[r].prompt = "stored" => proc[r].now = proc[r].session

\* Tasks "resume the same Claude session across runs": a run fired after one
\* that got its prompt is to resume a session.
RunsResume ==
  \A r, q \in Runs :
    (r < q /\ q <= fired /\ run[r].task = run[q].task /\ proc[r].prompt = "stored")
      => run[q].resume # 0

\* As long as no task becomes due while its launch is being answered: where every
\* end is reported, what the scheduler takes for running is, or its end is to be
\* heard of; and where sessions register in time and the agent knows the session
\* to resume, the prompt of a run that lasts is stored, for the session the run has.
OrderlyRunsArePrompted ==
  /\ Patient /\ {"stubborn", "send"} \cap Faults = {} => RunningIsAlive
  /\ Patient /\ {"slow", "not_found"} \cap Faults = {} => PromptReachesRun

\* On the first connection, with changes sent in the order they were loaded, the
\* launcher's schedule follows the table.
OrderlyScheduleFollows == Serial /\ MaxConn = 1 => ScheduleFollowsTable

\* A run that was fired gets its prompt, ends, or is refused.
RunIsSettled ==
  \A r \in Runs :
    (r <= fired) ~> \/ proc[r].prompt = "stored" \/ proc[r].at = "over"
                    \/ (r \notin launches /\ proc[r].at = "none")

\* When no session task runs for good and a task stays enabled, runs keep being
\* fired; unless a sync during a run left a task without a time.
KeepsFiring ==
  (/\ <>[](Enabled # {}) /\ []TimedOrRunning
   /\ \A r \in Runs : []<>~Alive(r)) => <>(fired = MaxRuns)

\* Both: a run that was fired is settled in the end, and the scheduler fires on as long
\* as it has tasks, where nothing goes wrong.
OrderlyRunsProgress == RunIsSettled /\ KeepsFiring
=============================================================================
