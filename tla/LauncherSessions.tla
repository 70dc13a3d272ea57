-------------------------- MODULE LauncherSessions --------------------------
(***************************************************************************)
(* The sessions a launcher is expected to run: its config file (config.rs), *)
(* what it launches after a connection and restarts after a failure         *)
(* (connection.rs), the session tasks (process_manager.rs), and launches    *)
(* and stops by the user (launchers.rs, sessions.rs, launcher_socket.rs).   *)
(*                                                                         *)
(* Tasks are numbered in the order they are spawned. Task n gets session n  *)
(* when it is given none to resume; a session that replaces the one it was  *)
(* to resume is MaxTasks + n. Runs of the scheduler occur only as tasks in  *)
(* the same directories; see ScheduledTasks for the rest of them.           *)
(***************************************************************************)
EXTENDS Naturals, Sequences, FiniteSets, SequencesExt

CONSTANTS
  Dirs,                  \* working directories
  Configured,            \* the config's sessions at first, without an id
  max_sessions,          \* the launcher's limit
  MAX_RESTART_ATTEMPTS,
  MaxTasks,              \* bound: tasks spawned
  MaxLinks,              \* bound: connections
  MaxLaunches,           \* bound: launches by the user
  MishapSets             \* what may go wrong: sets of "fail" (tasks do), "race" (also when they are told
                         \* to end), "not_found", "stubborn", "cut", "unsent" (a report that
                         \* cannot be sent), "overlap" (of connections), "crash", "login",
                         \* "mint", "gone" (a directory), "scheduled" (runs in the directories),
                         \* "twice" (the user launches where something runs)

ASSUME LauncherSessionsAssumption ==
  /\ IsFiniteSet(Dirs) /\ "none" \notin Dirs /\ Configured \subseteq Dirs
  /\ MaxTasks \in Nat /\ MaxLinks \in Nat

VARIABLES
  mishaps,            \* one of MishapSets
  configured,         \* the config's sessions: a function from directories to ids
  login,              \* what `agent-portal login` has read of it
  daemon,             \* the launcher: "up" or "down"
  expected_sessions,  \* as configured, in the launcher
  restart_counts,     \* [directory -> failures on this connection]
  delayed,            \* [directory -> restarts that wait for RESTART_DELAY]
  tasks,              \* process_manager.tasks: a function from ids to tasks
  task,               \* [task -> what there is of it]
  spawned,            \* number of tasks
  exit_rx,            \* SessionExited of tasks, in the order they ended
  socket,               \* the connection to the backend
  links,              \* number of connections
  requests,           \* RequestLaunch on their way to the backend
  commands,           \* messages on their way to the launcher
  running_sessions,   \* the ids of the last heartbeat at the backend
  wish                \* [directory -> what the user asked for last, how often she launched
                      \* and how often it failed since]

file == <<configured, login>>
memory == <<daemon, expected_sessions>>
restarts == <<restart_counts, delayed>>
manager == <<tasks, task, spawned, exit_rx>>
line == <<socket, links, requests, commands, running_sessions>>
svars == <<file, memory, restarts, manager, line, wish>>

TaskNumbers == 1..MaxTasks
Ids == 1..(2 * MaxTasks)

Empty == [d \in {} |-> 0]
With(f, x, v) == [y \in DOMAIN f \union {x} |-> IF y = x THEN v ELSE f[y]]
Without(f, x) == Restrict(f, DOMAIN f \ {x})

\* A session task: its directory, the id it is known by and the session it has
\* now, and whether that is one it resumes.
Unspawned == [at |-> "none", dir |-> "none", id |-> 0, now |-> 0,
              resume |-> FALSE, scheduled |-> FALSE]
Alive(n) == task[n].at \in {"up", "told"}

\* LauncherToServer::RequestLaunch, ServerToLauncher::LaunchSession, StopSession
Launch(d, scheduled) == [kind |-> "launch", dir |-> d, id |-> 0, scheduled |-> scheduled]
StopSession(id) == [kind |-> "stop", dir |-> "none", id |-> id, scheduled |-> FALSE]

\* SessionExited
Exited(n, code) == [id |-> task[n].id, code |-> code]

SInit ==
  /\ mishaps \in MishapSets
  /\ configured = [d \in Configured |-> 0]
  /\ login = [reading |-> FALSE, sessions |-> Empty]
  /\ daemon = "down" /\ expected_sessions = Empty
  /\ restart_counts = [d \in Dirs |-> 0] /\ delayed = [d \in Dirs |-> 0]
  /\ tasks = Empty /\ task = [n \in TaskNumbers |-> Unspawned] /\ spawned = 0
  /\ exit_rx = <<>>
  /\ socket = "down" /\ links = 0
  /\ requests = <<>> /\ commands = <<>> /\ running_sessions = {}
  /\ wish = [d \in Dirs |-> [of |-> "none", launches |-> 0, failures |-> 0]]

-----------------------------------------------------------------------------
(* The config file (config.rs). What is not found or cannot be written is   *)
(* only logged.                                                             *)

\* add_session
Add(sessions, d, id) == IF d \in DOMAIN sessions THEN sessions ELSE With(sessions, d, id)

\* update_session_id
Update(sessions, d, id) == IF d \in DOMAIN sessions THEN [sessions EXCEPT ![d] = id]
                                                    ELSE sessions

\* save_auth_token of `agent-portal login`, in another process: it writes the
\* sessions back as it read them.
LoginLoads ==
  /\ "login" \in mishaps /\ ~login.reading
  /\ login' = [reading |-> TRUE, sessions |-> configured]
  /\ UNCHANGED <<configured, memory, restarts, manager, line, wish>>

LoginSaves ==
  /\ login.reading
  /\ configured' = login.sessions
  /\ login' = [reading |-> FALSE, sessions |-> Empty]
  /\ UNCHANGED <<memory, restarts, manager, line, wish>>

-----------------------------------------------------------------------------
(* The launcher: process and connection.                                    *)

\* The process starts with the sessions of its config, and no tasks.
StartLauncher ==
  /\ daemon = "down"
  /\ daemon' = "up"
  /\ expected_sessions' = configured
  /\ UNCHANGED <<file, restarts, manager, line, wish>>

\* A process that dies takes its tasks along, and what is sent to it or asked by
\* it is nobody's: the next one has another launcher_id.
Crash ==
  /\ "crash" \in mishaps /\ daemon = "up" /\ links < MaxLinks
  /\ daemon' = "down"
  /\ expected_sessions' = Empty
  /\ tasks' = Empty
  /\ task' = [n \in TaskNumbers |-> IF Alive(n) THEN [task[n] EXCEPT !.at = "over"] ELSE task[n]]
  /\ exit_rx' = <<>>
  /\ socket' = "down"
  /\ requests' = <<>> /\ commands' = <<>> /\ running_sessions' = {}
  /\ delayed' = [d \in Dirs |-> 0]
  /\ UNCHANGED <<file, restart_counts, spawned, links, wish>>

\* running_directories
RunningDirectories == {task[tasks[id]].dir : id \in DOMAIN tasks}

\* A mutated form of Missing: only the first connection launches them.
MissingMutant == IF links = 0 THEN DOMAIN expected_sessions ELSE {}

\* The expected sessions that are to be launched after a registration.
Missing == DOMAIN expected_sessions \ RunningDirectories

\* A registration that is accepted. Unless connections overlap, the backend is
\* done with the one before; else it still answers what was asked on that one.
Register ==
  /\ daemon = "up" /\ socket = "down" /\ links < MaxLinks
  /\ "overlap" \in mishaps \/ requests = <<>>
  /\ socket' = "open" /\ links' = links + 1
  /\ restart_counts' = [d \in Dirs |-> 0]
  /\ requests' = requests \o [i \in 1..Cardinality(Missing) |->
                                Launch(SetToSeq(Missing)[i], FALSE)]
  /\ commands' = <<>> /\ running_sessions' = {}
  /\ UNCHANGED <<file, memory, delayed, manager, wish>>

\* The connection is lost, with what is on its way to the launcher, and part of
\* what is on its way to the backend.
WireCut ==
  /\ "cut" \in mishaps /\ socket = "open" /\ links < MaxLinks
  /\ socket' = "cut"
  /\ commands' = <<>> /\ running_sessions' = {}
  /\ \E k \in 0..Len(requests) : requests' = SubSeq(requests, 1, k)
  /\ UNCHANGED <<file, memory, restarts, manager, links, wish>>

\* The loop ends, and with it the channel of the delayed restarts.
LoopEnds ==
  /\ socket = "cut"
  /\ socket' = "down"
  /\ delayed' = [d \in Dirs |-> 0]
  /\ UNCHANGED <<file, memory, restart_counts, manager, links, requests, commands,
                 running_sessions, wish>>

Heartbeat ==
  /\ socket = "open" /\ running_sessions # DOMAIN tasks
  /\ running_sessions' = DOMAIN tasks
  /\ UNCHANGED <<file, memory, restarts, manager, socket, links, requests, commands, wish>>

\* What is sent on a connection that is lost goes nowhere.
Request(d, scheduled) ==
  requests' = IF socket = "open" THEN Append(requests, Launch(d, scheduled)) ELSE requests

-----------------------------------------------------------------------------
(* The launcher: tasks.                                                     *)

Received(kind) == socket = "open" /\ commands # <<>> /\ Head(commands).kind = kind

\* spawn refuses a directory that is not there, and too many sessions.
Refuses(d) == Cardinality(DOMAIN tasks) >= max_sessions
Spawned(d, scheduled) ==
  LET known == ~scheduled /\ d \in DOMAIN expected_sessions /\ expected_sessions[d] # 0
      id == IF known THEN expected_sessions[d] ELSE spawned + 1
  IN  [at |-> "up", dir |-> d, id |-> id, now |-> id, resume |-> known,
       scheduled |-> scheduled]

\* A mutated form of Remembered: only the first session of a directory is kept.
RememberedMutant(sessions, d, id) == Add(sessions, d, id)

\* Of an expected session the id is updated; another one is added.
Remembered(sessions, d, id) == Update(Add(sessions, d, id), d, id)

\* LaunchSession: a task is spawned for the session that is expected in the
\* directory, or for a new one. An entry of the same id is replaced.
LaunchSession ==
  /\ Received("launch") /\ spawned < MaxTasks
  /\ LET d == Head(commands).dir
         t == Spawned(d, Head(commands).scheduled)
     IN  \/ /\ Refuses(d) \/ "gone" \in mishaps
            /\ UNCHANGED <<tasks, task, spawned, expected_sessions, configured>>
         \/ /\ ~Refuses(d)
            /\ spawned' = spawned + 1
            /\ task' = [task EXCEPT ![spawned + 1] = t]
            /\ tasks' = With(tasks, t.id, spawned + 1)
            /\ IF t.scheduled
               THEN UNCHANGED <<expected_sessions, configured>>
               ELSE /\ expected_sessions' = Remembered(expected_sessions, d, t.id)
                    /\ configured' = IF d \in DOMAIN expected_sessions
                                     THEN Update(configured, d, t.id)
                                     ELSE Add(configured, d, t.id)
  /\ commands' = Tail(commands)
  /\ UNCHANGED <<login, daemon, restarts, exit_rx, socket, links, requests, running_sessions, wish>>

\* stop: the task is cancelled; one that does not end in time is aborted and
\* reports nothing.
Stopped(id) ==
  LET n == tasks[id]
  IN  /\ tasks' = Without(tasks, id)
      /\ task' = [task EXCEPT ![n].at = "over"]
      /\ IF ~Alive(n) THEN UNCHANGED exit_rx
         ELSE \/ exit_rx' = Append(exit_rx, Exited(n, 0))
              \/ "stubborn" \in mishaps /\ UNCHANGED exit_rx

Forgotten(d) ==
  /\ expected_sessions' = Without(expected_sessions, d)
  /\ configured' = Without(configured, d)

\* StopSession
ReceiveStop ==
  /\ Received("stop")
  /\ LET id == Head(commands).id
     IN  IF id \in DOMAIN tasks
         THEN Stopped(id) /\ Forgotten(task[tasks[id]].dir)
         ELSE UNCHANGED <<tasks, task, exit_rx, expected_sessions, configured>>
  /\ commands' = Tail(commands)
  /\ UNCHANGED <<login, daemon, restarts, spawned, socket, links, requests, running_sessions, wish>>

\* A scheduled session that runs for too long is stopped.
TimedOut(id) ==
  /\ socket # "down" /\ id \in DOMAIN tasks /\ task[tasks[id]].scheduled
  /\ Stopped(id)
  /\ UNCHANGED <<file, memory, restarts, spawned, line, wish>>

RestartsAgain(d) == restart_counts[d] < MAX_RESTART_ATTEMPTS

\* What a task leaves that ended in a directory: a clean exit takes the
\* directory off the expected ones; a failure restarts it, a few times.
AfterExit(d, code) ==
  CASE d # "none" /\ code = 0 -> Forgotten(d) /\ UNCHANGED <<restarts, wish>>
    [] d # "none" /\ code # 0 /\ d \in DOMAIN expected_sessions ->
         /\ restart_counts' = [restart_counts EXCEPT ![d] = @ + 1]
         /\ wish' = [wish EXCEPT ![d].failures = @ + 1]
         /\ IF RestartsAgain(d)
            THEN /\ delayed' = [delayed EXCEPT ![d] = @ + 1]
                 /\ UNCHANGED <<expected_sessions, configured>>
            ELSE Forgotten(d) /\ UNCHANGED delayed
    [] OTHER -> UNCHANGED <<restarts, expected_sessions, configured, wish>>

\* A task that ended is reported and no longer tracked. If the report cannot be
\* sent the loop ends, and that is all.
SessionExited ==
  /\ socket # "down" /\ exit_rx # <<>>
  /\ LET e == Head(exit_rx)
         d == IF e.id \in DOMAIN tasks THEN task[tasks[e.id]].dir ELSE "none"
     IN  /\ tasks' = Without(tasks, e.id)
         /\ \/ AfterExit(d, e.code) /\ UNCHANGED socket
            \/ /\ "unsent" \in mishaps /\ socket = "cut"
               /\ socket' = "down"
               /\ delayed' = [x \in Dirs |-> 0]
               /\ UNCHANGED <<restart_counts, expected_sessions, configured, wish>>
  /\ exit_rx' = Tail(exit_rx)
  /\ UNCHANGED <<login, daemon, task, spawned, links, requests, commands, running_sessions>>

\* A delayed restart asks the backend.
DelayedRestart(d) ==
  /\ socket # "down" /\ delayed[d] > 0
  /\ delayed' = [delayed EXCEPT ![d] = @ - 1]
  /\ Request(d, FALSE)
  /\ UNCHANGED <<file, memory, restart_counts, manager, socket, links, commands,
                 running_sessions, wish>>

\* A task of the scheduler comes due in a directory.
ScheduledLaunch(d) ==
  /\ "scheduled" \in mishaps /\ socket # "down" /\ spawned < MaxTasks
  /\ \A m \in ToSet(requests) \union ToSet(commands) : ~m.scheduled
  /\ \A n \in TaskNumbers : Alive(n) => ~task[n].scheduled
  /\ Request(d, TRUE)
  /\ UNCHANGED <<file, memory, restarts, manager, socket, links, commands, running_sessions, wish>>

-----------------------------------------------------------------------------
(* The session tasks.                                                       *)

\* A task ends: it is told to, its agent ends, or something fails.
TaskEnds(n) ==
  /\ Alive(n)
  /\ \E code \in {0, 1} :
       /\ code = 1 => "fail" \in mishaps /\ (task[n].at = "told" => "race" \in mishaps)
       /\ exit_rx' = Append(exit_rx, Exited(n, code))
  /\ task' = [task EXCEPT ![n].at = "over"]
  /\ UNCHANGED <<file, memory, restarts, tasks, spawned, line, wish>>

\* The agent does not know the session to resume: a fresh one replaces it.
Replace(n) ==
  /\ "not_found" \in mishaps /\ Alive(n) /\ task[n].resume
  /\ task' = [task EXCEPT ![n] = [@ EXCEPT !.resume = FALSE, !.now = MaxTasks + n]]
  /\ UNCHANGED <<file, memory, restarts, tasks, spawned, exit_rx, line, wish>>

-----------------------------------------------------------------------------
(* The backend and the user.                                                *)

\* RequestLaunch: the backend mints a token and sends LaunchSession back.
ReceiveRequest ==
  /\ requests # <<>>
  /\ requests' = Tail(requests)
  /\ \/ commands' = IF socket = "open" THEN Append(commands, Head(requests)) ELSE commands
     \/ "mint" \in mishaps /\ UNCHANGED commands
  /\ UNCHANGED <<file, memory, restarts, manager, socket, links, running_sessions, wish>>

\* Nothing is running, on its way or to be done in the directory.
Quiet(d) ==
  /\ \A n \in TaskNumbers : Alive(n) => task[n].dir # d
  /\ \A m \in ToSet(requests) \union ToSet(commands) : m.dir # d
  /\ \A i \in DOMAIN exit_rx :
       exit_rx[i].id \in DOMAIN tasks => task[tasks[exit_rx[i].id]].dir # d
  /\ delayed[d] = 0

Launches == FoldSet(LAMBDA d, n : wish[d].launches + n, 0, Dirs)

\* launch_session
UserLaunches(d) ==
  /\ socket = "open" /\ Launches < MaxLaunches
  /\ "twice" \in mishaps \/ Quiet(d)
  /\ commands' = Append(commands, Launch(d, FALSE))
  /\ wish' = [wish EXCEPT ![d] = [of |-> "run", launches |-> @.launches + 1, failures |-> 0]]
  /\ UNCHANGED <<file, memory, restarts, manager, socket, links, requests, running_sessions>>

\* stop_session: a proxy that is connected is told to end, and the launcher that
\* is known to run the session is told to stop it.
UserStops(n) ==
  /\ task[n].at = "up" /\ ~task[n].scheduled
  /\ task' = [task EXCEPT ![n].at = "told"]
  /\ commands' = IF socket = "open" /\ task[n].now \in running_sessions
                 THEN Append(commands, StopSession(task[n].now)) ELSE commands
  /\ wish' = [wish EXCEPT ![task[n].dir].of = "stop"]
  /\ UNCHANGED <<file, memory, restarts, tasks, spawned, exit_rx, socket, links, requests,
                 running_sessions>>

-----------------------------------------------------------------------------
DaemonStep ==
  \/ StartLauncher
  \/ Register
  \/ LoopEnds
  \/ Heartbeat
  \/ LaunchSession
  \/ ReceiveStop
  \/ SessionExited
  \/ \E d \in Dirs : DelayedRestart(d)

Trouble ==
  \/ Crash
  \/ WireCut
  \/ LoginLoads
  \/ LoginSaves
  \/ \E d \in Dirs : ScheduledLaunch(d)
  \/ \E id \in Ids : TimedOut(id)

SNext ==
  \/ DaemonStep
  \/ ReceiveRequest
  \/ Trouble
  \/ \E n \in TaskNumbers : TaskEnds(n)
  \/ \E n \in TaskNumbers : Replace(n)
  \/ \E d \in Dirs : UserLaunches(d)
  \/ \E n \in TaskNumbers : UserStops(n)

SSpec == SInit /\ [][SNext /\ UNCHANGED mishaps]_<<svars, mishaps>>

\* The launcher's loop and the backend go on: as long as there is something to do
\* for them, something is done.
GoesOn ==
  \/ StartLauncher
  \/ Register
  \/ LoopEnds
  \/ LaunchSession
  \/ ReceiveStop
  \/ SessionExited
  \/ \E d \in Dirs : DelayedRestart(d)
  \/ ReceiveRequest

STypeOK ==
  /\ \A f \in {configured, login.sessions, expected_sessions} :
       DOMAIN f \subseteq Dirs /\ \A d \in DOMAIN f : f[d] \in {0} \union Ids
  /\ daemon \in {"up", "down"} /\ socket \in {"down", "open", "cut"}
  /\ restart_counts \in [Dirs -> Nat] /\ delayed \in [Dirs -> Nat]
  /\ DOMAIN tasks \subseteq Ids /\ \A id \in DOMAIN tasks : tasks[id] \in 1..spawned
  /\ task \in [TaskNumbers -> [at : {"none", "up", "told", "over"},
                               dir : {"none"} \union Dirs,
                               id : {0} \union Ids, now : {0} \union Ids,
                               resume : BOOLEAN, scheduled : BOOLEAN]]
  /\ running_sessions \subseteq Ids

-----------------------------------------------------------------------------
\* "New session - persist so it survives launcher restarts" (connection.rs:480): a
\* session that runs is expected, and the config has it, with its id.
RunningIsExpected ==
  \A n \in DOMAIN task : Alive(n) /\ ~task[n].scheduled =>
    \A f \in {expected_sessions, configured} :
      task[n].dir \in DOMAIN f /\ f[task[n].dir] = task[n].id

\* A task that runs is the one that is tracked by its id: it can be stopped.
RunningIsTracked ==
  \A n \in DOMAIN task : Alive(n) => task[n].id \in DOMAIN tasks /\ tasks[task[n].id] = n

\* One launch in a directory at a time: a scheduled run does not fail there, the
\* user launches nothing where something runs, and no old connection's request is
\* answered on a new one.
OneLaunchAtATime ==
  {"twice", "overlap"} \cap mishaps = {} /\ ~({"fail", "scheduled"} \subseteq mishaps)

\* A session the launcher runs is one it can stop and, where no scheduled run or
\* other program interferes, one it is expected to run, also after a restart.
SessionsAreKept ==
  OneLaunchAtATime =>
    RunningIsTracked /\ ({"scheduled", "login"} \cap mishaps = {} => RunningIsExpected)

\* What a restart of the launcher resumes is the session that ran.
CurrentIsExpected ==
  \A n \in DOMAIN task : Alive(n) /\ ~task[n].scheduled =>
    task[n].dir \in DOMAIN expected_sessions /\ expected_sessions[task[n].dir] = task[n].now

\* A directory whose session the user stopped stays without one, until the user
\* launches one there.
StoppedStaysAway ==
  \A n \in DOMAIN task : task[n].at = "none" /\ task'[n].at # "none" /\ ~task'[n].scheduled =>
    wish[task'[n].dir].of # "stop"

\* A session that keeps failing is given up after MAX_RESTART_ATTEMPTS restarts,
\* no sooner and no later (connection.rs:229-255).
GivenUpInTime(d) ==
  wish'[d].failures > wish[d].failures =>
    (d \notin DOMAIN expected_sessions' <=> wish'[d].failures > MAX_RESTART_ATTEMPTS)

\* The first launch in the directory, by the user or by the config.
FirstLaunch(d) == wish[d].launches + (IF d \in Configured THEN 1 ELSE 0) <= 1

\* An expected session runs or is given up, as long as the launcher runs.
Runs(d) == \E n \in TaskNumbers : Alive(n) /\ task[n].dir = d
ExpectedRuns ==
  \A d \in Dirs :
    d \in DOMAIN expected_sessions ~> (d \in DOMAIN expected_sessions => Runs(d))
=============================================================================
