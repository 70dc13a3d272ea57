-------------------------- MODULE ScheduledTasksProofs --------------------------
(***************************************************************************)
(* Proofs about ScheduledTasks, for every number of tasks, editors, runs   *)
(* and connections: the types of the variables, that a task never has two  *)
(* session tasks and the launcher can stop each, that what the scheduler   *)
(* takes for running is or its end is to be heard of, that a schedule      *)
(* follows the table, and that the prompt of a run that lasts is stored.   *)
(*                                                                         *)
(* The strengthening is made of parts, each of which the next ones need:   *)
(* what names a session or a run for a task names one of its own (Owned);  *)
(* a task has one launch under way, and while it has, it is neither due    *)
(* nor running (OneAsk); what runs is known to the scheduler and to the    *)
(* manager (Held); the report of an end is ahead of the next request for   *)
(* the task (Recorded). Following stands by itself.                        *)
(***************************************************************************)
EXTENDS ScheduledTasks, TLAPS

-----------------------------------------------------------------------------
(* The strengthening.                                                       *)

\* A session a task may resume is that of one of its runs: sessions have the
\* number of the run that created them.
OfTask(t, s) == s # 0 => s \in 1..fired /\ run[s].task = t

\* Whatever names a session for a task names one of its own; what names a run
\* names one that was fired.
OwnedIds ==
  /\ \A t \in Tasks : OfTask(t, last_session[t]) /\ OfTask(t, resume_id[t])
  /\ \A j \in Jobs, t \in Tasks : OfTask(t, job[j].last[t])

OwnsDown(m) ==
  /\ \A t \in Tasks : OfTask(t, m.last[t])
  /\ m.kind = "launch" => m.run \in 1..fired
OwnedDown == \A m \in Elements(to_launcher) : OwnsDown(m)

OwnsUp(m) ==
  /\ m.kind # "completed" => m.run \in 1..fired
  /\ m.kind \in {"started", "inject"} =>
       m.session # 0 /\ OfTask(run[m.run].task, m.session)
  /\ m.kind = "completed" => m.session \in 1..fired
OwnedUp == \A m \in Elements(to_backend) : OwnsUp(m)

OwnedRuns ==
  \A r \in 1..fired : run[r].task \in Tasks /\ OfTask(run[r].task, run[r].resume)

OwnedProcs ==
  /\ \A s \in Sessions : running[s] # 0 => OfTask(running[s], s)
  /\ \A r \in prompts : proc[r].at # "none"
  /\ \A s \in Sessions : tracked[s] # 0 => proc[tracked[s]].at # "none"
  /\ \A r \in Runs : proc[r].at # "none" =>
       /\ r \in 1..fired
       /\ proc[r].now # 0
       /\ proc[r].session # 0 /\ OfTask(run[r].task, proc[r].session)

Owned == OwnedIds /\ OwnedDown /\ OwnedUp /\ OwnedRuns /\ OwnedProcs

\* The requests on their way to the backend and the launches on their way back.
Requests == {i \in DOMAIN to_backend : to_backend[i].kind = "request"}
Launches == {i \in DOMAIN to_launcher : to_launcher[i].kind = "launch"}
RequestedTask(i) == run[to_backend[i].run].task
LaunchedTask(i) == run[to_launcher[i].run].task

\* A task has one launch under way, for a run without a session task; until it is
\* answered the task is neither due nor running.
Startable(r) ==
  /\ proc[r].at = "none"
  /\ run[r].task \notin RunningTasks
  /\ next_fire[run[r].task] # "due"
OneAsk ==
  /\ \A i \in Requests : Startable(to_backend[i].run)
  /\ \A i \in Launches : Startable(to_launcher[i].run)
  /\ \A i, j \in Requests : RequestedTask(i) = RequestedTask(j) => i = j
  /\ \A i, j \in Launches : LaunchedTask(i) = LaunchedTask(j) => i = j
  /\ \A i \in Requests, j \in Launches : RequestedTask(i) # LaunchedTask(j)

\* A session task that runs is known to the scheduler and to the manager, and its
\* end is not reported yet; an end that is reported is of a session the scheduler
\* takes for running.
Held ==
  /\ \A r \in Runs : Alive(r) =>
       /\ tracked[proc[r].session] = r
       /\ running[proc[r].session] = run[r].task
       /\ proc[r].session \notin Elements(exits)
  /\ \A s \in Sessions : tracked[s] # 0 => proc[tracked[s]].session = s
  /\ \A s \in Elements(exits) : running[s] # 0
  /\ \A i, j \in DOMAIN exits : exits[i] = exits[j] => i = j

\* Where sessions register in time and are not replaced: a registered session has
\* a row, and a prompt is sent for one that is or was registered.
RunsRecorded ==
  \A r \in Runs :
    /\ proc[r].now = proc[r].session
    /\ proc[r].at = "registered" => proc[r].session \in sessions
    /\ Alive(r) => proc[r].prompt # "dropped"
PromptsFollow ==
  \A m \in Elements(to_backend) : m.kind = "inject" =>
    proc[m.run].at \in {"registered", "over"} /\ m.session = proc[m.run].session

\* The report of an end comes to the backend before the next request for the task,
\* so it deletes the row of no session that runs again.
EndTask(i) == run[to_backend[i].session].task
Ends == {i \in DOMAIN to_backend : to_backend[i].kind = "completed"}
EndsFirst ==
  \A i \in Ends :
    /\ \A r \in Runs : Alive(r) => proc[r].session # to_backend[i].session
    /\ \A j \in Requests : RequestedTask(j) = EndTask(i) => i < j
    /\ \A j \in Launches : LaunchedTask(j) # EndTask(i)
Recorded == RunsRecorded /\ PromptsFollow /\ EndsFirst

\* What a launcher that has the tasks [k] will have when it has read the messages [q].
Told(q, k, T) ==
  \/ \E i \in DOMAIN q :
       /\ q[i].kind = "sync" /\ q[i].tasks = T
       /\ \A j \in DOMAIN q : j > i => q[j].kind # "sync"
  \/ /\ k = T
     /\ \A i \in DOMAIN q : q[i].kind # "sync"

\* On the first connection: a loaded schedule is the table's, unless a change will
\* load it again; so is what the launcher was told, unless a schedule is on its way
\* to it. A launcher that was told nothing has no tasks.
Unloaded == \E e \in Editors : job[e].at = "load"
Following ==
  /\ link = "down" => known = {} /\ conns = 0
  /\ link # "down" => link = "open" /\ conns = 1
  /\ \A i, j \in Jobs : job[i].at = "send" /\ job[j].at = "send" => i = j
  /\ \A j \in Jobs : job[j].at = "send" => Unloaded \/ job[j].tasks = Enabled
  /\ \/ link = "down" \/ Unloaded \/ \E j \in Jobs : job[j].at = "send"
     \/ Told(to_launcher, known, Enabled)
     \/ job[0].at = "load" /\ Told(to_launcher, known, {})
-----------------------------------------------------------------------------
(* Sequences.                                                               *)

Up == [kind : {"request", "started", "inject", "completed"},
       run : {0} \union Runs, session : {0} \union Sessions]
LastIds == [Tasks -> {0} \union Sessions]
Down == [kind : {"launch", "sync"}, run : {0} \union Runs, tasks : SUBSET Tasks,
         last : LastIds]

\* What remains of a queue: a stretch of it, [d] places further to the front.
Remains(q, d, p) ==
  /\ d \in Nat
  /\ DOMAIN q \subseteq Nat
  /\ \A i \in DOMAIN q : i + d \in DOMAIN p /\ q[i] = p[i + d]

LEMMA TailRemains ==
  ASSUME NEW T, NEW q \in Seq(T), q # <<>>
  PROVE  /\ Tail(q) \in Seq(T) /\ Remains(Tail(q), 1, q)
         /\ Head(q) = q[1] /\ 1 \in DOMAIN q
         /\ \A i \in DOMAIN q : i # 1 => i - 1 \in DOMAIN Tail(q) /\ Tail(q)[i - 1] = q[i]
  BY DEF Remains

LEMMA PrefixRemains ==
  ASSUME NEW T, NEW q \in Seq(T), NEW k \in 0..Len(q)
  PROVE  SubSeq(q, 1, k) \in Seq(T) /\ Remains(SubSeq(q, 1, k), 0, q)
<1>1. \A i \in 1..k : q[i] \in T
  OBVIOUS
<1>2. k = 0 => SubSeq(q, 1, k) = <<>>
  OBVIOUS
<1>3. k # 0 => k \in Nat /\ 1..k \subseteq 1..Len(q)
  OBVIOUS
<1>4. /\ SubSeq(q, 1, k) \in Seq(T)
      /\ Len(SubSeq(q, 1, k)) = k
      /\ \A i \in 1..k : SubSeq(q, 1, k)[i] = q[i]
  BY <1>1, <1>2, <1>3
<1> QED BY <1>3, <1>4 DEF Remains

LEMMA SameRemains ==
  ASSUME NEW T, NEW q \in Seq(T)
  PROVE  Remains(q, 0, q) /\ Remains(<<>>, 0, q)
  BY DEF Remains

LEMMA ElementsRemain ==
  ASSUME NEW q, NEW p, NEW d, Remains(q, d, p)
  PROVE  Elements(q) \subseteq Elements(p)
  BY DEF Remains, Elements

LEMMA AppendParts ==
  ASSUME NEW T, NEW q \in Seq(T), NEW m \in T
  PROVE  /\ Append(q, m) \in Seq(T)
         /\ DOMAIN q = 1..Len(q) /\ Len(q) + 1 \notin DOMAIN q
         /\ DOMAIN Append(q, m) = DOMAIN q \union {Len(q) + 1}
         /\ Append(q, m)[Len(q) + 1] = m
         /\ \A i \in DOMAIN q : Append(q, m)[i] = q[i]
         /\ Elements(Append(q, m)) = Elements(q) \union {m}
<1>1. /\ Append(q, m) \in Seq(T)
      /\ DOMAIN q = 1..Len(q) /\ Len(q) + 1 \notin DOMAIN q
      /\ DOMAIN Append(q, m) = DOMAIN q \union {Len(q) + 1}
      /\ Append(q, m)[Len(q) + 1] = m
      /\ \A i \in DOMAIN q : Append(q, m)[i] = q[i]
  OBVIOUS
<1>2. Elements(Append(q, m)) \subseteq Elements(q) \union {m}
  <2> SUFFICES ASSUME NEW i \in DOMAIN Append(q, m)
      PROVE  Append(q, m)[i] \in Elements(q) \union {m}
    BY DEF Elements
  <2> QED BY <1>1 DEF Elements
<1>3. Elements(q) \union {m} \subseteq Elements(Append(q, m))
  BY <1>1 DEF Elements
<1> QED BY <1>1, <1>2, <1>3

LEMMA ElementsAre ==
  ASSUME NEW T, NEW q \in Seq(T)
  PROVE  /\ Elements(q) \subseteq T
         /\ q # <<>> => Head(q) \in Elements(q)
         /\ \A i \in DOMAIN q : q[i] \in Elements(q)
  BY DEF Elements

\* What is sent arrives in the queue, or nothing does.
LEMMA SendOne ==
  ASSUME to_backend \in Seq(Up), NEW m \in Up, Send(<<m>>)
  PROVE  to_backend' = to_backend \/ to_backend' = Append(to_backend, m)
  BY DEF Send

LEMMA SendTwo ==
  ASSUME to_backend \in Seq(Up), NEW m \in Up, NEW n \in Up, Send(<<m, n>>)
  PROVE  to_backend' = to_backend \/ to_backend' = Append(Append(to_backend, m), n)
<1>1. to_backend \o <<m, n>> = Append(Append(to_backend, m), n)
  OBVIOUS
<1> QED BY <1>1 DEF Send

LEMMA SendNone ==
  ASSUME to_backend \in Seq(Up), Send(<<>>)
  PROVE  to_backend' = to_backend
  BY DEF Send

-----------------------------------------------------------------------------
(* The types of the variables.                                              *)

Typed ==
  /\ row \in [Tasks -> {"enabled", "disabled", "deleted"}]
  /\ last_session \in LastIds
  /\ sessions \subseteq Sessions
  /\ job \in [Jobs -> Job]
  /\ edits \in 0..MaxEdits
  /\ link \in {"down", "open", "cut"}
  /\ conns \in 0..MaxConn
  /\ to_launcher \in Seq(Down)
  /\ to_backend \in Seq(Up)
  /\ known \subseteq Tasks
  /\ next_fire \in [Tasks -> {"never", "waiting", "due"}]
  /\ resume_id \in LastIds
  /\ fired \in 0..MaxRuns
  /\ run \in [Runs -> [task : {0} \union Tasks, resume : {0} \union Sessions]]
  /\ launches \subseteq Runs
  /\ prompts \subseteq Runs
  /\ running \in [Sessions -> {0} \union Tasks]
  /\ tracked \in [Sessions -> {0} \union Runs]
  /\ exits \in Seq(Sessions)
  /\ proc \in [Runs -> Proc]

LEMMA TypesAreNamed == TypeOK <=> Typed
  BY DEF TypeOK, Typed, Up, Down, LastIds

LEMMA Numbers ==
  /\ 1..MaxRuns \subseteq Sessions /\ Runs = 1..MaxRuns
  /\ \A r \in Runs : MaxRuns + r \in Sessions /\ r # 0 /\ MaxRuns + r # 0
  /\ 0 \notin Tasks /\ 0 \notin Sessions /\ 0 \notin Runs
  /\ 0 \in Jobs /\ Editors \subseteq Jobs
  BY ScheduledTasksAssumption DEF Runs, Sessions, Jobs

LEMMA IdleIsJob ==
  /\ Idle \in Job
  /\ [Idle EXCEPT !.at = "load"] \in Job
  /\ [Idle EXCEPT !.at = "load"].last = Idle.last
  /\ \A t \in Tasks : Idle.last[t] = 0
  BY DEF Idle, Job

LEMMA MessagesAre ==
  /\ \A r \in Runs : Launch(r) \in Down
  /\ \A j \in Job : ScheduleSync(j) \in Down
  /\ \A r \in {0} \union Runs, s \in {0} \union Sessions :
       {Message("request", r, s), Message("started", r, s), Message("inject", r, s),
        Message("completed", r, s)} \subseteq Up
<1>1. Idle.last \in LastIds
  BY DEF Idle, LastIds
<1>2. \A r \in Runs : Launch(r) \in Down
  BY <1>1 DEF Launch, Down
<1>3. \A j \in Job : ScheduleSync(j) \in Down
  BY DEF ScheduleSync, Down, Job, LastIds
<1>4. \A r \in {0} \union Runs, s \in {0} \union Sessions :
       {Message("request", r, s), Message("started", r, s), Message("inject", r, s),
        Message("completed", r, s)} \subseteq Up
  BY DEF Message, Up
<1> QED BY <1>2, <1>3, <1>4

\* A session that is named for a task is a number of a run.
LEMMA OfTaskIs ==
  ASSUME Typed, NEW t, NEW s, OfTask(t, s), s # 0
  PROVE  s \in 1..fired /\ s \in Runs /\ s \in Sessions /\ run[s].task = t
<1>1. 1..fired \subseteq Runs
  BY ScheduledTasksAssumption DEF Typed, Runs
<1> QED BY <1>1, Numbers DEF OfTask

\* What belongs to a task stays its own: runs that were fired do not change.
LEMMA OfTaskStays ==
  ASSUME fired \in Nat, fired' \in Nat, fired <= fired',
         \A r \in 1..fired : run'[r] = run[r], NEW t, NEW s, OfTask(t, s)
  PROVE  OfTask(t, s)'
  BY DEF OfTask

\* Steps of the session tasks change where they are; a task that was spawned stays
\* so, with its session.
LEMMA ProcsMove ==
  ASSUME Typed, Owned, UNCHANGED <<running, prompts, started>>,
         proc' \in [Runs -> Proc],
         \A r \in Runs : \/ proc'[r] = proc[r]
                         \/ /\ proc[r].at # "none" /\ proc'[r].session = proc[r].session
                            /\ proc'[r].at # "none" /\ proc'[r].now # 0,
         \A s \in Sessions : tracked'[s] \in {0, tracked[s]}
  PROVE  OwnedProcs'
<1>1. \A r \in prompts : r \in Runs
  BY DEF Typed
<1>2. \A r \in Runs : proc[r].at # "none" => proc'[r].at # "none"
  OBVIOUS
<1>3. \A s \in Sessions : tracked[s] \in {0} \union Runs
  BY DEF Typed
<1>4. \A r \in Runs : proc'[r].at # "none" =>
       /\ r \in 1..fired
       /\ proc'[r].now # 0
       /\ proc'[r].session # 0 /\ OfTask(run[r].task, proc'[r].session)
  BY DEF Owned, OwnedProcs
<1>5. /\ \A r \in prompts : proc'[r].at # "none"
      /\ \A s \in Sessions : tracked'[s] # 0 => proc'[tracked'[s]].at # "none"
  BY <1>1, <1>2, <1>3 DEF Owned, OwnedProcs
<1> QED BY <1>4, <1>5 DEF Owned, OwnedProcs, OfTask, started

\* A queue of messages that name what their tasks own, after some were sent.
LEMMA DownSent ==
  ASSUME OwnedDown, UNCHANGED started, NEW m, OwnsDown(m),
         Elements(to_launcher') \subseteq Elements(to_launcher) \union {m}
  PROVE  OwnedDown'
<1>1. \A n : OwnsDown(n) => OwnsDown(n)'
  BY DEF OwnsDown, OfTask, started
<1>2. \A n \in Elements(to_launcher)' : OwnsDown(n)
  BY DEF OwnedDown, Elements
<1> QED BY <1>1, <1>2 DEF OwnedDown

LEMMA DownRemains ==
  ASSUME OwnedDown, UNCHANGED started, Elements(to_launcher') \subseteq Elements(to_launcher)
  PROVE  OwnedDown'
<1>1. \A n : OwnsDown(n) => OwnsDown(n)'
  BY DEF OwnsDown, OfTask, started
<1>2. \A n \in Elements(to_launcher)' : OwnsDown(n)
  BY DEF OwnedDown, Elements
<1> QED BY <1>1, <1>2 DEF OwnedDown

LEMMA UpSent ==
  ASSUME OwnedUp, UNCHANGED started, NEW m, NEW n, OwnsUp(m), OwnsUp(n),
         Elements(to_backend') \subseteq Elements(to_backend) \union {m, n}
  PROVE  OwnedUp'
<1>1. \A x : OwnsUp(x) => OwnsUp(x)'
  BY DEF OwnsUp, OfTask, started
<1>2. \A x \in Elements(to_backend)' : OwnsUp(x)
  BY DEF OwnedUp, Elements
<1> QED BY <1>1, <1>2 DEF OwnedUp

-----------------------------------------------------------------------------
(* Types and owners: the backend's steps and those of the connection.       *)

LEMMA EditStep ==
  ASSUME Typed, Owned, NEW e \in Editors, NEW t \in Tasks, EditTask(e, t)
  PROVE  Typed' /\ Owned'
<1>1. /\ row' \in [Tasks -> {"enabled", "disabled", "deleted"}]
      /\ edits' \in 0..MaxEdits
      /\ job' = [job EXCEPT ![e] = [Idle EXCEPT !.at = "load"]]
      /\ UNCHANGED <<last_session, sessions, wire, scheduler, manager>>
  BY ScheduledTasksAssumption DEF EditTask, Typed
<1>2. job' \in [Jobs -> Job]
  BY <1>1, IdleIsJob DEF Typed
<1>3. \A j \in Jobs, u \in Tasks : OfTask(u, job'[j].last[u])
  BY <1>1, <1>2, IdleIsJob, Numbers DEF Owned, OwnedIds, Typed, OfTask
<1>4. OwnedIds'
  BY <1>1, <1>3 DEF Owned, OwnedIds, scheduler, schedule, started, OfTask
<1> QED BY <1>1, <1>2, <1>4
        DEF Typed, Owned, OwnedDown, OwnsDown, OwnedUp, OwnsUp, OwnedRuns, OwnedProcs,
            OfTask, table, wire, scheduler, schedule,
            started, manager

LEMMA LoadStep ==
  ASSUME Typed, Owned, NEW j \in Jobs, LoadTasks(j)
  PROVE  Typed' /\ Owned'
<1>1. UNCHANGED <<table, wire, scheduler, manager>>
  BY DEF LoadTasks
<1>2. PICK J \in Job : job' = [job EXCEPT ![j] = J] /\ J.last \in {Idle.last, last_session}
  <2>1. [at |-> "send", tasks |-> Enabled, last |-> last_session] \in Job
    BY DEF Typed, Job, Enabled, LastIds
  <2> QED BY <2>1, IdleIsJob DEF LoadTasks
<1>3. job' \in [Jobs -> Job]
  BY <1>2 DEF Typed
<1>4. \A i \in Jobs, t \in Tasks : OfTask(t, job'[i].last[t])
  BY <1>2, IdleIsJob DEF Owned, OwnedIds, Typed, OfTask
<1>5. OwnedIds'
  BY <1>1, <1>4 DEF Owned, OwnedIds, table, scheduler, schedule, started, OfTask
<1> QED BY <1>1, <1>3, <1>5
        DEF Typed, Owned, OwnedDown, OwnsDown, OwnedUp, OwnsUp, OwnedRuns, OwnedProcs,
            OfTask, table, wire, scheduler, schedule,
            started, manager

LEMMA SyncStep ==
  ASSUME Typed, Owned, NEW j \in Jobs, SendSync(j)
  PROVE  Typed' /\ Owned'
<1>1. UNCHANGED <<table, link, conns, to_backend, scheduler, manager>>
      /\ job' = [job EXCEPT ![j] = Idle]
  BY DEF SendSync
<1>2. job' \in [Jobs -> Job]
  BY <1>1, IdleIsJob DEF Typed
<1>3. \A i \in Jobs, t \in Tasks : OfTask(t, job'[i].last[t])
  BY <1>1, IdleIsJob DEF Owned, OwnedIds, Typed, OfTask
<1>4. OwnedIds'
  BY <1>1, <1>3 DEF Owned, OwnedIds, table, scheduler, schedule, started, OfTask
<1>5. job[j] \in Job /\ ScheduleSync(job[j]) \in Down
  BY MessagesAre DEF Typed
<1>6. to_launcher' = to_launcher \/ to_launcher' = Append(to_launcher, ScheduleSync(job[j]))
  BY DEF SendSync
<1>7. /\ to_launcher' \in Seq(Down)
      /\ Elements(to_launcher') \subseteq Elements(to_launcher) \union {ScheduleSync(job[j])}
  <2>1. to_launcher \in Seq(Down)
    BY DEF Typed
  <2>2. /\ Append(to_launcher, ScheduleSync(job[j])) \in Seq(Down)
        /\ Elements(Append(to_launcher, ScheduleSync(job[j])))
             = Elements(to_launcher) \union {ScheduleSync(job[j])}
    BY <1>5, <2>1, AppendParts
  <2> QED BY <1>6, <2>1, <2>2
<1>8. OwnedDown'
  <2>1. OwnsDown(ScheduleSync(job[j]))
    BY DEF Owned, OwnedIds, OwnsDown, ScheduleSync
  <2> QED BY <1>1, <1>7, <2>1, DownSent DEF Owned, scheduler
<1> QED BY <1>1, <1>2, <1>4, <1>7, <1>8
        DEF Typed, Owned, OwnedUp, OwnsUp, OwnedRuns, OwnedProcs, OfTask, table, wire, scheduler, schedule,
            started, manager

\* The first message of a queue, and the others.
LEMMA UpRest ==
  ASSUME Typed, to_backend # <<>>
  PROVE  /\ Tail(to_backend) \in Seq(Up) /\ Elements(Tail(to_backend)) \subseteq Elements(to_backend)
         /\ Head(to_backend) \in Up /\ Head(to_backend) \in Elements(to_backend)
<1>1. to_backend \in Seq(Up)
  BY DEF Typed
<1> QED BY <1>1, TailRemains, ElementsRemain, ElementsAre

LEMMA DownRest ==
  ASSUME Typed, to_launcher # <<>>
  PROVE  /\ Tail(to_launcher) \in Seq(Down) /\ Elements(Tail(to_launcher)) \subseteq Elements(to_launcher)
         /\ Head(to_launcher) \in Down /\ Head(to_launcher) \in Elements(to_launcher)
<1>1. to_launcher \in Seq(Down)
  BY DEF Typed
<1> QED BY <1>1, TailRemains, ElementsRemain, ElementsAre

LEMMA UpRemains ==
  ASSUME OwnedUp, UNCHANGED started, Elements(to_backend') \subseteq Elements(to_backend)
  PROVE  OwnedUp'
<1>1. \A n : OwnsUp(n) => OwnsUp(n)'
  BY DEF OwnsUp, OfTask, started
<1>2. \A n \in Elements(to_backend)' : OwnsUp(n)
  BY DEF OwnedUp, Elements
<1> QED BY <1>1, <1>2 DEF OwnedUp

LEMMA RequestStep ==
  ASSUME Typed, Owned, ReceiveRequest
  PROVE  Typed' /\ Owned'
<1> DEFINE m == Head(to_backend)
<1>1. /\ to_backend # <<>> /\ m.kind = "request" /\ to_backend' = Tail(to_backend)
      /\ UNCHANGED <<table, job, link, conns, scheduler, manager>>
      /\ to_launcher' = to_launcher \/ to_launcher' = Append(to_launcher, Launch(m.run))
  BY DEF ReceiveRequest
<1>2. m \in Elements(to_backend) /\ OwnsUp(m) /\ m.run \in 1..fired
  BY <1>1, UpRest DEF Owned, OwnedUp, OwnsUp
<1>3. 1..fired \subseteq Runs
  BY ScheduledTasksAssumption DEF Typed, Runs
<1>4. Launch(m.run) \in Down /\ OwnsDown(Launch(m.run))
  BY <1>2, <1>3, MessagesAre, IdleIsJob DEF Launch, OwnsDown, OfTask
<1> HIDE DEF m
<1>5. /\ to_launcher' \in Seq(Down)
      /\ Elements(to_launcher') \subseteq Elements(to_launcher) \union {Launch(m.run)}
  <2>1. to_launcher \in Seq(Down)
    BY DEF Typed
  <2>2. /\ Append(to_launcher, Launch(m.run)) \in Seq(Down)
        /\ Elements(Append(to_launcher, Launch(m.run))) = Elements(to_launcher) \union {Launch(m.run)}
    BY <1>4, <2>1, AppendParts
  <2> QED BY <1>1, <2>1, <2>2
<1>6. OwnedDown'
  BY <1>1, <1>4, <1>5, DownSent DEF Owned, scheduler
<1>7. to_backend' \in Seq(Up) /\ OwnedUp'
  BY <1>1, UpRest, UpRemains DEF Owned, scheduler
<1> QED BY <1>1, <1>5, <1>6, <1>7
        DEF Typed, Owned, OwnedIds, OwnedRuns, OwnedProcs, OfTask, table, scheduler, schedule,
            started, manager

LEMMA StartedStep ==
  ASSUME Typed, Owned, ReceiveStarted
  PROVE  Typed' /\ Owned'
<1> DEFINE m == Head(to_backend)
           t == run[m.run].task
<1>1. /\ to_backend # <<>> /\ m.kind = "started" /\ to_backend' = Tail(to_backend)
      /\ UNCHANGED <<row, sessions, edits, job, link, conns, to_launcher, scheduler, manager>>
      /\ last_session' = last_session \/ last_session' = [last_session EXCEPT ![t] = m.session]
  BY DEF ReceiveStarted
<1>2. m \in Up /\ OfTask(t, m.session)
  BY <1>1, UpRest DEF Owned, OwnedUp, OwnsUp
<1> HIDE DEF m, t
<1>3. last_session' \in LastIds /\ \A u \in Tasks : OfTask(u, last_session'[u])
  BY <1>1, <1>2 DEF Typed, LastIds, Up, Owned, OwnedIds
<1>4. OwnedIds'
  BY <1>1, <1>3 DEF Owned, OwnedIds, OfTask, scheduler, schedule, started
<1>5. to_backend' \in Seq(Up) /\ OwnedUp'
  BY <1>1, UpRest, UpRemains DEF Owned, scheduler
<1> QED BY <1>1, <1>3, <1>4, <1>5
        DEF Typed, Owned, OwnedDown, OwnsDown, OwnedRuns, OwnedProcs, OfTask, table, scheduler,
            schedule, started, manager

LEMMA InjectStep ==
  ASSUME Typed, Owned, ReceiveInject
  PROVE  Typed' /\ Owned'
<1> DEFINE m == Head(to_backend)
<1>1. /\ to_backend # <<>> /\ to_backend' = Tail(to_backend)
      /\ UNCHANGED <<table, job, link, conns, to_launcher, scheduler, tracked, exits>>
  BY DEF ReceiveInject
<1>2. PICK p \in {"stored", "dropped"} : proc' = [proc EXCEPT ![m.run] = [@ EXCEPT !.prompt = p]]
  BY DEF ReceiveInject
<1> HIDE DEF m
<1>3. /\ proc' \in [Runs -> Proc]
      /\ \A r \in Runs : /\ proc'[r].at = proc[r].at /\ proc'[r].now = proc[r].now
                         /\ proc'[r].session = proc[r].session
  BY <1>2 DEF Typed, Proc
<1>4. to_backend' \in Seq(Up) /\ OwnedUp'
  BY <1>1, UpRest, UpRemains DEF Owned, scheduler
<1>5. OwnedProcs'
  <2>1. /\ \A r \in prompts : r \in Runs
        /\ \A s \in Sessions : tracked[s] # 0 => tracked[s] \in Runs
    BY DEF Typed
  <2>2. /\ \A r \in prompts : proc'[r].at # "none"
        /\ \A s \in Sessions : tracked[s] # 0 => proc'[tracked[s]].at # "none"
    BY <1>3, <2>1 DEF Owned, OwnedProcs
  <2>3. \A r \in Runs : proc'[r].at # "none" =>
         /\ r \in 1..fired
         /\ proc'[r].now # 0
         /\ proc'[r].session # 0 /\ OfTask(run[r].task, proc'[r].session)
    BY <1>3 DEF Owned, OwnedProcs
  <2> QED BY <1>1, <2>2, <2>3 DEF Owned, OwnedProcs, OfTask, scheduler, started
<1> QED BY <1>1, <1>3, <1>4, <1>5
        DEF Typed, Owned, OwnedIds, OwnedDown, OwnsDown, OwnedRuns, OfTask, table, scheduler,
            schedule, started

LEMMA CompletedStep ==
  ASSUME Typed, Owned, ReceiveCompleted
  PROVE  Typed' /\ Owned'
<1>1. /\ to_backend # <<>> /\ to_backend' = Tail(to_backend)
      /\ UNCHANGED <<row, edits, job, link, conns, to_launcher, scheduler, manager>>
  BY DEF ReceiveCompleted
<1>2. /\ last_session' \in LastIds
      /\ \A t \in Tasks : last_session'[t] \in {0, last_session[t]}
      /\ sessions' \subseteq sessions
  BY DEF ReceiveCompleted, Typed, LastIds
<1>3. to_backend' \in Seq(Up) /\ OwnedUp'
  BY <1>1, UpRest, UpRemains DEF Owned, scheduler
<1>4. OwnedIds'
  BY <1>1, <1>2 DEF Owned, OwnedIds, OfTask, scheduler, schedule, started
<1> QED BY <1>1, <1>2, <1>3, <1>4
        DEF Typed, Owned, OwnedDown, OwnsDown, OwnedRuns, OwnedProcs, OfTask, table, scheduler,
            schedule, started, manager

LEMMA ConnectStep ==
  ASSUME Typed, Owned, Connect \/ LinkCut \/ Disconnect
  PROVE  Typed' /\ Owned'
<1>1. /\ link' \in {"down", "open", "cut"} /\ conns' \in 0..MaxConn
      /\ to_launcher' \in {to_launcher, <<>>}
      /\ UNCHANGED <<table, scheduler, manager>>
  BY ScheduledTasksAssumption DEF Connect, LinkCut, Disconnect, Typed
<1>2. /\ to_launcher' \in Seq(Down)
      /\ Elements(to_launcher') \subseteq Elements(to_launcher)
  <2>1. to_launcher \in Seq(Down) /\ <<>> \in Seq(Down) /\ Elements(<<>>) = {}
    BY DEF Typed, Elements
  <2> QED BY <1>1, <2>1
<1>3. /\ to_backend' \in Seq(Up)
      /\ Elements(to_backend') \subseteq Elements(to_backend)
  <2>1. to_backend \in Seq(Up)
    BY DEF Typed
  <2>2. CASE LinkCut
    BY <2>1, <2>2, PrefixRemains, ElementsRemain DEF LinkCut
  <2>3. CASE Connect \/ Disconnect
    BY <2>1, <2>3 DEF Connect, Disconnect
  <2> QED BY <2>2, <2>3
<1>4. PICK J \in Job : /\ job' = job \/ job' = [job EXCEPT ![0] = J]
                       /\ \A t \in Tasks : J.last[t] = 0
  BY IdleIsJob DEF Connect, LinkCut, Disconnect
<1>5. job' \in [Jobs -> Job] /\ \A j \in Jobs, t \in Tasks : OfTask(t, job'[j].last[t])
  <2>1. job \in [Jobs -> Job] /\ \A j \in Jobs, t \in Tasks : OfTask(t, job[j].last[t])
    BY DEF Typed, Owned, OwnedIds
  <2>2. CASE job' = job
    BY <2>1, <2>2
  <2>3. CASE job' = [job EXCEPT ![0] = J]
    <3>1. \A t \in Tasks : OfTask(t, J.last[t])
      BY <1>4 DEF OfTask
    <3>2. job'[0] = J /\ \A j \in Jobs \ {0} : job'[j] = job[j]
      BY <2>1, <2>3, Numbers
    <3> QED BY <2>1, <2>3, <3>1, <3>2
  <2> QED BY <1>4, <2>2, <2>3
<1>6. OwnedIds'
  BY <1>1, <1>5 DEF Owned, OwnedIds, OfTask, table, scheduler, schedule, started
<1>7. OwnedUp' /\ OwnedDown'
  BY <1>1, <1>2, <1>3, UpRemains, DownRemains DEF Owned, scheduler
<1> QED BY <1>1, <1>2, <1>3, <1>5, <1>6, <1>7
        DEF Typed, Owned, OwnedRuns, OwnedProcs, OfTask, table, scheduler, schedule, started, manager

-----------------------------------------------------------------------------
(* Types and owners: the launcher's steps.                                  *)

LEMMA UpdateStep ==
  ASSUME Typed, Owned, UpdateTasks
  PROVE  Typed' /\ Owned'
<1> DEFINE m == Head(to_launcher)
<1>1. /\ to_launcher # <<>> /\ to_launcher' = Tail(to_launcher)
      /\ UNCHANGED <<table, job, link, conns, to_backend, started, launches, prompts, running, manager>>
      /\ known' = m.tasks
      /\ resume_id' = [t \in Tasks |-> IF t \in m.tasks THEN m.last[t] ELSE 0]
  BY DEF UpdateTasks, Received
<1>2. next_fire' \in [Tasks -> {"never", "waiting", "due"}]
  BY DEF UpdateTasks
<1>3. m \in Down /\ OwnsDown(m)
  BY <1>1, DownRest DEF Owned, OwnedDown
<1> HIDE DEF m
<1>4. /\ known' \subseteq Tasks /\ resume_id' \in LastIds
      /\ \A t \in Tasks : OfTask(t, resume_id'[t])
  BY <1>1, <1>3 DEF Down, LastIds, OwnsDown, OfTask
<1>5. OwnedIds'
  BY <1>1, <1>4 DEF Owned, OwnedIds, OfTask, table, started
<1>6. to_launcher' \in Seq(Down) /\ OwnedDown'
  BY <1>1, DownRest, DownRemains DEF Owned
<1> QED BY <1>1, <1>2, <1>4, <1>5, <1>6
        DEF Typed, Owned, OwnedUp, OwnsUp, OwnedRuns, OwnedProcs, OfTask, table, started, manager

LEMMA TimeStep ==
  ASSUME Typed, Owned, NEW t \in Tasks, TimeComes(t)
  PROVE  Typed' /\ Owned'
  BY DEF TimeComes, Typed, Owned, OwnedIds, OwnedDown, OwnsDown, OwnedUp, OwnsUp, OwnedRuns,
         OwnedProcs, OfTask, table, wire, started, manager

\* What a run's firing does.
LEMMA FireShape ==
  ASSUME Typed, NEW t \in Tasks, FireDue(t)
  PROVE  /\ next_fire[t] = "due"
         /\ next_fire' = [next_fire EXCEPT ![t] = "waiting"]
         /\ UNCHANGED <<table, job, link, conns, to_launcher, known, resume_id, prompts,
                        running, manager>>
         /\ \/ UNCHANGED <<started, launches, to_backend>>
            \/ /\ t \notin RunningTasks
               /\ fired + 1 \in Runs /\ fired' = fired + 1
               /\ run' = [run EXCEPT ![fired + 1] = [task |-> t, resume |-> resume_id[t]]]
               /\ launches' = launches \union {fired + 1}
               /\ Message("request", fired + 1, 0) \in Up
               /\ \/ to_backend' = to_backend
                  \/ to_backend' = Append(to_backend, Message("request", fired + 1, 0))
<1>1. fired \in 0..MaxRuns /\ to_backend \in Seq(Up)
  BY DEF Typed
<1>2. fired < MaxRuns => fired + 1 \in Runs
  BY <1>1, ScheduledTasksAssumption DEF Runs
<1>3. fired + 1 \in Runs => Message("request", fired + 1, 0) \in Up
  BY MessagesAre
<1>4. CASE Overlaps(t)
  BY <1>4 DEF FireDue
<1>5. CASE ~Overlaps(t)
  <2>1. /\ fired + 1 \in Runs /\ Message("request", fired + 1, 0) \in Up
        /\ Send(<<Message("request", fired + 1, 0)>>)
    BY <1>2, <1>3, <1>5 DEF FireDue
  <2>2. to_backend' = to_backend \/ to_backend' = Append(to_backend, Message("request", fired + 1, 0))
    BY <1>1, <2>1, SendOne
  <2> QED BY <1>5, <2>1, <2>2 DEF FireDue, Overlaps
<1> QED BY <1>4, <1>5

\* Runs that were fired keep what they are when another one is.
LEMMA FiredStay ==
  ASSUME Typed, Owned, NEW R, fired + 1 \in Runs, fired' = fired + 1,
         run' = [run EXCEPT ![fired + 1] = R]
  PROVE  /\ \A r \in 1..fired : r \in 1..fired' /\ run'[r] = run[r]
         /\ \A t, s : OfTask(t, s) => OfTask(t, s)'
         /\ \A m : OwnsDown(m) => OwnsDown(m)'
         /\ \A m : OwnsUp(m) => OwnsUp(m)'
         /\ 1..fired' = (1..fired) \union {fired + 1}
         /\ fired + 1 \notin 1..fired /\ run'[fired + 1] = R
<1>1. fired \in Nat /\ fired' \in Nat
  BY ScheduledTasksAssumption DEF Typed
<1>2. /\ \A r \in 1..fired : r \in 1..fired' /\ run'[r] = run[r]
      /\ 1..fired' = (1..fired) \union {fired + 1} /\ fired + 1 \notin 1..fired
      /\ run'[fired + 1] = R
  BY <1>1 DEF Typed
<1>3. \A t, s : OfTask(t, s) => OfTask(t, s)'
  BY <1>2 DEF OfTask
<1>4. \A m : OwnsDown(m) => OwnsDown(m)'
  BY <1>2, <1>3 DEF OwnsDown
<1>5. \A m : OwnsUp(m) => OwnsUp(m)'
  BY <1>2, <1>3 DEF OwnsUp
<1> QED BY <1>2, <1>3, <1>4, <1>5

LEMMA FireStep ==
  ASSUME Typed, Owned, NEW t \in Tasks, FireDue(t)
  PROVE  Typed' /\ Owned'
<1>1. /\ next_fire' \in [Tasks -> {"never", "waiting", "due"}]
      /\ UNCHANGED <<table, job, link, conns, to_launcher, known, resume_id, prompts,
                     running, manager>>
  BY FireShape DEF Typed
<1>2. CASE UNCHANGED <<started, launches, to_backend>>
  BY <1>1, <1>2
     DEF Typed, Owned, OwnedIds, OwnedDown, OwnsDown, OwnedUp, OwnsUp, OwnedRuns,
         OwnedProcs, OfTask, table, started, manager
<1>3. CASE ~UNCHANGED <<started, launches, to_backend>>
  <2>0. PICK R, m : R = [task |-> t, resume |-> resume_id[t]] /\ m = Message("request", fired + 1, 0)
    OBVIOUS
  <2>1. /\ fired + 1 \in Runs /\ fired' = fired + 1 /\ m \in Up
        /\ run' = [run EXCEPT ![fired + 1] = R]
        /\ launches' = launches \union {fired + 1}
        /\ to_backend' = to_backend \/ to_backend' = Append(to_backend, m)
    BY <1>3, <2>0, FireShape
  <2>2. R \in [task : {0} \union Tasks, resume : {0} \union Sessions] /\ OfTask(t, R.resume)
        /\ R.task = t
    BY <2>0 DEF Typed, LastIds, Owned, OwnedIds
  <2>3. m.kind = "request" /\ m.run = fired + 1
    BY <2>0 DEF Message
  <2>4. /\ \A r \in 1..fired : r \in 1..fired' /\ run'[r] = run[r]
        /\ \A u, s : OfTask(u, s) => OfTask(u, s)'
        /\ \A n : OwnsDown(n) => OwnsDown(n)'
        /\ \A n : OwnsUp(n) => OwnsUp(n)'
        /\ 1..fired' = (1..fired) \union {fired + 1}
        /\ run'[fired + 1] = R
    BY <2>1, FiredStay
  <2>5. fired' \in 0..MaxRuns /\ launches' \subseteq Runs
        /\ run' \in [Runs -> [task : {0} \union Tasks, resume : {0} \union Sessions]]
    BY <2>1, <2>2, ScheduledTasksAssumption DEF Typed, Runs
  <2>6. /\ to_backend' \in Seq(Up)
        /\ Elements(to_backend') \subseteq Elements(to_backend) \union {m}
    <3>1. to_backend \in Seq(Up)
      BY DEF Typed
    <3>2. Append(to_backend, m) \in Seq(Up) /\ Elements(Append(to_backend, m)) = Elements(to_backend) \union {m}
      BY <2>1, <3>1, AppendParts
    <3> QED BY <2>1, <3>1, <3>2
  <2>7. Typed'
    BY <1>1, <2>5, <2>6 DEF Typed, table, manager
  <2>8. OwnedUp'
    <3>1. OwnsUp(m)'
      BY <2>3, <2>4 DEF OwnsUp
    <3>2. \A n \in Elements(to_backend') : n \in Elements(to_backend) \/ n = m
      BY <2>6
    <3>3. \A n \in Elements(to_backend') : OwnsUp(n) \/ n = m
      BY <3>2 DEF Owned, OwnedUp
    <3>4. \A n \in Elements(to_backend') : OwnsUp(n)'
      BY <2>4, <3>1, <3>3
    <3> QED BY <3>4 DEF OwnedUp, Elements
  <2>9. OwnedIds' /\ OwnedDown'
    BY <1>1, <2>4 DEF Owned, OwnedIds, OwnedDown, Elements, table
  <2>10. OwnedRuns'
    BY <2>2, <2>4 DEF Owned, OwnedRuns
  <2>11. OwnedProcs'
    BY <1>1, <2>4 DEF Owned, OwnedProcs, manager
  <2> QED BY <2>7, <2>8, <2>9, <2>10, <2>11 DEF Owned
<1> QED BY <1>2, <1>3

\* A launch is refused, or a session task is spawned for the session s.
LEMMA LaunchShape ==
  ASSUME Typed, Owned, LaunchSession
  PROVE  /\ to_launcher # <<>> /\ Head(to_launcher).kind = "launch"
         /\ to_launcher' = Tail(to_launcher)
         /\ UNCHANGED <<table, job, link, conns, to_backend, schedule, started, exits>>
         /\ launches' \subseteq launches
         /\ \/ UNCHANGED <<proc, tracked, running, prompts>>
            \/ \E r \in 1..fired, s \in Runs :
                 /\ r = Head(to_launcher).run /\ r \in Runs
                 /\ s \in Sessions /\ OfTask(run[r].task, s)
                 /\ run[r].task \in Tasks
                 /\ proc' = [proc EXCEPT ![r] =
                      [at |-> "starting", session |-> s, now |-> s, prompt |-> "none"]]
                 /\ tracked' = [tracked EXCEPT ![s] = r]
                 /\ running' = [running EXCEPT ![s] = run[r].task]
                 /\ prompts' = prompts \union {r}
<1> DEFINE r == Head(to_launcher).run
           s == IF run[r].resume # 0 THEN run[r].resume ELSE r
<1>1. /\ to_launcher # <<>> /\ Head(to_launcher).kind = "launch"
      /\ to_launcher' = Tail(to_launcher)
      /\ UNCHANGED <<table, job, link, conns, to_backend, schedule, started, exits>>
      /\ launches' \subseteq launches
  BY DEF LaunchSession, Received
<1>2. r \in 1..fired
  BY <1>1, DownRest DEF Owned, OwnedDown, OwnsDown
<1>3. r \in Runs /\ r # 0 /\ run[r].task \in Tasks /\ OfTask(run[r].task, run[r].resume)
  BY <1>2, ScheduledTasksAssumption DEF Owned, OwnedRuns, Typed, Runs
<1>4. /\ s \in Runs /\ s \in Sessions /\ OfTask(run[r].task, s)
  BY <1>2, <1>3, OfTaskIs, Numbers DEF OfTask
<1>5. \/ UNCHANGED <<proc, tracked, running, prompts>>
      \/ /\ proc' = [proc EXCEPT ![r] =
              [at |-> "starting", session |-> s, now |-> s, prompt |-> "none"]]
         /\ tracked' = [tracked EXCEPT ![s] = r]
         /\ running' = [running EXCEPT ![s] = run[r].task]
         /\ prompts' = prompts \union {r}
  BY DEF LaunchSession, TaskOf
<1> HIDE DEF s, r
<1>6. \/ UNCHANGED <<proc, tracked, running, prompts>>
      \/ \E q \in 1..fired, x \in Runs :
                 /\ q = r /\ q \in Runs
                 /\ x \in Sessions /\ OfTask(run[q].task, x)
                 /\ run[q].task \in Tasks
                 /\ proc' = [proc EXCEPT ![q] =
                      [at |-> "starting", session |-> x, now |-> x, prompt |-> "none"]]
                 /\ tracked' = [tracked EXCEPT ![x] = q]
                 /\ running' = [running EXCEPT ![x] = run[q].task]
                 /\ prompts' = prompts \union {q}
  BY <1>2, <1>3, <1>4, <1>5
<1> QED BY <1>1, <1>6 DEF r

LEMMA LaunchStep ==
  ASSUME Typed, Owned, LaunchSession
  PROVE  Typed' /\ Owned'
<1>1. /\ to_launcher # <<>> /\ to_launcher' = Tail(to_launcher)
      /\ UNCHANGED <<table, job, link, conns, to_backend, schedule, started, exits>>
      /\ launches' \subseteq launches
  BY LaunchShape
<1>2. to_launcher' \in Seq(Down) /\ OwnedDown'
  BY <1>1, DownRest, DownRemains DEF Owned
<1>3. OwnedIds' /\ OwnedUp' /\ OwnedRuns'
  BY <1>1 DEF Owned, OwnedIds, OwnedUp, Elements, OwnsUp, OwnedRuns, OfTask, table, schedule, started
<1>4. CASE UNCHANGED <<proc, tracked, running, prompts>>
  <2>1. OwnedProcs'
    BY <1>1, <1>4 DEF Owned, OwnedProcs, OfTask, started
  <2> QED BY <1>1, <1>2, <1>3, <1>4, <2>1 DEF Typed, Owned, table, schedule, started
<1>5. CASE ~UNCHANGED <<proc, tracked, running, prompts>>
  <2>1. PICK r \in 1..fired, s \in Runs :
                 /\ r \in Runs
                 /\ s \in Sessions /\ OfTask(run[r].task, s)
                 /\ run[r].task \in Tasks
                 /\ proc' = [proc EXCEPT ![r] =
                      [at |-> "starting", session |-> s, now |-> s, prompt |-> "none"]]
                 /\ tracked' = [tracked EXCEPT ![s] = r]
                 /\ running' = [running EXCEPT ![s] = run[r].task]
                 /\ prompts' = prompts \union {r}
    BY <1>5, LaunchShape
  <2>2. s # 0
    BY Numbers
  <2>3. /\ proc' \in [Runs -> Proc]
        /\ proc'[r].at = "starting" /\ proc'[r].now = s /\ proc'[r].session = s
        /\ \A q \in Runs \ {r} : proc'[q] = proc[q]
    BY <2>1 DEF Typed, Proc
  <2>4. /\ running' \in [Sessions -> {0} \union Tasks]
        /\ running'[s] = run[r].task /\ \A x \in Sessions \ {s} : running'[x] = running[x]
    BY <2>1 DEF Typed
  <2>5. tracked' \in [Sessions -> {0} \union Runs] /\ prompts' \subseteq Runs
    BY <2>1 DEF Typed
  <2>6. \A q \in Runs : proc'[q].at # "none" =>
         /\ q \in 1..fired
         /\ proc'[q].now # 0
         /\ proc'[q].session # 0 /\ OfTask(run[q].task, proc'[q].session)
    BY <2>1, <2>2, <2>3 DEF Owned, OwnedProcs
  <2>7. \A q \in prompts' : proc'[q].at # "none"
    BY <2>1, <2>3 DEF Owned, OwnedProcs, Typed
  <2>8. \A x \in Sessions : running'[x] # 0 => OfTask(running'[x], x)
    BY <2>1, <2>4 DEF Owned, OwnedProcs
  <2>10. \A x \in Sessions : tracked'[x] # 0 => proc'[tracked'[x]].at # "none"
    BY <2>1, <2>3 DEF Owned, OwnedProcs, Typed
  <2>9. OwnedProcs'
    BY <1>1, <2>6, <2>7, <2>8, <2>10 DEF OwnedProcs, OfTask, started
  <2> QED BY <1>1, <1>2, <1>3, <2>3, <2>4, <2>5, <2>9 DEF Typed, Owned, table, schedule, started
<1> QED BY <1>4, <1>5

\* What the two messages of a prompt are.
LEMMA PromptShape ==
  ASSUME Typed, NEW r \in Runs, SendPrompt(r)
  PROVE  /\ r \in prompts /\ prompts' = prompts \ {r}
         /\ UNCHANGED <<table, job, link, conns, to_launcher, schedule, started, launches,
                        running, manager>>
         /\ Message("started", r, proc[r].session) \in Up
         /\ Message("inject", r, proc[r].session) \in Up
         /\ \/ to_backend' = to_backend
            \/ to_backend' = Append(Append(to_backend, Message("started", r, proc[r].session)),
                                    Message("inject", r, proc[r].session))
<1>1. proc[r].session \in {0} \union Sessions /\ to_backend \in Seq(Up)
  BY DEF Typed, Proc
<1>2. /\ Message("started", r, proc[r].session) \in Up
      /\ Message("inject", r, proc[r].session) \in Up
  BY <1>1, MessagesAre
<1>3. Send(<<Message("started", r, proc[r].session), Message("inject", r, proc[r].session)>>)
  BY DEF SendPrompt
<1>4. \/ to_backend' = to_backend
      \/ to_backend' = Append(Append(to_backend, Message("started", r, proc[r].session)),
                              Message("inject", r, proc[r].session))
  BY <1>1, <1>2, <1>3, SendTwo
<1> QED BY <1>2, <1>4 DEF SendPrompt

LEMMA PromptStep ==
  ASSUME Typed, Owned, NEW r \in Runs, SendPrompt(r)
  PROVE  Typed' /\ Owned'
<1>0. PICK m, n : /\ m = Message("started", r, proc[r].session)
                  /\ n = Message("inject", r, proc[r].session)
  OBVIOUS
<1>1. /\ r \in prompts /\ prompts' = prompts \ {r} /\ m \in Up /\ n \in Up
      /\ UNCHANGED <<table, job, link, conns, to_launcher, schedule, started, launches,
                     running, manager>>
      /\ to_backend' = to_backend \/ to_backend' = Append(Append(to_backend, m), n)
  BY <1>0, PromptShape
<1>2. OwnsUp(m) /\ OwnsUp(n)
  BY <1>0, <1>1 DEF OwnsUp, Message, Owned, OwnedProcs
<1>3. to_backend' \in Seq(Up) /\ Elements(to_backend') \subseteq Elements(to_backend) \union {m, n}
  <2>1. to_backend \in Seq(Up)
    BY DEF Typed
  <2>2. Append(to_backend, m) \in Seq(Up) /\ Elements(Append(to_backend, m)) = Elements(to_backend) \union {m}
    BY <1>1, <2>1, AppendParts
  <2>3. /\ Append(Append(to_backend, m), n) \in Seq(Up)
        /\ Elements(Append(Append(to_backend, m), n)) = Elements(Append(to_backend, m)) \union {n}
    <3>1. PICK q \in Seq(Up) : q = Append(to_backend, m)
      BY <2>2
    <3>2. Append(q, n) \in Seq(Up) /\ Elements(Append(q, n)) = Elements(q) \union {n}
      BY <1>1, AppendParts
    <3> QED BY <3>1, <3>2
  <2> QED BY <1>1, <2>1, <2>2, <2>3
<1>4. OwnedUp'
  BY <1>1, <1>2, <1>3, UpSent DEF Owned
<1> QED BY <1>1, <1>3, <1>4
        DEF Typed, Owned, OwnedIds, OwnedDown, OwnsDown, OwnedRuns, OwnedProcs, OfTask, table,
            schedule, started, manager

\* The report of an end is for a session the scheduler took for running.
LEMMA ExitedShape ==
  ASSUME Typed, SessionExited
  PROVE  \E s \in Sessions, m \in Up :
           /\ exits # <<>> /\ s = Head(exits) /\ exits' = Tail(exits)
           /\ m = Message("completed", 0, s)
           /\ tracked' = [tracked EXCEPT ![s] = 0]
           /\ running' = [running EXCEPT ![s] = 0]
           /\ prompts' \subseteq prompts
           /\ UNCHANGED <<table, job, link, conns, to_launcher, schedule, started, launches, proc>>
           /\ \/ to_backend' = to_backend
              \/ running[s] # 0 /\ to_backend' = Append(to_backend, m)
<1> DEFINE s == Head(exits)
           m == Message("completed", 0, s)
<1>1. /\ exits # <<>> /\ exits' = Tail(exits)
      /\ tracked' = [tracked EXCEPT ![s] = 0]
      /\ running' = [running EXCEPT ![s] = 0]
      /\ prompts' \subseteq prompts
      /\ UNCHANGED <<table, job, link, conns, to_launcher, schedule, started, launches, proc>>
      /\ Send(IF running[s] # 0 THEN <<m>> ELSE <<>>)
  BY DEF SessionExited
<1>2. s \in Sessions
  BY <1>1 DEF Typed
<1>3. m \in Up
  BY <1>2, MessagesAre
<1> HIDE DEF s, m
<1>4. \/ to_backend' = to_backend
      \/ running[s] # 0 /\ to_backend' = Append(to_backend, m)
  <2>1. to_backend \in Seq(Up)
    BY DEF Typed
  <2>2. CASE running[s] # 0
    BY <1>1, <1>3, <2>1, <2>2, SendOne
  <2>3. CASE running[s] = 0
    BY <1>1, <2>1, <2>3, SendNone
  <2> QED BY <2>2, <2>3
<1> QED BY <1>1, <1>2, <1>3, <1>4 DEF s, m

LEMMA ExitedStep ==
  ASSUME Typed, Owned, SessionExited
  PROVE  Typed' /\ Owned'
<1>1. PICK s \in Sessions, m \in Up :
           /\ exits # <<>> /\ exits' = Tail(exits)
           /\ m = Message("completed", 0, s)
           /\ tracked' = [tracked EXCEPT ![s] = 0]
           /\ running' = [running EXCEPT ![s] = 0]
           /\ prompts' \subseteq prompts
           /\ UNCHANGED <<table, job, link, conns, to_launcher, schedule, started, launches, proc>>
           /\ \/ to_backend' = to_backend
              \/ running[s] # 0 /\ to_backend' = Append(to_backend, m)
  BY ExitedShape
<1>2. /\ tracked' \in [Sessions -> {0} \union Runs]
      /\ running' \in [Sessions -> {0} \union Tasks]
      /\ \A x \in Sessions : running'[x] \in {0, running[x]}
      /\ exits' \in Seq(Sessions)
  BY <1>1 DEF Typed
<1>3. /\ to_backend' \in Seq(Up) /\ OwnedUp'
  <2>1. to_backend \in Seq(Up)
    BY DEF Typed
  <2>2. CASE to_backend' = to_backend
    BY <1>1, <2>1, <2>2, UpRemains DEF Owned
  <2>3. CASE running[s] # 0 /\ to_backend' = Append(to_backend, m)
    <3>1. OwnsUp(m)
      <4>1. s \in 1..fired
        BY <2>3, Numbers DEF Owned, OwnedProcs, OfTask
      <4>2. m.kind = "completed" /\ m.session = s
        BY <1>1 DEF Message
      <4> QED BY <4>1, <4>2 DEF OwnsUp
    <3>2. Append(to_backend, m) \in Seq(Up) /\ Elements(Append(to_backend, m)) = Elements(to_backend) \union {m}
      BY <2>1, AppendParts
    <3> QED BY <1>1, <2>3, <3>1, <3>2, UpSent DEF Owned
  <2> QED BY <1>1, <2>2, <2>3
<1>4. OwnedProcs'
  <2>1. \A x \in Sessions : tracked'[x] \in {0, tracked[x]}
    BY <1>1 DEF Typed
  <2> QED BY <1>1, <1>2, <2>1 DEF Owned, OwnedProcs, OfTask, started
<1> QED BY <1>1, <1>2, <1>3, <1>4
        DEF Typed, Owned, OwnedIds, OwnedDown, OwnsDown, OwnedRuns, OfTask, table, schedule, started

LEMMA ReportStep ==
  ASSUME Typed, Owned, ReportFails
  PROVE  Typed' /\ Owned'
<1>1. /\ exits # <<>> /\ exits' = Tail(exits) /\ link' = "down"
      /\ tracked' = [tracked EXCEPT ![Head(exits)] = 0]
      /\ UNCHANGED <<table, job, conns, to_launcher, to_backend, scheduler, proc>>
  BY DEF ReportFails
<1>2. /\ exits' \in Seq(Sessions) /\ tracked' \in [Sessions -> {0} \union Runs]
      /\ \A x \in Sessions : tracked'[x] \in {0, tracked[x]}
  BY <1>1 DEF Typed
<1>3. OwnedProcs'
  BY <1>1, <1>2 DEF Owned, OwnedProcs, OfTask, scheduler, started
<1> QED BY <1>1, <1>2, <1>3
        DEF Typed, Owned, OwnedIds, OwnedDown, OwnsDown, OwnedUp, OwnsUp, OwnedRuns,
            OfTask, table, scheduler, schedule, started

-----------------------------------------------------------------------------
(* Types and owners: the session tasks.                                     *)

\* A stop forgets the session; its task, if it runs, is over, and says so unless
\* it has to be aborted.
LEMMA StopShape ==
  ASSUME Typed, Owned, NEW s \in Sessions, Stop(s)
  PROVE  /\ UNCHANGED <<table, job, wire, scheduler>>
         /\ tracked' = [tracked EXCEPT ![s] = 0]
         /\ \E r \in Runs :
              /\ tracked[s] = r
              /\ \/ proc[r].at = "over" /\ UNCHANGED <<proc, exits>>
                 \/ /\ proc[r].at # "over"
                    /\ proc' = [proc EXCEPT ![r] = [@ EXCEPT !.at = "over"]]
                    /\ exits' = Append(exits, s) \/ ("stubborn" \in Faults /\ exits' = exits)
<1>1. tracked[s] \in Runs
  BY DEF Stop, Typed
<1>2. \/ proc[tracked[s]].at = "over" /\ UNCHANGED <<proc, exits>>
      \/ /\ proc[tracked[s]].at # "over"
         /\ proc' = [proc EXCEPT ![tracked[s]] = [@ EXCEPT !.at = "over"]]
         /\ exits' = Append(exits, s) \/ ("stubborn" \in Faults /\ exits' = exits)
  BY DEF Stop
<1> QED BY <1>1, <1>2 DEF Stop

LEMMA TaskStep ==
  ASSUME Typed, Owned,
         \/ \E s \in Sessions : Stop(s)
         \/ \E r \in Runs : Register(r) \/ Replace(r) \/ Exit(r)
  PROVE  Typed' /\ Owned'
<1>0. \A r \in Runs : /\ MaxRuns + r \in Sessions /\ MaxRuns + r # 0
                      /\ proc[r] \in Proc
                      /\ proc[r].at # "none" =>
                           /\ proc[r].session \in Sessions /\ proc[r].now \in Sessions
                           /\ proc[r].now # 0
  BY Numbers DEF Typed, Proc, Owned, OwnedProcs
<1>1. ASSUME NEW s \in Sessions, Stop(s) PROVE Typed' /\ Owned'
  <2>1. PICK r \in Runs :
              /\ tracked[s] = r
              /\ \/ proc[r].at = "over" /\ UNCHANGED <<proc, exits>>
                 \/ /\ proc[r].at # "over"
                    /\ proc' = [proc EXCEPT ![r] = [@ EXCEPT !.at = "over"]]
                    /\ exits' = Append(exits, s) \/ ("stubborn" \in Faults /\ exits' = exits)
    BY <1>1, StopShape
  <2>2. /\ UNCHANGED <<table, job, wire, scheduler>>
        /\ tracked' \in [Sessions -> {0} \union Runs]
    BY <1>1, StopShape DEF Typed
  <2>3. exits' \in Seq(Sessions)
    <3>1. exits \in Seq(Sessions) /\ Append(exits, s) \in Seq(Sessions)
      BY DEF Typed
    <3> QED BY <2>1, <3>1
  <2>4. proc[r].at # "none"
    BY <1>1, <2>1 DEF Stop, Owned, OwnedProcs
  <2>5. /\ proc' \in [Runs -> Proc]
        /\ \A q \in Runs : \/ proc'[q] = proc[q]
                           \/ /\ proc[q].at # "none" /\ proc'[q].session = proc[q].session
                              /\ proc'[q].at # "none" /\ proc'[q].now # 0
    <3>1. proc[r] \in Proc /\ proc[r].now # 0
      BY <1>0, <2>4
    <3>2. CASE UNCHANGED proc
      BY <3>2 DEF Typed
    <3>3. CASE proc' = [proc EXCEPT ![r] = [@ EXCEPT !.at = "over"]]
      BY <2>4, <3>1, <3>3 DEF Typed, Proc
    <3> QED BY <2>1, <3>2, <3>3
  <2>6. \A x \in Sessions : tracked'[x] \in {0, tracked[x]}
    BY <1>1, StopShape DEF Typed
  <2>7. OwnedProcs'
    BY <2>2, <2>5, <2>6, ProcsMove DEF scheduler
  <2> QED BY <2>2, <2>3, <2>5, <2>7
          DEF Typed, Owned, OwnedIds, OwnedDown, OwnsDown, OwnedUp, OwnsUp, OwnedRuns,
              OfTask, table, wire, scheduler, schedule, started
<1>2. ASSUME NEW r \in Runs, Register(r) \/ Replace(r) \/ Exit(r) PROVE Typed' /\ Owned'
  <2>1. /\ UNCHANGED <<row, last_session, edits, job, wire, scheduler, tracked>>
        /\ proc[r].at \in {"starting", "registered"}
        /\ sessions' \in {sessions, sessions \union {proc[r].now}}
        /\ exits' \in {exits, Append(exits, proc[r].session)}
        /\ \/ proc' = [proc EXCEPT ![r] = [@ EXCEPT !.at = "registered"]]
           \/ proc' = [proc EXCEPT ![r] = [@ EXCEPT !.at = "starting", !.now = MaxRuns + r]]
           \/ proc' = [proc EXCEPT ![r] = [@ EXCEPT !.at = "over"]]
    BY <1>2 DEF Register, Replace, Exit, table
  <2>2. proc[r].now \in Sessions /\ proc[r].session \in Sessions
    BY <1>0, <2>1
  <2>3. sessions' \subseteq Sessions /\ exits' \in Seq(Sessions)
    <3>1. exits \in Seq(Sessions) /\ Append(exits, proc[r].session) \in Seq(Sessions)
      BY <2>2 DEF Typed
    <3>2. sessions \union {proc[r].now} \subseteq Sessions /\ sessions \subseteq Sessions
      BY <2>2 DEF Typed
    <3> QED BY <2>1, <3>1, <3>2
  <2>4. /\ proc' \in [Runs -> Proc]
        /\ \A q \in Runs : \/ proc'[q] = proc[q]
                           \/ /\ proc[q].at # "none" /\ proc'[q].session = proc[q].session
                              /\ proc'[q].at # "none" /\ proc'[q].now # 0
    <3>1. /\ proc[r] \in Proc /\ proc[r].at # "none" /\ proc[r].now # 0
          /\ MaxRuns + r \in Sessions /\ MaxRuns + r # 0
      BY <1>0, <2>1
    <3>2. CASE proc' = [proc EXCEPT ![r] = [@ EXCEPT !.at = "registered"]]
      BY <3>1, <3>2 DEF Typed, Proc
    <3>3. CASE proc' = [proc EXCEPT ![r] = [@ EXCEPT !.at = "starting", !.now = MaxRuns + r]]
      BY <3>1, <3>3 DEF Typed, Proc
    <3>4. CASE proc' = [proc EXCEPT ![r] = [@ EXCEPT !.at = "over"]]
      BY <3>1, <3>4 DEF Typed, Proc
    <3> QED BY <2>1, <3>2, <3>3, <3>4
  <2>5. OwnedProcs'
    <3>1. \A x \in Sessions : tracked'[x] \in {0, tracked[x]}
      BY <2>1
    <3> QED BY <2>1, <2>4, <3>1, ProcsMove DEF scheduler
  <2> QED BY <2>1, <2>3, <2>4, <2>5
          DEF Typed, Owned, OwnedIds, OwnedDown, OwnsDown, OwnedUp, OwnsUp, OwnedRuns,
              OfTask, wire, scheduler, schedule, started
<1> QED BY <1>1, <1>2

LEMMA InitOwned == Init => Typed /\ Owned
<1> SUFFICES ASSUME Init PROVE Typed /\ Owned
  OBVIOUS
<1> USE ScheduledTasksAssumption, Numbers, IdleIsJob DEF Init
<1>1. Typed
  <2>1. Unspawned \in Proc
    BY DEF Unspawned, Proc
  <2>2. <<>> \in Seq(Up) /\ <<>> \in Seq(Down) /\ <<>> \in Seq(Sessions)
    OBVIOUS
  <2>3. /\ row \in [Tasks -> {"enabled", "disabled", "deleted"}]
        /\ last_session \in LastIds /\ resume_id \in LastIds
        /\ job \in [Jobs -> Job]
        /\ next_fire \in [Tasks -> {"never", "waiting", "due"}]
        /\ running \in [Sessions -> {0} \union Tasks]
        /\ tracked \in [Sessions -> {0} \union Runs]
    BY DEF LastIds
  <2>4. /\ run \in [Runs -> [task : {0} \union Tasks, resume : {0} \union Sessions]]
        /\ proc \in [Runs -> Proc]
    BY <2>1
  <2> QED BY <2>2, <2>3, <2>4 DEF Typed
<1>2. Elements(to_launcher) = {} /\ Elements(to_backend) = {}
  BY DEF Elements
<1>3. 1..fired = {}
  OBVIOUS
<1>4. OwnedIds
  BY DEF OwnedIds, OfTask
<1>5. OwnedProcs
  BY DEF OwnedProcs, Unspawned
<1> QED BY <1>1, <1>2, <1>3, <1>4, <1>5 DEF Owned, OwnedDown, OwnedUp, OwnedRuns

LEMMA TypedStep == Typed /\ Owned /\ [Next]_vars => Typed' /\ Owned'
<1> SUFFICES ASSUME Typed, Owned, [Next]_vars PROVE Typed' /\ Owned'
  OBVIOUS
<1>1. CASE Backend
  BY <1>1, LoadStep, SyncStep, RequestStep, StartedStep, InjectStep, CompletedStep DEF Backend
<1>2. CASE Launcher
  BY <1>2, ConnectStep, UpdateStep, LaunchStep, ExitedStep, ReportStep, FireStep, PromptStep
     DEF Launcher
<1>3. CASE LinkCut
  BY <1>3, ConnectStep
<1>4. CASE \E e \in Editors, t \in Tasks : EditTask(e, t)
  BY <1>4, EditStep
<1>5. CASE \E t \in Tasks : TimeComes(t)
  BY <1>5, TimeStep
<1>6. CASE \/ \E s \in Sessions : Stop(s)
           \/ \E r \in Runs : Register(r) \/ Replace(r) \/ Exit(r)
  BY <1>6, TaskStep
<1>7. CASE UNCHANGED vars
  BY <1>7
     DEF Typed, Owned, OwnedIds, OwnedDown, OwnsDown, OwnedUp, OwnsUp, OwnedRuns, OwnedProcs,
         OfTask, vars, table, wire, scheduler, schedule, started, manager
<1> QED BY <1>1, <1>2, <1>3, <1>4, <1>5, <1>6, <1>7 DEF Next

\* Every variable keeps its type, whatever goes wrong and however often a task
\* becomes due: launches, prompts and reports name runs that were fired, and a task
\* only ever resumes a session of its own runs.
THEOREM TypeCorrect == Spec => []TypeOK
<1>1. Init => Typed /\ Owned
  BY InitOwned
<1>2. Typed /\ Owned /\ [Next]_vars => (Typed /\ Owned)'
  BY TypedStep
<1>3. Typed /\ Owned => TypeOK
  BY TypesAreNamed
<1> QED BY <1>1, <1>2, <1>3, PTL DEF Spec

-----------------------------------------------------------------------------
(* One launch of a task is under way at a time.                             *)

\* The places of a queue are numbers, and what an ask names was fired.
LEMMA AskPlaces ==
  ASSUME Typed, Owned
  PROVE  /\ Requests \subseteq Nat /\ Launches \subseteq Nat
         /\ \A i \in Requests :
              /\ to_backend[i] \in Up /\ to_backend[i].run \in 1..fired
              /\ to_backend[i].run \in Runs /\ RequestedTask(i) \in Tasks
         /\ \A i \in Launches :
              /\ to_launcher[i] \in Down /\ to_launcher[i].run \in 1..fired
              /\ to_launcher[i].run \in Runs /\ LaunchedTask(i) \in Tasks
<1>1. to_backend \in Seq(Up) /\ to_launcher \in Seq(Down) /\ 1..fired \subseteq Runs
  BY ScheduledTasksAssumption DEF Typed, Runs
<1>2. \A i \in Requests : to_backend[i] \in Elements(to_backend) /\ to_backend[i] \in Up
  BY <1>1, ElementsAre DEF Requests
<1>3. \A i \in Launches : to_launcher[i] \in Elements(to_launcher) /\ to_launcher[i] \in Down
  BY <1>1, ElementsAre DEF Launches
<1>4. \A i \in Requests : to_backend[i].run \in 1..fired
  BY <1>2 DEF Requests, Owned, OwnedUp, OwnsUp
<1>5. \A i \in Launches : to_launcher[i].run \in 1..fired
  BY <1>3 DEF Launches, Owned, OwnedDown, OwnsDown
<1>6. Requests \subseteq Nat /\ Launches \subseteq Nat
  BY <1>1 DEF Requests, Launches
<1> QED BY <1>1, <1>2, <1>3, <1>4, <1>5, <1>6 DEF Owned, OwnedRuns, RequestedTask, LaunchedTask

\* The asks that remain after a step are alone for their tasks if they were.
LEMMA AsksRemain ==
  ASSUME Typed, Owned, OneAsk, Requests' \subseteq Nat, Launches' \subseteq Nat,
         NEW d \in Nat, NEW e \in Nat,
         \A i \in Requests' : i + d \in Requests /\ to_backend'[i] = to_backend[i + d],
         \A i \in Launches' : i + e \in Launches /\ to_launcher'[i] = to_launcher[i + e],
         \A r \in 1..fired : run'[r] = run[r]
  PROVE  /\ \A i \in Requests' : to_backend'[i].run \in 1..fired /\ Startable(to_backend'[i].run)
         /\ \A i \in Launches' : to_launcher'[i].run \in 1..fired /\ Startable(to_launcher'[i].run)
         /\ \A i, j \in Requests' : RequestedTask(i)' = RequestedTask(j)' => i = j
         /\ \A i, j \in Launches' : LaunchedTask(i)' = LaunchedTask(j)' => i = j
         /\ \A i \in Requests', j \in Launches' : RequestedTask(i)' # LaunchedTask(j)'
<1>1. \A i \in Requests' : /\ to_backend'[i].run \in 1..fired /\ Startable(to_backend'[i].run)
                           /\ RequestedTask(i)' = RequestedTask(i + d)
  BY AskPlaces DEF OneAsk, RequestedTask
<1>2. \A i \in Launches' : /\ to_launcher'[i].run \in 1..fired /\ Startable(to_launcher'[i].run)
                           /\ LaunchedTask(i)' = LaunchedTask(i + e)
  BY AskPlaces DEF OneAsk, LaunchedTask
<1>3. \A i, j \in Requests' : RequestedTask(i)' = RequestedTask(j)' => i = j
  <2> SUFFICES ASSUME NEW i \in Requests', NEW j \in Requests', RequestedTask(i)' = RequestedTask(j)'
      PROVE  i = j
    OBVIOUS
  <2>1. i + d = j + d
    BY <1>1 DEF OneAsk
  <2> QED BY <2>1
<1>4. \A i, j \in Launches' : LaunchedTask(i)' = LaunchedTask(j)' => i = j
  <2> SUFFICES ASSUME NEW i \in Launches', NEW j \in Launches', LaunchedTask(i)' = LaunchedTask(j)'
      PROVE  i = j
    OBVIOUS
  <2>1. i + e = j + e
    BY <1>2 DEF OneAsk
  <2> QED BY <2>1
<1>5. \A i \in Requests', j \in Launches' : RequestedTask(i)' # LaunchedTask(j)'
  BY <1>1, <1>2 DEF OneAsk
<1> QED BY <1>1, <1>2, <1>3, <1>4, <1>5

\* Nothing changes when no task starts to run or becomes due.
LEMMA AskQuiet ==
  ASSUME Typed, Owned, OneAsk, Requests' \subseteq Nat, Launches' \subseteq Nat, UNCHANGED run,
         NEW d \in Nat, NEW e \in Nat,
         \A i \in Requests' : i + d \in Requests /\ to_backend'[i] = to_backend[i + d],
         \A i \in Launches' : i + e \in Launches /\ to_launcher'[i] = to_launcher[i + e],
         \A r \in Runs : proc[r].at = "none" => proc'[r].at = "none",
         \A s \in Sessions : running'[s] \in {0, running[s]},
         \A t \in Tasks : next_fire'[t] = "due" => next_fire[t] = "due"
  PROVE  OneAsk'
<1>1. /\ \A i \in Requests' : to_backend'[i].run \in 1..fired /\ Startable(to_backend'[i].run)
      /\ \A i \in Launches' : to_launcher'[i].run \in 1..fired /\ Startable(to_launcher'[i].run)
      /\ \A i, j \in Requests' : RequestedTask(i)' = RequestedTask(j)' => i = j
      /\ \A i, j \in Launches' : LaunchedTask(i)' = LaunchedTask(j)' => i = j
      /\ \A i \in Requests', j \in Launches' : RequestedTask(i)' # LaunchedTask(j)'
  BY AsksRemain
<1>2. \A r \in 1..fired : Startable(r) =>
        proc'[r].at = "none" /\ run'[r].task \notin RunningTasks' /\ next_fire'[run'[r].task] # "due"
  <2> SUFFICES ASSUME NEW r \in 1..fired, Startable(r)
      PROVE  proc'[r].at = "none" /\ run'[r].task \notin RunningTasks' /\ next_fire'[run'[r].task] # "due"
    OBVIOUS
  <2>1. r \in Runs /\ run[r].task \in Tasks
    BY ScheduledTasksAssumption DEF Typed, Runs, Owned, OwnedRuns
  <2>2. RunningTasks' \subseteq RunningTasks
    BY DEF RunningTasks
  <2> QED BY <2>1, <2>2 DEF Startable
<1>3. /\ \A i \in Requests' : Startable(to_backend[i].run)'
      /\ \A i \in Launches' : Startable(to_launcher[i].run)'
  BY <1>1, <1>2 DEF Startable
<1> QED BY <1>1, <1>3 DEF OneAsk

LEMMA RequestsRemain ==
  ASSUME NEW d, Remains(to_backend', d, to_backend)
  PROVE  d \in Nat /\ \A i \in Requests' : i + d \in Requests /\ to_backend'[i] = to_backend[i + d]
  BY DEF Remains, Requests

LEMMA LaunchesRemain ==
  ASSUME NEW e, Remains(to_launcher', e, to_launcher)
  PROVE  e \in Nat /\ \A i \in Launches' : i + e \in Launches /\ to_launcher'[i] = to_launcher[i + e]
  BY DEF Remains, Launches

LEMMA RequestsSent ==
  ASSUME Typed, NEW m \in Up, m.kind # "request", to_backend' = Append(to_backend, m)
  PROVE  \A i \in Requests' : i + 0 \in Requests /\ to_backend'[i] = to_backend[i + 0]
<1>1. to_backend \in Seq(Up)
  BY DEF Typed
<1>2. /\ DOMAIN to_backend = 1..Len(to_backend)
      /\ DOMAIN to_backend' = DOMAIN to_backend \union {Len(to_backend) + 1}
      /\ to_backend'[Len(to_backend) + 1] = m
      /\ \A i \in DOMAIN to_backend : to_backend'[i] = to_backend[i]
  BY <1>1, AppendParts
<1>3. \A i \in Requests' : i \in DOMAIN to_backend /\ i + 0 = i
  BY <1>2 DEF Requests
<1> QED BY <1>2, <1>3 DEF Requests

LEMMA LaunchesSent ==
  ASSUME Typed, NEW m \in Down, m.kind # "launch", to_launcher' = Append(to_launcher, m)
  PROVE  \A i \in Launches' : i + 0 \in Launches /\ to_launcher'[i] = to_launcher[i + 0]
<1>1. to_launcher \in Seq(Down)
  BY DEF Typed
<1>2. /\ DOMAIN to_launcher = 1..Len(to_launcher)
      /\ DOMAIN to_launcher' = DOMAIN to_launcher \union {Len(to_launcher) + 1}
      /\ to_launcher'[Len(to_launcher) + 1] = m
      /\ \A i \in DOMAIN to_launcher : to_launcher'[i] = to_launcher[i]
  BY <1>1, AppendParts
<1>3. \A i \in Launches' : i \in DOMAIN to_launcher /\ i + 0 = i
  BY <1>2 DEF Launches
<1> QED BY <1>2, <1>3 DEF Launches

\* The requests and launches that are there after a step that neither asks nor
\* answers were there before it.
LEMMA QueuesQuiet ==
  ASSUME Typed, Owned,
         \/ \E j \in Jobs : LoadTasks(j) \/ SendSync(j)
         \/ ReceiveStarted \/ ReceiveInject \/ ReceiveCompleted
         \/ Connect \/ Disconnect \/ UpdateTasks \/ SessionExited \/ ReportFails
         \/ \E r \in Runs : SendPrompt(r)
         \/ LinkCut
         \/ \E e \in Editors, t \in Tasks : EditTask(e, t)
         \/ \E t \in Tasks : TimeComes(t)
         \/ \E s \in Sessions : Stop(s)
         \/ \E r \in Runs : Register(r) \/ Replace(r) \/ Exit(r)
  PROVE  \E d, e \in Nat :
           /\ \A i \in Requests' : i + d \in Requests /\ to_backend'[i] = to_backend[i + d]
           /\ \A i \in Launches' : i + e \in Launches /\ to_launcher'[i] = to_launcher[i + e]
<1>0. to_backend \in Seq(Up) /\ to_launcher \in Seq(Down)
  BY DEF Typed
<1>1. /\ Remains(to_backend, 0, to_backend) /\ Remains(<<>>, 0, to_backend)
      /\ Remains(to_launcher, 0, to_launcher) /\ Remains(<<>>, 0, to_launcher)
  BY <1>0, SameRemains
<1>2. ASSUME UNCHANGED to_backend
      PROVE  \A i \in Requests' : i + 0 \in Requests /\ to_backend'[i] = to_backend[i + 0]
  BY <1>1, <1>2, RequestsRemain
<1>3. ASSUME to_launcher' \in {to_launcher, <<>>}
      PROVE  \A i \in Launches' : i + 0 \in Launches /\ to_launcher'[i] = to_launcher[i + 0]
  BY <1>1, <1>3, LaunchesRemain
<1>4. CASE \/ \E j \in Jobs : LoadTasks(j)
           \/ Connect \/ Disconnect \/ ReportFails
           \/ \E e \in Editors, t \in Tasks : EditTask(e, t)
           \/ \E t \in Tasks : TimeComes(t)
           \/ \E s \in Sessions : Stop(s)
           \/ \E r \in Runs : Register(r) \/ Replace(r) \/ Exit(r)
  <2>1. UNCHANGED to_backend /\ to_launcher' \in {to_launcher, <<>>}
    BY <1>4 DEF LoadTasks, Connect, Disconnect, ReportFails, EditTask, TimeComes, Stop, Register,
       Replace, Exit, wire
  <2> QED BY <1>2, <1>3, <2>1
<1>5. CASE \E j \in Jobs : SendSync(j)
  <2>1. PICK j \in Jobs : SendSync(j)
    BY <1>5
  <2>2. /\ UNCHANGED to_backend
        /\ to_launcher' = to_launcher \/ to_launcher' = Append(to_launcher, ScheduleSync(job[j]))
    BY <2>1 DEF SendSync
  <2>3. ScheduleSync(job[j]) \in Down /\ ScheduleSync(job[j]).kind # "launch"
    BY MessagesAre DEF Typed, ScheduleSync
  <2>4. \A i \in Launches' : i + 0 \in Launches /\ to_launcher'[i] = to_launcher[i + 0]
    <3>1. CASE to_launcher' = to_launcher
      BY <1>3, <3>1
    <3>2. CASE to_launcher' = Append(to_launcher, ScheduleSync(job[j]))
      BY <2>3, <3>2, LaunchesSent
    <3> QED BY <2>2, <3>1, <3>2
  <2> QED BY <1>2, <2>2, <2>4
<1>6. CASE ReceiveStarted \/ ReceiveInject \/ ReceiveCompleted
  <2>1. to_backend # <<>> /\ to_backend' = Tail(to_backend) /\ UNCHANGED to_launcher
    BY <1>6 DEF ReceiveStarted, ReceiveInject, ReceiveCompleted
  <2>2. Remains(to_backend', 1, to_backend)
    BY <1>0, <2>1, TailRemains
  <2>3. \A i \in Requests' : i + 1 \in Requests /\ to_backend'[i] = to_backend[i + 1]
    BY <2>2, RequestsRemain
  <2> QED BY <1>3, <2>1, <2>3
<1>7. CASE LinkCut
  <2>1. Remains(to_backend', 0, to_backend)
    BY <1>0, <1>7, PrefixRemains DEF LinkCut
  <2>2. \A i \in Requests' : i + 0 \in Requests /\ to_backend'[i] = to_backend[i + 0]
    BY <2>1, RequestsRemain
  <2> QED BY <1>3, <1>7, <2>2 DEF LinkCut
<1>8. CASE UpdateTasks
  <2>1. to_launcher # <<>> /\ to_launcher' = Tail(to_launcher) /\ UNCHANGED to_backend
    BY <1>8 DEF UpdateTasks, Received
  <2>2. Remains(to_launcher', 1, to_launcher)
    BY <1>0, <2>1, TailRemains
  <2>3. \A i \in Launches' : i + 1 \in Launches /\ to_launcher'[i] = to_launcher[i + 1]
    BY <2>2, LaunchesRemain
  <2> QED BY <1>2, <2>1, <2>3
<1>9. CASE SessionExited
  <2>1. PICK s \in Sessions, m \in Up :
           /\ m = Message("completed", 0, s) /\ UNCHANGED to_launcher
           /\ to_backend' = to_backend \/ to_backend' = Append(to_backend, m)
    BY <1>9, ExitedShape
  <2>2. m.kind # "request"
    BY <2>1 DEF Message
  <2>3. \A i \in Requests' : i + 0 \in Requests /\ to_backend'[i] = to_backend[i + 0]
    BY <1>2, <2>1, <2>2, RequestsSent
  <2> QED BY <1>3, <2>1, <2>3
<1>10. CASE \E r \in Runs : SendPrompt(r)
  <2>1. PICK r \in Runs : SendPrompt(r)
    BY <1>10
  <2>2. PICK m \in Up, n \in Up :
          /\ m.kind # "request" /\ n.kind # "request" /\ UNCHANGED to_launcher
          /\ to_backend' = to_backend \/ to_backend' = Append(Append(to_backend, m), n)
    BY <2>1, PromptShape DEF Message
  <2>3. CASE to_backend' = Append(Append(to_backend, m), n)
    <3>1. PICK q : q = Append(to_backend, m)
      OBVIOUS
    <3>2. /\ q \in Seq(Up) /\ DOMAIN to_backend = 1..Len(to_backend)
          /\ DOMAIN q = DOMAIN to_backend \union {Len(to_backend) + 1}
          /\ q[Len(to_backend) + 1] = m
          /\ \A i \in DOMAIN to_backend : q[i] = to_backend[i]
      BY <1>0, <3>1, AppendParts
    <3>3. /\ DOMAIN to_backend' = DOMAIN q \union {Len(q) + 1}
          /\ to_backend'[Len(q) + 1] = n
          /\ \A i \in DOMAIN q : to_backend'[i] = q[i]
      BY <2>3, <3>1, <3>2, AppendParts
    <3>4. \A i \in Requests' : i \in DOMAIN to_backend /\ to_backend'[i] = to_backend[i] /\ i + 0 = i
      BY <2>2, <3>2, <3>3 DEF Requests
    <3>5. \A i \in Requests' : i + 0 \in Requests /\ to_backend'[i] = to_backend[i + 0]
      BY <3>4 DEF Requests
    <3> QED BY <1>3, <2>2, <3>5
  <2> QED BY <1>2, <1>3, <2>2, <2>3
<1> QED BY <1>4, <1>5, <1>6, <1>7, <1>8, <1>9, <1>10

\* One launch of a task stays under way at a time.
LEMMA AskTime ==
  ASSUME Typed, Owned, OneAsk, Patient, NEW t \in Tasks, TimeComes(t)
  PROVE  OneAsk'
<1>1. /\ ~Asked(t) /\ next_fire' = [next_fire EXCEPT ![t] = "due"]
      /\ UNCHANGED <<to_backend, to_launcher, run, running, proc>>
  BY DEF TimeComes, wire, started, manager
<1>2. /\ \A i \in Requests : RequestedTask(i) # t /\ RequestedTask(i) \in Tasks
      /\ \A i \in Launches : LaunchedTask(i) # t /\ LaunchedTask(i) \in Tasks
  <2>1. /\ \A i \in Requests : to_backend[i] \in Elements(to_backend) /\ to_backend[i].kind = "request"
        /\ \A i \in Launches : to_launcher[i] \in Elements(to_launcher) /\ to_launcher[i].kind = "launch"
    BY DEF Requests, Launches, Elements
  <2> QED BY <1>1, <2>1, AskPlaces DEF Asked, RequestedTask, LaunchedTask
<1>3. \A u \in Tasks : u # t => next_fire'[u] = next_fire[u]
  BY <1>1 DEF Typed
<1>4. Requests' = Requests /\ Launches' = Launches /\ RunningTasks' = RunningTasks
  BY <1>1 DEF Requests, Launches, RunningTasks
<1>5. /\ \A i \in Requests : Startable(to_backend[i].run)'
      /\ \A i \in Launches : Startable(to_launcher[i].run)'
  BY <1>1, <1>2, <1>3, <1>4 DEF OneAsk, Startable, RequestedTask, LaunchedTask
<1> QED BY <1>1, <1>4, <1>5 DEF OneAsk, RequestedTask, LaunchedTask

LEMMA AskFire ==
  ASSUME Typed, Typed', Owned, OneAsk, NEW t \in Tasks, FireDue(t)
  PROVE  OneAsk'
<1>1. /\ next_fire[t] = "due"
      /\ \A u \in Tasks : next_fire'[u] = "due" => next_fire[u] = "due" /\ u # t
      /\ UNCHANGED <<to_launcher, running, proc>>
  BY FireShape DEF Typed, manager
<1>2. Requests' \subseteq Nat /\ Launches' \subseteq Nat
  BY DEF Typed, Requests, Launches
<1>3. to_backend \in Seq(Up) /\ to_launcher \in Seq(Down)
  BY DEF Typed
<1>4. \A i \in Launches' : i + 0 \in Launches /\ to_launcher'[i] = to_launcher[i + 0]
  BY <1>1, <1>3, SameRemains, LaunchesRemain
<1>5. ASSUME UNCHANGED to_backend
      PROVE  \A i \in Requests' : i + 0 \in Requests /\ to_backend'[i] = to_backend[i + 0]
  BY <1>3, <1>5, SameRemains, RequestsRemain
<1>6. CASE UNCHANGED <<started, launches, to_backend>>
  <2>1. UNCHANGED run /\ \A s \in Sessions : running'[s] \in {0, running[s]}
    BY <1>1, <1>6 DEF started
  <2> QED BY <1>1, <1>2, <1>4, <1>5, <1>6, <2>1, AskQuiet
<1>7. CASE ~UNCHANGED <<started, launches, to_backend>>
  <2>0. PICK R, m, f : /\ R = [task |-> t, resume |-> resume_id[t]] /\ f = fired + 1
                       /\ m = Message("request", f, 0)
    OBVIOUS
  <2>1. /\ t \notin RunningTasks
        /\ f \in Runs /\ fired' = f /\ m \in Up
        /\ run' = [run EXCEPT ![f] = R]
        /\ to_backend' = to_backend \/ to_backend' = Append(to_backend, m)
    BY <1>7, <2>0, FireShape
  <2>2. R.task = t /\ m.kind = "request" /\ m.run = f
    BY <2>0 DEF Message
  <2>3. /\ \A r \in 1..fired : run'[r] = run[r]
        /\ f \notin 1..fired /\ run'[f] = R
    BY <2>0, <2>1, FiredStay
  <2>4. RunningTasks' = RunningTasks /\ Launches' = Launches
    BY <1>1 DEF RunningTasks, Launches
  \* An ask that was there is for a task that was not due.
  <2>5. /\ \A i \in Requests : RequestedTask(i) # t
        /\ \A i \in Launches : LaunchedTask(i) # t
    BY <1>1, AskPlaces DEF OneAsk, Startable, RequestedTask, LaunchedTask
  <2>6. \A r \in 1..fired : Startable(r) /\ run[r].task # t =>
          proc'[r].at = "none" /\ run'[r].task \notin RunningTasks' /\ next_fire'[run'[r].task] # "due"
    BY <1>1, <2>3, <2>4 DEF Startable, Owned, OwnedRuns
  <2>7. Startable(f)'
    <3>1. proc[f].at = "none"
      BY <2>1, <2>3 DEF Owned, OwnedProcs
    <3> QED BY <1>1, <2>1, <2>2, <2>3, <2>4, <3>1 DEF Startable
  <2>8. /\ \A i \in Requests : /\ RequestedTask(i) = run'[to_backend[i].run].task
                               /\ to_backend[i].run \in 1..fired
        /\ \A i \in Launches : /\ LaunchedTask(i) = LaunchedTask(i)'
                               /\ LaunchedTask(i) = run'[to_launcher[i].run].task
                               /\ to_launcher[i].run \in 1..fired
    BY <1>1, <2>3, AskPlaces DEF RequestedTask, LaunchedTask
  <2>9. \A i \in Launches : Startable(to_launcher[i].run)'
    BY <1>1, <2>5, <2>6, <2>8 DEF OneAsk, Startable, LaunchedTask
  <2>10. \A i, j \in Launches' : LaunchedTask(i)' = LaunchedTask(j)' => i = j
    BY <2>4, <2>8 DEF OneAsk
  <2>11. CASE to_backend' = to_backend
    <3>1. /\ Requests' = Requests
          /\ \A i \in Requests : RequestedTask(i)' = RequestedTask(i)
      BY <2>8, <2>11 DEF Requests, RequestedTask
    <3>2. \A i \in Requests : Startable(to_backend[i].run)'
      BY <2>5, <2>6, <2>8, <2>11 DEF OneAsk, Startable, RequestedTask
    <3> QED BY <2>4, <2>8, <2>9, <2>10, <3>1, <3>2 DEF OneAsk
  <2>12. CASE to_backend' = Append(to_backend, m)
    <3>0. PICK n : n = Len(to_backend) + 1
      OBVIOUS
    <3>1. /\ n \notin DOMAIN to_backend
          /\ DOMAIN to_backend' = DOMAIN to_backend \union {n}
          /\ to_backend'[n] = m
          /\ \A i \in DOMAIN to_backend : to_backend'[i] = to_backend[i]
      BY <1>3, <2>1, <2>12, <3>0, AppendParts
    <3>2. Requests' = Requests \union {n} /\ n \notin Requests
      BY <2>2, <3>1 DEF Requests
    <3>3. /\ \A i \in Requests : to_backend'[i] = to_backend[i] /\ RequestedTask(i)' = RequestedTask(i)
          /\ RequestedTask(n)' = t
      BY <2>2, <2>3, <2>8, <3>1 DEF Requests, RequestedTask
    <3>4. \A i \in Requests' : Startable(to_backend[i].run)'
      <4>1. \A i \in Requests : Startable(to_backend[i].run)'
        BY <2>5, <2>6, <2>8, <3>3 DEF OneAsk, Startable, RequestedTask
      <4>2. to_backend'[n].run = f
        BY <2>2, <3>1
      <4> QED BY <2>7, <3>2, <4>1, <4>2 DEF Startable
    <3>5. \A i, j \in Requests' : RequestedTask(i)' = RequestedTask(j)' => i = j
      BY <2>5, <3>2, <3>3 DEF OneAsk
    <3>6. \A i \in Requests', j \in Launches' : RequestedTask(i)' # LaunchedTask(j)'
      BY <2>4, <2>5, <2>8, <3>2, <3>3 DEF OneAsk
    <3> QED BY <2>4, <2>9, <2>10, <3>4, <3>5, <3>6 DEF OneAsk
  <2> QED BY <2>1, <2>11, <2>12
<1> QED BY <1>6, <1>7

\* The backend answers a request with a launch, or not at all.
LEMMA AskAnswered ==
  ASSUME Typed, Typed', Owned, OneAsk, ReceiveRequest
  PROVE  OneAsk'
<1>0. PICK r : r = Head(to_backend).run
  OBVIOUS
<1>1. /\ to_backend # <<>> /\ Head(to_backend).kind = "request" /\ to_backend' = Tail(to_backend)
      /\ UNCHANGED <<run, running, proc, next_fire>>
      /\ to_launcher' = to_launcher \/ to_launcher' = Append(to_launcher, Launch(r))
  BY <1>0 DEF ReceiveRequest, scheduler, schedule, started, manager
<1>2. to_backend \in Seq(Up) /\ to_launcher \in Seq(Down)
  BY DEF Typed
<1>3. Remains(to_backend', 1, to_backend) /\ Head(to_backend) = to_backend[1] /\ 1 \in DOMAIN to_backend
  BY <1>1, <1>2, TailRemains
<1>4. /\ 1 \in Requests /\ to_backend[1].run = r
      /\ \A i \in Requests' : i + 1 \in Requests /\ to_backend'[i] = to_backend[i + 1]
  BY <1>0, <1>1, <1>3, RequestsRemain DEF Requests
<1>5. Requests' \subseteq Nat \ {0} /\ Launches' \subseteq Nat
  BY DEF Typed, Requests, Launches
<1>6. \A x : Startable(x) => Startable(x)'
  BY <1>1 DEF Startable, RunningTasks
\* The requests that remain are not for the task of the first.
<1>7. /\ \A i \in Requests' : /\ RequestedTask(i)' = RequestedTask(i + 1)
                              /\ RequestedTask(i)' # run[r].task
                              /\ Startable(to_backend[i].run)'
      /\ Startable(r)'
  <2>1. \A i \in Requests' : /\ RequestedTask(i)' = RequestedTask(i + 1)
                             /\ Startable(to_backend'[i].run)
    BY <1>1, <1>4 DEF RequestedTask, OneAsk
  <2>2. \A i \in Requests' : RequestedTask(i + 1) # RequestedTask(1)
    BY <1>4, <1>5 DEF OneAsk
  <2>3. RequestedTask(1) = run[r].task /\ Startable(r)
    BY <1>4 DEF RequestedTask, OneAsk
  <2>4. \A i \in Requests' : Startable(to_backend[i].run)'
    BY <1>1, <2>1 DEF Startable, RunningTasks
  <2> QED BY <1>6, <2>1, <2>2, <2>3, <2>4
<1>8. \A i, j \in Requests' : RequestedTask(i)' = RequestedTask(j)' => i = j
  <2> SUFFICES ASSUME NEW i \in Requests', NEW j \in Requests', RequestedTask(i)' = RequestedTask(j)'
      PROVE  i = j
    OBVIOUS
  <2>1. i + 1 = j + 1
    BY <1>4, <1>7 DEF OneAsk
  <2> QED BY <1>5, <2>1
<1>9. CASE to_launcher' = to_launcher
  <2>1. /\ Launches' = Launches
        /\ \A i \in Launches : LaunchedTask(i)' = LaunchedTask(i)
    BY <1>1, <1>9 DEF Launches, LaunchedTask
  <2>2. \A i \in Launches : Startable(to_launcher[i].run)'
    BY <1>1, <1>9 DEF OneAsk, Startable, RunningTasks
  <2> QED BY <1>4, <1>7, <1>8, <2>1, <2>2 DEF OneAsk
<1>10. CASE to_launcher' = Append(to_launcher, Launch(r))
  <2>0. PICK n : n = Len(to_launcher) + 1
    OBVIOUS
  <2>1. Launch(r) \in Down /\ Launch(r).kind = "launch" /\ Launch(r).run = r
    BY <1>4, AskPlaces, MessagesAre DEF Launch
  <2>2. /\ n \notin DOMAIN to_launcher
        /\ DOMAIN to_launcher' = DOMAIN to_launcher \union {n}
        /\ to_launcher'[n] = Launch(r)
        /\ \A i \in DOMAIN to_launcher : to_launcher'[i] = to_launcher[i]
    BY <1>2, <1>10, <2>0, <2>1, AppendParts
  <2>3. /\ Launches' = Launches \union {n} /\ n \notin Launches
        /\ \A i \in Launches : to_launcher'[i] = to_launcher[i]
    BY <2>1, <2>2 DEF Launches
  <2>4. /\ \A i \in Launches : LaunchedTask(i)' = LaunchedTask(i)
        /\ LaunchedTask(n)' = run[r].task
    BY <1>1, <2>1, <2>2, <2>3 DEF LaunchedTask
  <2>5. \A i \in Launches : LaunchedTask(i) # run[r].task
    BY <1>4 DEF OneAsk, RequestedTask
  <2>6. \A i \in Launches' : Startable(to_launcher[i].run)'
    <3>1. \A i \in Launches : Startable(to_launcher[i].run)'
      BY <1>1, <2>3 DEF OneAsk, Startable, RunningTasks
    <3>2. to_launcher'[n].run = r
      BY <2>1, <2>2
    <3> QED BY <1>7, <2>3, <3>1, <3>2 DEF Startable
  <2>7. \A i, j \in Launches' : LaunchedTask(i)' = LaunchedTask(j)' => i = j
    BY <2>3, <2>4, <2>5 DEF OneAsk
  <2>8. \A i \in Requests', j \in Launches' : RequestedTask(i)' # LaunchedTask(j)'
    BY <1>4, <1>7, <2>3, <2>4 DEF OneAsk
  <2> QED BY <1>7, <1>8, <2>6, <2>7, <2>8 DEF OneAsk
<1> QED BY <1>1, <1>9, <1>10

\* A launch is taken from the queue: the asks that remain are for other tasks.
LEMMA AskLaunch ==
  ASSUME Typed, Typed', Owned, OneAsk, LaunchSession
  PROVE  OneAsk'
<1>1. /\ to_launcher # <<>> /\ Head(to_launcher).kind = "launch" /\ to_launcher' = Tail(to_launcher)
      /\ UNCHANGED <<to_backend, run, next_fire>>
  BY LaunchShape DEF schedule, started
<1>2. to_backend \in Seq(Up) /\ to_launcher \in Seq(Down)
  BY DEF Typed
<1>3. Remains(to_launcher', 1, to_launcher) /\ Head(to_launcher) = to_launcher[1] /\ 1 \in DOMAIN to_launcher
  BY <1>1, <1>2, TailRemains
<1>4. /\ 1 \in Launches
      /\ \A i \in Launches' : i + 1 \in Launches /\ to_launcher'[i] = to_launcher[i + 1]
  BY <1>1, <1>3, LaunchesRemain DEF Launches
<1>5. \A i \in Requests' : i + 0 \in Requests /\ to_backend'[i] = to_backend[i + 0]
  BY <1>1, <1>2, SameRemains, RequestsRemain
<1>6. Requests' \subseteq Nat /\ Launches' \subseteq Nat \ {0}
  BY DEF Typed, Requests, Launches
<1>7. CASE UNCHANGED <<proc, tracked, running, prompts>>
  <2>1. /\ \A r \in Runs : proc[r].at = "none" => proc'[r].at = "none"
        /\ \A s \in Sessions : running'[s] \in {0, running[s]}
        /\ \A t \in Tasks : next_fire'[t] = "due" => next_fire[t] = "due"
        /\ Launches' \subseteq Nat /\ UNCHANGED run
    BY <1>1, <1>6, <1>7
  <2> QED BY <1>4, <1>5, <1>6, <2>1, AskQuiet
<1>8. CASE ~UNCHANGED <<proc, tracked, running, prompts>>
  <2>1. PICK r \in 1..fired, s \in Runs :
                 /\ r = Head(to_launcher).run /\ r \in Runs /\ s \in Sessions
                 /\ proc' = [proc EXCEPT ![r] =
                      [at |-> "starting", session |-> s, now |-> s, prompt |-> "none"]]
                 /\ running' = [running EXCEPT ![s] = run[r].task]
    BY <1>8, LaunchShape
  <2>2. /\ \A i \in Requests' : to_backend'[i].run \in 1..fired /\ Startable(to_backend'[i].run)
        /\ \A i \in Launches' : to_launcher'[i].run \in 1..fired /\ Startable(to_launcher'[i].run)
        /\ \A i, j \in Requests' : RequestedTask(i)' = RequestedTask(j)' => i = j
        /\ \A i, j \in Launches' : LaunchedTask(i)' = LaunchedTask(j)' => i = j
        /\ \A i \in Requests', j \in Launches' : RequestedTask(i)' # LaunchedTask(j)'
    BY <1>1, <1>4, <1>5, <1>6, AsksRemain
  <2>3. RunningTasks' \subseteq RunningTasks \union {run[r].task}
    BY <2>1 DEF RunningTasks, Typed
  <2>4. \A x \in 1..fired : Startable(x) /\ run[x].task # run[r].task =>
          proc'[x].at = "none" /\ run'[x].task \notin RunningTasks' /\ next_fire'[run'[x].task] # "due"
    <3>1. 1..fired \subseteq Runs
      BY ScheduledTasksAssumption DEF Typed, Runs
    <3> QED BY <1>1, <2>1, <2>3, <3>1 DEF Startable, Typed
  <2>5. LaunchedTask(1) = run[r].task
    BY <1>3, <2>1 DEF LaunchedTask
  <2>6. \A i \in Requests' : run[to_backend'[i].run].task # run[r].task
    <3>1. \A i \in Requests' : i \in Requests /\ to_backend'[i] = to_backend[i]
      BY <1>5, <1>6
    <3> QED BY <1>4, <2>5, <3>1 DEF OneAsk, RequestedTask
  <2>7. \A i \in Launches' : run[to_launcher'[i].run].task # run[r].task
    <3>1. \A i \in Launches' : i + 1 # 1 /\ LaunchedTask(i + 1) = run[to_launcher'[i].run].task
      BY <1>4, <1>6 DEF LaunchedTask
    <3> QED BY <1>4, <2>5, <3>1 DEF OneAsk
  <2>8. /\ \A i \in Requests' : Startable(to_backend[i].run)'
        /\ \A i \in Launches' : Startable(to_launcher[i].run)'
    BY <2>2, <2>4, <2>6, <2>7 DEF Startable
  <2> QED BY <2>2, <2>8 DEF OneAsk
<1> QED BY <1>7, <1>8

LEMMA AskStep ==
  ASSUME Typed, Typed', Owned, OneAsk, Patient, [Next]_vars
  PROVE  OneAsk'
<1>0. Requests' \subseteq Nat /\ Launches' \subseteq Nat
  BY DEF Typed, Requests, Launches
<1>1. CASE ReceiveRequest
  BY <1>1, AskAnswered
<1>2. CASE LaunchSession
  BY <1>2, AskLaunch
<1>3. CASE \E t \in Tasks : FireDue(t)
  BY <1>3, AskFire
<1>4. CASE \E t \in Tasks : TimeComes(t)
  BY <1>4, AskTime
<1>5. CASE UNCHANGED vars
  BY <1>5 DEF OneAsk, Requests, Launches, RequestedTask, LaunchedTask, Startable, RunningTasks,
     vars, wire, scheduler, schedule, started, manager
<1>6. CASE \/ \E j \in Jobs : LoadTasks(j) \/ SendSync(j)
           \/ ReceiveStarted \/ ReceiveInject \/ ReceiveCompleted
           \/ Connect \/ Disconnect \/ UpdateTasks \/ SessionExited \/ ReportFails
           \/ \E r \in Runs : SendPrompt(r)
           \/ LinkCut
           \/ \E e \in Editors, t \in Tasks : EditTask(e, t)
           \/ \E s \in Sessions : Stop(s)
           \/ \E r \in Runs : Register(r) \/ Replace(r) \/ Exit(r)
  <2>1. PICK d \in Nat, e \in Nat :
           /\ \A i \in Requests' : i + d \in Requests /\ to_backend'[i] = to_backend[i + d]
           /\ \A i \in Launches' : i + e \in Launches /\ to_launcher'[i] = to_launcher[i + e]
    BY <1>6, QueuesQuiet
  <2>2. /\ UNCHANGED run
        /\ \A t \in Tasks : next_fire'[t] = "due" => next_fire[t] = "due"
    <3>1. CASE UpdateTasks
      BY <3>1 DEF UpdateTasks, started
    <3>2. CASE ~UpdateTasks
      BY <1>6, <3>2
         DEF LoadTasks, SendSync, ReceiveStarted, ReceiveInject, ReceiveCompleted, Connect,
             Disconnect, SessionExited, ReportFails, SendPrompt, LinkCut, EditTask, Stop, Register,
             Replace, Exit, scheduler, schedule, started
    <3> QED BY <3>1, <3>2
  <2>3. \A s \in Sessions : running'[s] \in {0, running[s]}
    <3>1. CASE SessionExited
      BY <3>1 DEF SessionExited, Typed
    <3>2. CASE ~SessionExited
      BY <1>6, <3>2
         DEF LoadTasks, SendSync, ReceiveStarted, ReceiveInject, ReceiveCompleted, Connect,
             Disconnect, UpdateTasks, ReportFails, SendPrompt, LinkCut, EditTask, Stop, Register,
             Replace, Exit, scheduler
    <3> QED BY <3>1, <3>2
  <2>4. \A r \in Runs : proc[r].at = "none" => proc'[r].at = "none"
    <3>1. CASE ReceiveInject
      BY <3>1 DEF ReceiveInject, Typed
    <3>2. CASE \E s \in Sessions : Stop(s)
      <4>1. PICK s \in Sessions : Stop(s)
        BY <3>2
      <4>2. tracked[s] \in Runs /\ proc[tracked[s]].at # "none"
        BY <4>1 DEF Stop, Typed, Owned, OwnedProcs
      <4> QED BY <4>1, <4>2, StopShape DEF Typed
    <3>3. CASE \E r \in Runs : Register(r) \/ Replace(r) \/ Exit(r)
      BY <3>3 DEF Register, Replace, Exit, Typed
    <3>4. CASE ~ReceiveInject /\ ~(\E s \in Sessions : Stop(s))
               /\ ~(\E r \in Runs : Register(r) \/ Replace(r) \/ Exit(r))
      BY <1>6, <3>4
         DEF LoadTasks, SendSync, ReceiveStarted, ReceiveCompleted, Connect, Disconnect,
             UpdateTasks, SessionExited, ReportFails, SendPrompt, LinkCut, EditTask, manager
    <3> QED BY <3>1, <3>2, <3>3, <3>4
  <2> QED BY <1>0, <2>1, <2>2, <2>3, <2>4, AskQuiet
<1> QED BY <1>1, <1>2, <1>3, <1>4, <1>5, <1>6 DEF Next, Backend, Launcher

-----------------------------------------------------------------------------
(* The launcher holds what runs, and nothing runs twice.                    *)

\* What is held does not depend on prompts, nor on runs that are fired.
LEMMA HeldQuiet ==
  ASSUME Typed, Owned, Held, NoOverlap, UNCHANGED <<tracked, running, exits>>,
         \A r \in Runs : proc'[r].at = proc[r].at /\ proc'[r].session = proc[r].session,
         \A r \in 1..fired : run'[r] = run[r]
  PROVE  Held' /\ NoOverlap'
<1>1. \A r \in Runs : /\ Alive(r)' <=> Alive(r)
                      /\ Alive(r) => run'[r] = run[r]
  BY DEF Alive, Owned, OwnedProcs
<1>2. \A s \in Sessions : tracked[s] # 0 => tracked[s] \in Runs
  BY DEF Typed
<1>3. Elements(exits)' = Elements(exits)
  BY DEF Elements
<1>4. NoOverlap'
  BY <1>1 DEF NoOverlap
<1>5. Held'
  BY <1>1, <1>2, <1>3 DEF Held
<1> QED BY <1>4, <1>5

\* A session task that runs has a session, whose owner is its task.
LEMMA AliveOwns ==
  ASSUME Typed, Owned, NEW r \in Runs, Alive(r)
  PROVE  /\ r \in 1..fired /\ run[r].task \in Tasks /\ run[r].task # 0
         /\ proc[r].session \in Sessions /\ proc[r].session # 0
         /\ run[proc[r].session].task = run[r].task
<1>1. r \in 1..fired /\ proc[r].session # 0 /\ OfTask(run[r].task, proc[r].session)
  BY DEF Alive, Owned, OwnedProcs
<1>2. run[r].task \in Tasks
  BY <1>1 DEF Owned, OwnedRuns
<1> QED BY <1>1, <1>2, OfTaskIs, Numbers

\* A spawned run has a task that does not run and whose ends are all heard of.
LEMMA HeldLaunch ==
  ASSUME Typed, Owned, OneAsk, Held, NoOverlap, LaunchSession
  PROVE  Held' /\ NoOverlap'
<1>1. UNCHANGED <<run, exits>> /\ to_launcher # <<>> /\ Head(to_launcher).kind = "launch"
  BY LaunchShape DEF started
<1>2. CASE UNCHANGED <<proc, tracked, running, prompts>>
  BY <1>1, <1>2, HeldQuiet
<1>3. CASE ~UNCHANGED <<proc, tracked, running, prompts>>
  <2>1. PICK r \in 1..fired, s \in Runs :
                 /\ r = Head(to_launcher).run /\ r \in Runs /\ s \in Sessions
                 /\ OfTask(run[r].task, s) /\ run[r].task \in Tasks
                 /\ proc' = [proc EXCEPT ![r] =
                      [at |-> "starting", session |-> s, now |-> s, prompt |-> "none"]]
                 /\ tracked' = [tracked EXCEPT ![s] = r]
                 /\ running' = [running EXCEPT ![s] = run[r].task]
    BY <1>3, LaunchShape
  <2>2. Startable(r)
    <3>1. to_launcher \in Seq(Down)
      BY DEF Typed
    <3>2. 1 \in Launches /\ to_launcher[1] = Head(to_launcher)
      BY <1>1, <3>1, TailRemains DEF Launches
    <3> QED BY <2>1, <3>2 DEF OneAsk
  <2>3. s # 0 /\ s \in 1..fired /\ run[s].task = run[r].task /\ run[r].task # 0
    BY <2>1, Numbers DEF OfTask
  <2>4. \A x \in Sessions : running[x] # run[r].task
    BY <2>2, <2>3 DEF Startable, RunningTasks
  <2>5. /\ proc'[r].at = "starting" /\ proc'[r].session = s
        /\ \A q \in Runs \ {r} : proc'[q] = proc[q]
        /\ tracked'[s] = r /\ \A x \in Sessions \ {s} : tracked'[x] = tracked[x]
        /\ running'[s] = run[r].task /\ \A x \in Sessions \ {s} : running'[x] = running[x]
    BY <2>1 DEF Typed
  <2>6. \A q \in Runs : Alive(q) => run[q].task # run[r].task /\ proc[q].session # s /\ q # r
    <3> SUFFICES ASSUME NEW q \in Runs, Alive(q)
        PROVE  run[q].task # run[r].task /\ proc[q].session # s /\ q # r
      OBVIOUS
    <3>1. running[proc[q].session] = run[q].task /\ proc[q].session \in Sessions
          /\ run[proc[q].session].task = run[q].task
      BY AliveOwns DEF Held
    <3> QED BY <2>2, <2>3, <2>4, <3>1 DEF Startable, Alive
  <2>7. s \notin Elements(exits)
    <3> SUFFICES ASSUME s \in Elements(exits) PROVE FALSE
      OBVIOUS
    <3>1. running[s] # 0 /\ OfTask(running[s], s)
      BY <2>1 DEF Held, Owned, OwnedProcs
    <3> QED BY <2>1, <2>3, <2>4, <3>1 DEF OfTask
  <2>8. \A q \in Runs : Alive(q)' <=> Alive(q) \/ q = r
    BY <2>5, <2>6 DEF Alive
  <2>9. NoOverlap'
    BY <1>1, <2>6, <2>8 DEF NoOverlap
  <2>10. \A q \in Runs : Alive(q)' =>
           /\ tracked'[proc'[q].session] = q
           /\ running'[proc'[q].session] = run[q].task
           /\ proc'[q].session \notin Elements(exits)
    <3> SUFFICES ASSUME NEW q \in Runs, Alive(q)'
        PROVE  /\ tracked'[proc'[q].session] = q
               /\ running'[proc'[q].session] = run[q].task
               /\ proc'[q].session \notin Elements(exits)
      OBVIOUS
    <3>1. CASE q = r
      BY <2>5, <2>7, <3>1
    <3>2. CASE q # r
      <4>1. Alive(q) /\ proc'[q] = proc[q] /\ proc[q].session \in Sessions \ {s}
        BY <2>5, <2>6, <2>8, <3>2, AliveOwns
      <4> QED BY <2>5, <4>1 DEF Held
    <3> QED BY <3>1, <3>2
  <2>11. \A x \in Sessions : tracked'[x] # 0 => proc'[tracked'[x]].session = x
    <3> SUFFICES ASSUME NEW x \in Sessions, tracked'[x] # 0 PROVE proc'[tracked'[x]].session = x
      OBVIOUS
    <3>1. CASE x = s
      BY <2>5, <3>1
    <3>2. CASE x # s
      <4>1. tracked'[x] = tracked[x] /\ tracked[x] \in Runs /\ proc[tracked[x]].at # "none"
        BY <2>5, <3>2 DEF Typed, Owned, OwnedProcs
      <4> QED BY <2>2, <2>5, <4>1 DEF Held, Startable
    <3> QED BY <3>1, <3>2
  <2>12. \A x \in Elements(exits) : running'[x] # 0
    <3>1. Elements(exits) \subseteq Sessions
      BY ElementsAre DEF Typed
    <3> QED BY <2>5, <2>7, <3>1 DEF Held
  <2>13. \A i, j \in DOMAIN exits : exits[i] = exits[j] => i = j
    BY DEF Held
  <2> QED BY <1>1, <2>9, <2>10, <2>11, <2>12, <2>13 DEF Held, Elements
<1> QED BY <1>2, <1>3

\* An end that was reported leaves the others as they are.
LEMMA ExitsRest ==
  ASSUME Typed, Held, exits # <<>>, exits' = Tail(exits)
  PROVE  /\ Elements(exits') \subseteq Elements(exits) \ {Head(exits)}
         /\ Head(exits) \in Elements(exits)
         /\ \A i, j \in DOMAIN exits' : exits'[i] = exits'[j] => i = j
<1>1. exits \in Seq(Sessions)
  BY DEF Typed
<1>2. /\ Remains(exits', 1, exits) /\ Head(exits) = exits[1] /\ 1 \in DOMAIN exits
      /\ Tail(exits) \in Seq(Sessions)
  BY <1>1, TailRemains
<1>3. DOMAIN exits' \subseteq Nat \ {0}
  BY <1>2
<1>4. \A i, j \in DOMAIN exits' : exits'[i] = exits'[j] => i = j
  <2> SUFFICES ASSUME NEW i \in DOMAIN exits', NEW j \in DOMAIN exits', exits'[i] = exits'[j]
      PROVE  i = j
    OBVIOUS
  <2>1. i + 1 = j + 1
    BY <1>2 DEF Remains, Held
  <2> QED BY <1>3, <2>1
<1>5. Elements(exits') \subseteq Elements(exits) \ {Head(exits)}
  <2> SUFFICES ASSUME NEW i \in DOMAIN exits' PROVE exits'[i] \in Elements(exits) \ {Head(exits)}
    BY DEF Elements
  <2>1. i + 1 \in DOMAIN exits /\ exits'[i] = exits[i + 1] /\ i + 1 # 1
    BY <1>2, <1>3 DEF Remains
  <2> QED BY <1>2, <2>1 DEF Elements, Held
<1> QED BY <1>1, <1>2, <1>4, <1>5, ElementsAre

LEMMA HeldExited ==
  ASSUME Typed, Owned, Held, NoOverlap, SessionExited \/ ReportFails
  PROVE  Held' /\ NoOverlap'
<1>0. PICK s : s = Head(exits)
  OBVIOUS
<1>1. /\ exits # <<>> /\ exits' = Tail(exits)
      /\ tracked' = [tracked EXCEPT ![s] = 0]
      /\ running' = running \/ running' = [running EXCEPT ![s] = 0]
      /\ UNCHANGED <<run, proc>>
  BY <1>0 DEF SessionExited, ReportFails, scheduler, started
<1>2. /\ Elements(exits') \subseteq Elements(exits) \ {s} /\ s \in Elements(exits)
      /\ \A i, j \in DOMAIN exits' : exits'[i] = exits'[j] => i = j
  BY <1>0, <1>1, ExitsRest
<1>3. Elements(exits) \subseteq Sessions
  BY ElementsAre DEF Typed
<1>4. /\ tracked'[s] = 0 /\ \A x \in Sessions \ {s} : tracked'[x] = tracked[x] /\ running'[x] = running[x]
  BY <1>1, <1>2, <1>3 DEF Typed
<1>5. \A r \in Runs : Alive(r) => proc[r].session \in Sessions \ {s}
  BY <1>2, AliveOwns DEF Held
<1>6. \A r \in Runs : Alive(r)' <=> Alive(r)
  BY <1>1 DEF Alive
<1>7. NoOverlap'
  BY <1>1, <1>6 DEF NoOverlap
<1>8. /\ \A r \in Runs : Alive(r)' =>
           /\ tracked'[proc[r].session] = r
           /\ running'[proc[r].session] = run[r].task
           /\ proc[r].session \notin Elements(exits')
      /\ \A x \in Sessions : tracked'[x] # 0 => proc[tracked'[x]].session = x
      /\ \A x \in Elements(exits') : running'[x] # 0
  BY <1>2, <1>3, <1>4, <1>5, <1>6 DEF Held
<1> QED BY <1>1, <1>2, <1>7, <1>8 DEF Held, Elements
\* What a session task that ended, or is aborted, leaves.
LEMMA HeldEnded ==
  ASSUME Typed, Owned, Held, NoOverlap, NEW r \in Runs, Alive(r),
         proc' = [proc EXCEPT ![r] = [@ EXCEPT !.at = "over"]],
         UNCHANGED <<run, running>>,
         \A s \in Sessions : tracked'[s] = tracked[s] \/ (s = proc[r].session /\ tracked'[s] = 0),
         exits' = exits \/ exits' = Append(exits, proc[r].session)
  PROVE  Held' /\ NoOverlap'
<1>1. PICK s \in Sessions : s = proc[r].session /\ s # 0
  BY AliveOwns
<1>2. /\ tracked[s] = r /\ running[s] # 0 /\ s \notin Elements(exits)
  BY <1>1, AliveOwns DEF Held
<1>3. /\ proc'[r].at = "over" /\ proc'[r].session = s
      /\ \A q \in Runs \ {r} : proc'[q] = proc[q]
  BY <1>1 DEF Typed, Proc
<1>4. \A q \in Runs : Alive(q)' <=> Alive(q) /\ q # r
  BY <1>3 DEF Alive
<1>5. \A q \in Runs : Alive(q) /\ q # r => proc[q].session \in Sessions \ {s}
  BY <1>2, AliveOwns DEF Held
<1>6. /\ Elements(exits') \subseteq Elements(exits) \union {s}
      /\ \A i, j \in DOMAIN exits' : exits'[i] = exits'[j] => i = j
  <2>1. CASE exits' = exits
    BY <2>1 DEF Held
  <2>2. CASE exits' = Append(exits, s)
    <3>1. /\ DOMAIN exits' = DOMAIN exits \union {Len(exits) + 1}
          /\ exits'[Len(exits) + 1] = s
          /\ \A i \in DOMAIN exits : exits'[i] = exits[i] /\ exits[i] \in Elements(exits)
          /\ Elements(exits') = Elements(exits) \union {s}
      BY <1>1, <2>2, AppendParts, ElementsAre DEF Typed
    <3> QED BY <1>2, <3>1 DEF Held
  <2> QED BY <1>1, <2>1, <2>2
<1>7. NoOverlap'
  BY <1>4 DEF NoOverlap
<1>8. \A q \in Runs : Alive(q)' =>
        /\ tracked'[proc'[q].session] = q
        /\ running'[proc'[q].session] = run'[q].task
        /\ proc'[q].session \notin Elements(exits')
  BY <1>1, <1>3, <1>4, <1>5, <1>6 DEF Held
<1>9. \A x \in Sessions : tracked'[x] # 0 => proc'[tracked'[x]].session = x
  BY <1>1, <1>2, <1>3 DEF Held, Typed
<1>10. \A x \in Elements(exits') : running'[x] # 0
  BY <1>2, <1>6 DEF Held
<1> QED BY <1>6, <1>7, <1>8, <1>9, <1>10 DEF Held

LEMMA HeldStop ==
  ASSUME Typed, Owned, Held, NoOverlap, NEW s \in Sessions, Stop(s)
  PROVE  Held' /\ NoOverlap'
<1>1. PICK r \in Runs :
        /\ tracked[s] = r /\ r # 0
        /\ \/ proc[r].at = "over" /\ UNCHANGED <<proc, exits>>
           \/ /\ proc[r].at # "over"
              /\ proc' = [proc EXCEPT ![r] = [@ EXCEPT !.at = "over"]]
              /\ exits' = Append(exits, s) \/ exits' = exits
  BY StopShape, Numbers
<1>2. /\ tracked' = [tracked EXCEPT ![s] = 0]
      /\ UNCHANGED <<run, running>>
  BY StopShape DEF scheduler, started
<1>3. proc[r].session = s /\ proc[r].at # "none"
  BY <1>1 DEF Held, Owned, OwnedProcs
<1>4. /\ tracked'[s] = 0 /\ \A x \in Sessions \ {s} : tracked'[x] = tracked[x]
  BY <1>2 DEF Typed
<1>5. CASE proc[r].at = "over"
  <2>1. UNCHANGED <<proc, exits>>
    BY <1>1, <1>5
  <2>2. \A q \in Runs : (Alive(q)' <=> Alive(q)) /\ (Alive(q) => proc[q].session \in Sessions \ {s})
    <3> SUFFICES ASSUME NEW q \in Runs, Alive(q)
        PROVE  proc[q].session \in Sessions \ {s}
      BY <2>1 DEF Alive
    <3>1. tracked[proc[q].session] = q /\ proc[q].session \in Sessions
      BY AliveOwns DEF Held
    <3>2. q # r
      BY <1>5 DEF Alive
    <3> QED BY <1>1, <3>1, <3>2
  <2>3. Elements(exits)' = Elements(exits)
    BY <2>1 DEF Elements
  <2>4. NoOverlap'
    BY <1>2, <2>2 DEF NoOverlap
  <2>5. Held'
    BY <1>2, <1>4, <2>1, <2>2, <2>3 DEF Held
  <2> QED BY <2>4, <2>5
<1>6. CASE proc[r].at # "over"
  <2>1. Alive(r)
    BY <1>3, <1>6 DEF Alive, Typed, Proc
  <2>2. proc' = [proc EXCEPT ![r] = [@ EXCEPT !.at = "over"]]
    BY <1>1, <1>6
  <2>3. exits' = exits \/ exits' = Append(exits, proc[r].session)
    BY <1>1, <1>3, <1>6
  <2>4. \A x \in Sessions : tracked'[x] = tracked[x] \/ (x = proc[r].session /\ tracked'[x] = 0)
    BY <1>3, <1>4
  <2> QED BY <1>2, <2>1, <2>2, <2>3, <2>4, HeldEnded
<1> QED BY <1>5, <1>6

LEMMA HeldExit ==
  ASSUME Typed, Owned, Held, NoOverlap, NEW r \in Runs, Exit(r)
  PROVE  Held' /\ NoOverlap'
<1>1. /\ Alive(r)
      /\ proc' = [proc EXCEPT ![r] = [@ EXCEPT !.at = "over"]]
      /\ exits' = Append(exits, proc[r].session)
      /\ UNCHANGED <<run, running, tracked>>
  BY DEF Exit, Alive, scheduler, started
<1> QED BY <1>1, HeldEnded

\* A session task that goes on stays where it was spawned.
LEMMA HeldGoesOn ==
  ASSUME Typed, Owned, Held, NoOverlap, NEW r \in Runs, Register(r) \/ Replace(r)
  PROVE  Held' /\ NoOverlap'
<1>1. /\ Alive(r) /\ proc' \in [Runs -> Proc]
      /\ proc'[r].at \in {"starting", "registered"} /\ proc'[r].session = proc[r].session
      /\ \A q \in Runs \ {r} : proc'[q] = proc[q]
      /\ UNCHANGED <<tracked, running, exits, run>>
  <2>1. CASE Register(r)
    BY <2>1 DEF Register, Alive, Typed, Proc, scheduler, started
  <2>2. CASE Replace(r)
    BY <2>2, Numbers DEF Replace, Alive, Typed, Proc, scheduler, started
  <2> QED BY <2>1, <2>2
<1>2. \A q \in Runs : (Alive(q)' <=> Alive(q)) /\ proc'[q].session = proc[q].session
  BY <1>1 DEF Alive
<1>3. Elements(exits)' = Elements(exits)
  BY <1>1 DEF Elements
<1>4. NoOverlap'
  BY <1>1, <1>2 DEF NoOverlap
<1>5. Held'
  BY <1>1, <1>2, <1>3 DEF Held, Typed
<1> QED BY <1>4, <1>5

LEMMA HeldStep ==
  ASSUME Typed, Owned, OneAsk, Held, NoOverlap, [Next]_vars
  PROVE  Held' /\ NoOverlap'
<1>1. CASE LaunchSession
  BY <1>1, HeldLaunch
<1>2. CASE SessionExited \/ ReportFails
  BY <1>2, HeldExited
<1>3. CASE \E s \in Sessions : Stop(s)
  BY <1>3, HeldStop
<1>4. CASE \E r \in Runs : Register(r) \/ Replace(r) \/ Exit(r)
  BY <1>4, HeldExit, HeldGoesOn
<1>5. CASE ReceiveInject
  <2>1. PICK m : m = Head(to_backend)
    OBVIOUS
  <2>2. proc' = [proc EXCEPT ![m.run] =
                   [@ EXCEPT !.prompt = IF m.session \in sessions THEN "stored" ELSE "dropped"]]
        /\ UNCHANGED <<tracked, running, exits, run>>
    BY <1>5, <2>1 DEF ReceiveInject, scheduler, started
  <2>3. \A r \in Runs : proc'[r].at = proc[r].at /\ proc'[r].session = proc[r].session
    BY <2>2 DEF Typed, Proc
  <2> QED BY <2>2, <2>3, HeldQuiet
<1>6. CASE \E t \in Tasks : FireDue(t)
  <2>1. PICK t \in Tasks : FireDue(t)
    BY <1>6
  <2>2. UNCHANGED <<tracked, running, exits, proc>>
    BY <2>1, FireShape DEF manager
  <2>3. \A r \in 1..fired : run'[r] = run[r]
    BY <2>1, FireShape, FiredStay DEF started
  <2> QED BY <2>2, <2>3, HeldQuiet
<1>7. CASE \/ \E j \in Jobs : LoadTasks(j) \/ SendSync(j)
           \/ ReceiveRequest \/ ReceiveStarted \/ ReceiveCompleted
           \/ Connect \/ Disconnect \/ UpdateTasks
           \/ \E r \in Runs : SendPrompt(r)
           \/ LinkCut
           \/ \E e \in Editors, t \in Tasks : EditTask(e, t)
           \/ \E t \in Tasks : TimeComes(t)
           \/ UNCHANGED vars
  <2>1. UNCHANGED <<tracked, running, exits, proc, run>>
    BY <1>7
       DEF LoadTasks, SendSync, ReceiveRequest, ReceiveStarted, ReceiveCompleted, Connect,
           Disconnect, UpdateTasks, SendPrompt, LinkCut, EditTask, TimeComes, vars, scheduler,
           started, manager
  <2> QED BY <2>1, HeldQuiet
<1> QED BY <1>1, <1>2, <1>3, <1>4, <1>5, <1>6, <1>7 DEF Next, Backend, Launcher

LEMMA InitHolds == Init => Typed /\ Owned /\ OneAsk /\ Held /\ NoOverlap
<1>1. Init => Requests = {} /\ Launches = {} /\ Elements(exits) = {} /\ exits = <<>>
  BY DEF Init, Requests, Launches, Elements
<1>2. Init => (\A r \in Runs : ~Alive(r)) /\ (\A s \in Sessions : tracked[s] = 0)
  BY DEF Init, Alive, Unspawned
<1> QED BY <1>1, <1>2, InitOwned DEF OneAsk, Held, NoOverlap

\* Whatever goes wrong, as long as a task does not become due while its launch is
\* being answered: never two session tasks of one scheduled task, and the launcher
\* can stop each one that runs.
THEOREM OneTracked == ASSUME Patient PROVE Spec => []OneTrackedTask
<1>1. Init => Typed /\ Owned /\ OneAsk /\ Held /\ NoOverlap
  BY InitHolds
<1>2. Typed /\ Owned /\ OneAsk /\ Held /\ NoOverlap /\ [Next]_vars
        => (Typed /\ Owned /\ OneAsk /\ Held /\ NoOverlap)'
  BY TypedStep, AskStep, HeldStep
<1>3. Held /\ NoOverlap => OneTrackedTask
  BY DEF Held, OneTrackedTask, AliveIsTracked
<1> QED BY <1>1, <1>2, <1>3, PTL DEF Spec

-----------------------------------------------------------------------------
(* What the scheduler takes for running is, or its end is to be heard of.   *)

\* What is reported of the ends leaves the others.
LEMMA ExitsKept ==
  ASSUME Typed, exits # <<>>, exits' = Tail(exits)
  PROVE  Elements(exits) \subseteq Elements(exits') \union {Head(exits)}
<1>1. exits \in Seq(Sessions)
  BY DEF Typed
<1>2. /\ Head(exits) = exits[1]
      /\ \A i \in DOMAIN exits : i # 1 => i - 1 \in DOMAIN Tail(exits) /\ Tail(exits)[i - 1] = exits[i]
  BY <1>1, TailRemains
<1> QED BY <1>2 DEF Elements

LEMMA RunningStep ==
  ASSUME Typed, Owned, OneAsk, Held, RunningIsAlive, {"stubborn", "send"} \cap Faults = {},
         [Next]_vars
  PROVE  RunningIsAlive'
<1>1. CASE LaunchSession
  <2>1. UNCHANGED <<exits, run>> /\ to_launcher # <<>> /\ Head(to_launcher).kind = "launch"
    BY <1>1, LaunchShape DEF started
  <2>2. CASE UNCHANGED <<proc, tracked, running, prompts>>
    BY <2>1, <2>2 DEF RunningIsAlive, Alive
  <2>3. CASE ~UNCHANGED <<proc, tracked, running, prompts>>
    <3>1. PICK r \in 1..fired, s \in Runs :
                 /\ r = Head(to_launcher).run /\ r \in Runs /\ s \in Sessions
                 /\ proc' = [proc EXCEPT ![r] =
                      [at |-> "starting", session |-> s, now |-> s, prompt |-> "none"]]
                 /\ running' = [running EXCEPT ![s] = run[r].task]
      BY <1>1, <2>3, LaunchShape
    <3>2. Startable(r)
      <4>1. to_launcher \in Seq(Down)
        BY DEF Typed
      <4>2. 1 \in Launches /\ to_launcher[1] = Head(to_launcher)
        BY <2>1, <4>1, TailRemains DEF Launches
      <4> QED BY <3>1, <4>2 DEF OneAsk
    <3>3. /\ Alive(r)' /\ proc'[r].session = s
          /\ \A q \in Runs \ {r} : proc'[q] = proc[q]
          /\ \A x \in Sessions \ {s} : running'[x] = running[x]
      BY <3>1 DEF Typed, Alive
    <3>4. \A q \in Runs : Alive(q) => Alive(q)' /\ proc'[q].session = proc[q].session
      BY <3>2, <3>3 DEF Alive, Startable
    <3> QED BY <2>1, <3>1, <3>3, <3>4 DEF RunningIsAlive
  <2> QED BY <2>2, <2>3
<1>2. CASE SessionExited
  <2>1. PICK s \in Sessions :
          /\ exits # <<>> /\ s = Head(exits) /\ exits' = Tail(exits)
          /\ running' = [running EXCEPT ![s] = 0]
          /\ UNCHANGED proc
    BY <1>2, ExitedShape
  <2>2. Elements(exits) \subseteq Elements(exits') \union {s}
    BY <2>1, ExitsKept
  <2>3. running'[s] = 0 /\ \A x \in Sessions \ {s} : running'[x] = running[x]
    BY <2>1 DEF Typed
  <2> QED BY <2>1, <2>2, <2>3 DEF RunningIsAlive, Alive
<1>3. CASE \E s \in Sessions : Stop(s)
  <2>1. PICK s \in Sessions : Stop(s)
    BY <1>3
  <2>2. PICK r \in Runs :
          /\ tracked[s] = r /\ r # 0
          /\ \/ proc[r].at = "over" /\ UNCHANGED <<proc, exits>>
             \/ /\ proc' = [proc EXCEPT ![r] = [@ EXCEPT !.at = "over"]]
                /\ exits' = Append(exits, s)
    BY <2>1, StopShape, Numbers
  <2>3. UNCHANGED running /\ proc[r].session = s
    BY <2>1, <2>2, StopShape DEF scheduler, Held
  <2>4. CASE UNCHANGED <<proc, exits>>
    BY <2>3, <2>4 DEF RunningIsAlive, Alive
  <2>5. CASE ~UNCHANGED <<proc, exits>>
    <3>1. /\ proc' = [proc EXCEPT ![r] = [@ EXCEPT !.at = "over"]]
          /\ exits' = Append(exits, s)
      BY <2>2, <2>5
    <3>2. Elements(exits') = Elements(exits) \union {s}
      BY <3>1, AppendParts DEF Typed
    <3>3. \A q \in Runs : Alive(q) /\ q # r => Alive(q)' /\ proc'[q] = proc[q]
      BY <3>1 DEF Typed, Alive
    <3> QED BY <2>3, <3>2, <3>3 DEF RunningIsAlive
  <2> QED BY <2>4, <2>5
<1>4. CASE \E r \in Runs : Exit(r)
  <2>1. PICK r \in Runs : Exit(r)
    BY <1>4
  <2>2. /\ proc' = [proc EXCEPT ![r] = [@ EXCEPT !.at = "over"]]
        /\ exits' = Append(exits, proc[r].session) /\ Alive(r)
        /\ UNCHANGED running
    BY <2>1 DEF Exit, Alive, scheduler
  <2>3. Elements(exits') = Elements(exits) \union {proc[r].session}
    BY <2>2, AliveOwns, AppendParts DEF Typed
  <2>4. \A q \in Runs : Alive(q) /\ q # r => Alive(q)' /\ proc'[q] = proc[q]
    BY <2>2 DEF Typed, Alive
  <2> QED BY <2>2, <2>3, <2>4 DEF RunningIsAlive
<1>5. CASE \E r \in Runs : Register(r) \/ Replace(r)
  <2>1. PICK r \in Runs : Register(r) \/ Replace(r)
    BY <1>5
  <2>2. /\ \A q \in Runs : Alive(q) => Alive(q)' /\ proc'[q].session = proc[q].session
        /\ UNCHANGED <<running, exits>>
    <3>1. CASE Register(r)
      BY <3>1 DEF Register, Alive, Typed, Proc, scheduler
    <3>2. CASE Replace(r)
      BY <3>2 DEF Replace, Alive, Typed, Proc, scheduler
    <3> QED BY <2>1, <3>1, <3>2
  <2> QED BY <2>2 DEF RunningIsAlive
<1>6. CASE ReceiveInject
  <2>1. PICK m : m = Head(to_backend)
    OBVIOUS
  <2>2. proc' = [proc EXCEPT ![m.run] =
                   [@ EXCEPT !.prompt = IF m.session \in sessions THEN "stored" ELSE "dropped"]]
        /\ UNCHANGED <<running, exits>>
    BY <1>6, <2>1 DEF ReceiveInject, scheduler
  <2>3. \A r \in Runs : proc'[r].at = proc[r].at /\ proc'[r].session = proc[r].session
    BY <2>2 DEF Typed, Proc
  <2> QED BY <2>2, <2>3 DEF RunningIsAlive, Alive
<1>7. CASE \E t \in Tasks : FireDue(t)
  BY <1>7, FireShape DEF manager, RunningIsAlive, Alive
<1>8. CASE \/ \E j \in Jobs : LoadTasks(j) \/ SendSync(j)
           \/ ReceiveRequest \/ ReceiveStarted \/ ReceiveCompleted
           \/ Connect \/ Disconnect \/ UpdateTasks
           \/ \E r \in Runs : SendPrompt(r)
           \/ LinkCut
           \/ \E e \in Editors, t \in Tasks : EditTask(e, t)
           \/ \E t \in Tasks : TimeComes(t)
           \/ UNCHANGED vars
  <2>1. UNCHANGED <<running, exits, proc>>
    BY <1>8
       DEF LoadTasks, SendSync, ReceiveRequest, ReceiveStarted, ReceiveCompleted, Connect,
           Disconnect, UpdateTasks, SendPrompt, LinkCut, EditTask, TimeComes, vars, scheduler,
           manager
  <2> QED BY <2>1 DEF RunningIsAlive, Alive
<1>9. ~ReportFails
  BY DEF ReportFails
<1> QED BY <1>1, <1>2, <1>3, <1>4, <1>5, <1>6, <1>7, <1>8, <1>9 DEF Next, Backend, Launcher

-----------------------------------------------------------------------------
(* The schedule follows the table.                                          *)

LEMMA ToldRead ==
  ASSUME NEW q \in Seq(Down), q # <<>>, NEW k, NEW h,
         Head(q).kind = "sync" => h = Head(q).tasks,
         Head(q).kind # "sync" => h = k,
         NEW T, Told(q, k, T)
  PROVE  Told(Tail(q), h, T)
<1>1. /\ Head(q) = q[1] /\ 1 \in DOMAIN q /\ Remains(Tail(q), 1, q)
      /\ \A i \in DOMAIN q : i # 1 => i - 1 \in DOMAIN Tail(q) /\ Tail(q)[i - 1] = q[i]
      /\ DOMAIN q \subseteq Nat \ {0} /\ DOMAIN Tail(q) \subseteq Nat \ {0}
  <2>1. Tail(q) \in Seq(Down)
    BY TailRemains
  <2>2. DOMAIN q \subseteq Nat \ {0} /\ DOMAIN Tail(q) \subseteq Nat \ {0}
    BY <2>1
  <2> QED BY <2>2, TailRemains
<1>2. \A i \in DOMAIN Tail(q) : i + 1 \in DOMAIN q /\ Tail(q)[i] = q[i + 1]
  BY <1>1 DEF Remains
<1>3. CASE \A i \in DOMAIN q : q[i].kind # "sync"
  BY <1>1, <1>2, <1>3 DEF Told
<1>4. CASE \E i \in DOMAIN q : q[i].kind = "sync"
  <2>1. PICK i \in DOMAIN q :
          /\ q[i].kind = "sync" /\ q[i].tasks = T
          /\ \A j \in DOMAIN q : j > i => q[j].kind # "sync"
    BY <1>4 DEF Told
  <2>2. \A j \in DOMAIN Tail(q) : j + 1 > i => Tail(q)[j].kind # "sync"
    BY <1>2, <2>1
  <2>3. CASE i = 1
    <3>1. h = T
      BY <1>1, <2>1, <2>3
    <3>2. \A j \in DOMAIN Tail(q) : Tail(q)[j].kind # "sync"
      BY <1>1, <2>2, <2>3
    <3> QED BY <3>1, <3>2 DEF Told
  <2>4. CASE i # 1
    <3>1. i - 1 \in DOMAIN Tail(q) /\ Tail(q)[i - 1] = q[i]
      BY <1>1, <2>4
    <3>2. \A j \in DOMAIN Tail(q) : j > i - 1 => Tail(q)[j].kind # "sync"
      BY <1>1, <2>2
    <3> QED BY <2>1, <3>1, <3>2 DEF Told
  <2> QED BY <2>3, <2>4
<1> QED BY <1>3, <1>4

LEMMA ToldMore ==
  ASSUME NEW q \in Seq(Down), NEW m \in Down, NEW k, NEW T
  PROVE  /\ m.kind # "sync" /\ Told(q, k, T) => Told(Append(q, m), k, T)
         /\ m.kind = "sync" => Told(Append(q, m), k, m.tasks)
<1>1. /\ DOMAIN q \subseteq Nat /\ Len(q) + 1 \in Nat
      /\ \A i \in DOMAIN q : i < Len(q) + 1
      /\ DOMAIN Append(q, m) = DOMAIN q \union {Len(q) + 1}
      /\ Append(q, m)[Len(q) + 1] = m
      /\ \A i \in DOMAIN q : Append(q, m)[i] = q[i]
  BY AppendParts
<1>2. ASSUME m.kind # "sync", Told(q, k, T) PROVE Told(Append(q, m), k, T)
  <2>1. CASE \A i \in DOMAIN q : q[i].kind # "sync"
    BY <1>1, <1>2, <2>1 DEF Told
  <2>2. CASE \E i \in DOMAIN q : q[i].kind = "sync"
    <3>1. PICK i \in DOMAIN q :
            /\ q[i].kind = "sync" /\ q[i].tasks = T
            /\ \A j \in DOMAIN q : j > i => q[j].kind # "sync"
      BY <1>2, <2>2 DEF Told
    <3> QED BY <1>1, <1>2, <3>1 DEF Told
  <2> QED BY <2>1, <2>2
<1>3. ASSUME m.kind = "sync" PROVE Told(Append(q, m), k, m.tasks)
  <2>1. \A j \in DOMAIN Append(q, m) : ~(j > Len(q) + 1)
    BY <1>1
  <2> QED BY <1>1, <1>3, <2>1 DEF Told
<1> QED BY <1>2, <1>3

LEMMA FollowingStep ==
  ASSUME Typed, Owned, Following, Serial, MaxConn = 1, [Next]_vars
  PROVE  Following'
<1>0. to_launcher \in Seq(Down) /\ job \in [Jobs -> Job] /\ 0 \in Jobs /\ Editors \subseteq Jobs
      /\ 0 \notin Editors
  BY Numbers, ScheduledTasksAssumption DEF Typed
<1>1. CASE \E e \in Editors, t \in Tasks : EditTask(e, t)
  <2>1. PICK e \in Editors, t \in Tasks : EditTask(e, t)
    BY <1>1
  <2>2. /\ UNCHANGED <<link, conns, known, to_launcher>>
        /\ job'[e].at = "load" /\ \A j \in Jobs \ {e} : job'[j] = job[j]
    BY <1>0, <2>1 DEF EditTask, Idle, wire, scheduler, schedule
  <2> QED BY <2>1, <2>2 DEF Following, Unloaded
<1>2. CASE \E j \in Jobs : LoadTasks(j)
  <2>1. PICK j \in Jobs : LoadTasks(j)
    BY <1>2
  <2>2. /\ UNCHANGED <<link, conns, known, to_launcher, Enabled>>
        /\ \A i \in Jobs : job[i].at # "send"
        /\ \A i \in Jobs \ {j} : job'[i] = job[i]
    BY <1>0, <2>1 DEF LoadTasks, table, wire, scheduler, schedule, Enabled
  <2>3. CASE j = 0 /\ Enabled = {}
    <3>1. job'[j].at = "idle"
      BY <1>0, <2>1, <2>3 DEF LoadTasks, Idle
    <3> QED BY <1>0, <2>2, <2>3, <3>1 DEF Following, Unloaded
  <2>4. CASE ~(j = 0 /\ Enabled = {})
    <3>1. job'[j].at = "send" /\ job'[j].tasks = Enabled
      BY <1>0, <2>1, <2>4 DEF LoadTasks
    <3> QED BY <1>0, <2>2, <3>1 DEF Following
  <2> QED BY <2>3, <2>4
<1>3. CASE \E j \in Jobs : SendSync(j)
  <2>1. PICK j \in Jobs : SendSync(j)
    BY <1>3
  <2>2. /\ UNCHANGED <<link, conns, known, Enabled>>
        /\ job[j].at = "send" /\ job[j] \in Job
        /\ \A i \in Jobs \ {j} : job'[i] = job[i] /\ job[i].at # "send"
        /\ job'[j].at = "idle"
        /\ link = "open" => to_launcher' = Append(to_launcher, ScheduleSync(job[j]))
        /\ link # "open" => link = "down"
    BY <1>0, <2>1 DEF SendSync, Idle, table, scheduler, schedule, Enabled, Following
  <2>3. link = "open" => Told(to_launcher', known', job[j].tasks)
    BY <1>0, <2>2, MessagesAre, ToldMore DEF ScheduleSync
  <2>4. Unloaded' <=> Unloaded
    BY <1>0, <2>2 DEF Unloaded
  <2> QED BY <2>2, <2>3, <2>4 DEF Following
<1>4. CASE Connect
  <2>1. /\ link = "down" /\ known' = known /\ link' = "open" /\ conns' = conns + 1
        /\ job[0].at = "idle" /\ job'[0].at = "load" /\ \A j \in Jobs \ {0} : job'[j] = job[j]
        /\ to_launcher' = <<>> /\ Enabled' = Enabled
    BY <1>0, <1>4 DEF Connect, Idle, scheduler, schedule, table, Enabled
  <2>2. Told(to_launcher', known', {})
    BY <2>1 DEF Told, Following
  <2>3. Unloaded' <=> Unloaded
    BY <1>0, <2>1 DEF Unloaded
  <2> QED BY <1>0, <2>1, <2>2, <2>3 DEF Following
<1>5. ~(LinkCut \/ Disconnect \/ ReportFails)
  BY DEF Following, LinkCut, Disconnect, ReportFails
<1>6. CASE UpdateTasks \/ LaunchSession
  <2>1. PICK m : m = Head(to_launcher)
    OBVIOUS
  <2>2. /\ to_launcher # <<>> /\ to_launcher' = Tail(to_launcher)
        /\ m.kind = "sync" => known' = m.tasks
        /\ m.kind # "sync" => known' = known
        /\ UNCHANGED <<link, conns, job, Enabled>>
    BY <1>6, <2>1 DEF UpdateTasks, LaunchSession, Received, table, schedule, Enabled
  <2>3. \A T : Told(to_launcher, known, T) => Told(to_launcher', known', T)
    BY <1>0, <2>1, <2>2, ToldRead
  <2>4. Unloaded' <=> Unloaded
    BY <2>2 DEF Unloaded
  <2>5. link' # "down"
    BY <1>6 DEF UpdateTasks, LaunchSession, Received
  <2> QED BY <2>2, <2>3, <2>4, <2>5 DEF Following
<1>7. CASE ReceiveRequest
  <2>1. PICK m : m = Head(to_backend)
    OBVIOUS
  <2>2. /\ \/ to_launcher' = to_launcher \/ to_launcher' = Append(to_launcher, Launch(m.run))
        /\ UNCHANGED <<link, conns, known, job, Enabled>>
        /\ m \in Elements(to_backend) /\ m.kind = "request"
    BY <1>7, <2>1, UpRest DEF ReceiveRequest, table, scheduler, schedule, Enabled
  <2>3. Launch(m.run) \in Down /\ Launch(m.run).kind # "sync"
    <3>1. m.run \in 1..fired
      BY <2>2 DEF Owned, OwnedUp, OwnsUp
    <3>2. m.run \in Runs
      BY <3>1, ScheduledTasksAssumption DEF Typed, Runs
    <3> QED BY <3>2, MessagesAre DEF Launch
  <2>4. \A T : Told(to_launcher, known, T) => Told(to_launcher', known', T)
    BY <1>0, <2>2, <2>3, ToldMore
  <2>5. Unloaded' <=> Unloaded
    BY <2>2 DEF Unloaded
  <2> QED BY <2>2, <2>4, <2>5 DEF Following
<1>8. CASE \E t \in Tasks : FireDue(t)
  <2>1. UNCHANGED <<row, link, conns, known, job, to_launcher>>
    BY <1>8, FireShape DEF table
  <2> QED BY <2>1 DEF Following, Unloaded, Enabled
<1>9. CASE \/ ReceiveStarted \/ ReceiveInject \/ ReceiveCompleted \/ SessionExited
           \/ \E r \in Runs : SendPrompt(r)
           \/ \E t \in Tasks : TimeComes(t)
           \/ \E s \in Sessions : Stop(s)
           \/ \E r \in Runs : Register(r) \/ Replace(r) \/ Exit(r)
           \/ UNCHANGED vars
  <2>1. UNCHANGED <<row, link, conns, known, job, to_launcher>>
    BY <1>9
       DEF ReceiveStarted, ReceiveInject, ReceiveCompleted, SessionExited, SendPrompt, TimeComes,
           Stop, Register, Replace, Exit, vars, table, wire, scheduler, schedule
  <2> QED BY <2>1 DEF Following, Unloaded, Enabled
<1> QED BY <1>1, <1>2, <1>3, <1>4, <1>5, <1>6, <1>7, <1>8, <1>9 DEF Next, Backend, Launcher

LEMMA FollowingIs == Typed /\ Following => ScheduleFollowsTable
<1> SUFFICES ASSUME Typed, Following, link = "open",
                    \A j \in Jobs : job[j].at = "idle",
                    \A m \in Elements(to_launcher) : m.kind # "sync"
    PROVE  known = Enabled
  BY DEF ScheduleFollowsTable
<1>1. ~Unloaded /\ job[0].at # "load" /\ \A j \in Jobs : job[j].at # "send"
  BY Numbers DEF Unloaded
<1>2. \A i \in DOMAIN to_launcher : to_launcher[i].kind # "sync"
  BY DEF Elements
<1> QED BY <1>1, <1>2 DEF Following, Told

\* On the launcher's first connection, and where no schedule is loaded while another
\* that was loaded is unsent: with every change delivered the launcher's schedule is
\* what the table says, whichever requests change tasks at the same time.
THEOREM ScheduleFollows == Spec => []OrderlyScheduleFollows
<1> DEFINE InOrder == Serial /\ MaxConn = 1 => Following
<1>1. Init => Typed /\ Owned /\ InOrder
  BY InitOwned DEF Init, Following, Idle
<1>2. Typed /\ Owned /\ InOrder /\ [Next]_vars => (Typed /\ Owned /\ InOrder)'
  BY TypedStep, FollowingStep
<1>3. Typed /\ InOrder => OrderlyScheduleFollows
  BY FollowingIs DEF OrderlyScheduleFollows
<1> QED BY <1>1, <1>2, <1>3, PTL DEF Spec

-----------------------------------------------------------------------------
(* The prompt of a run that lasts is stored.                                *)

LEMMA EndPlaces ==
  ASSUME Typed, Owned
  PROVE  /\ Ends \subseteq Nat
         /\ \A i \in Ends : to_backend[i].session \in 1..fired
<1>1. to_backend \in Seq(Up)
  BY DEF Typed
<1>2. \A i \in Ends : to_backend[i] \in Elements(to_backend)
  BY <1>1, ElementsAre DEF Ends
<1>3. \A i \in Ends : to_backend[i].session \in 1..fired
  BY <1>2 DEF Ends, Owned, OwnedUp, OwnsUp
<1>4. Ends \subseteq Nat
  BY <1>1 DEF Ends
<1> QED BY <1>3, <1>4

\* The row of a registered session stays: only the report of its end deletes it.
LEMMA RunsRecordedStep ==
  ASSUME Typed, Owned, Recorded, "not_found" \notin Faults, [Next]_vars
  PROVE  RunsRecorded'
<1>1. CASE LaunchSession
  <2>1. UNCHANGED sessions
    BY <1>1, LaunchShape DEF table
  <2>2. CASE UNCHANGED <<proc, tracked, running, prompts>>
    BY <2>1, <2>2 DEF Recorded, RunsRecorded, Alive
  <2>3. CASE ~UNCHANGED <<proc, tracked, running, prompts>>
    <3>1. PICK r \in Runs, s \in Runs :
            proc' = [proc EXCEPT ![r] =
              [at |-> "starting", session |-> s, now |-> s, prompt |-> "none"]]
      BY <1>1, <2>3, LaunchShape, Numbers
    <3> QED BY <2>1, <3>1 DEF Recorded, RunsRecorded, Alive, Typed
  <2> QED BY <2>2, <2>3
<1>2. CASE ReceiveInject
  <2>1. PICK m : m = Head(to_backend)
    OBVIOUS
  <2>2. /\ proc' = [proc EXCEPT ![m.run] =
                     [@ EXCEPT !.prompt = IF m.session \in sessions THEN "stored" ELSE "dropped"]]
        /\ UNCHANGED sessions
        /\ m \in Elements(to_backend) /\ m.kind = "inject"
    BY <1>2, <2>1, UpRest DEF ReceiveInject, table
  <2>3. proc[m.run].at \in {"registered", "over"} /\ m.session = proc[m.run].session
    BY <2>2 DEF Recorded, PromptsFollow
  <2>4. \A r \in Runs :
          /\ proc'[r].at = proc[r].at /\ proc'[r].session = proc[r].session
          /\ proc'[r].now = proc[r].now
          /\ r # m.run => proc'[r] = proc[r]
          /\ r = m.run /\ m.session \in sessions => proc'[r].prompt = "stored"
    BY <2>2 DEF Typed, Proc
  <2> QED BY <2>2, <2>3, <2>4 DEF Recorded, RunsRecorded, Alive
<1>3. CASE ReceiveCompleted
  <2>1. PICK s : s = Head(to_backend).session
    OBVIOUS
  <2>2. /\ to_backend # <<>> /\ Head(to_backend).kind = "completed"
        /\ sessions' = sessions \ {s} /\ UNCHANGED proc
    BY <1>3, <2>1 DEF ReceiveCompleted, manager
  <2>3. 1 \in Ends /\ to_backend[1].session = s
    <3>1. to_backend \in Seq(Up)
      BY DEF Typed
    <3> QED BY <2>1, <2>2, <3>1, TailRemains DEF Ends
  <2>4. \A r \in Runs : Alive(r) => proc[r].session # s
    BY <2>3 DEF Recorded, EndsFirst
  <2> QED BY <2>2, <2>4 DEF Recorded, RunsRecorded, Alive
<1>4. CASE \/ \E s \in Sessions : Stop(s)
           \/ \E r \in Runs : Exit(r)
  <2>1. \/ /\ UNCHANGED sessions
           /\ \E r \in Runs : proc' = [proc EXCEPT ![r] = [@ EXCEPT !.at = "over"]]
        \/ UNCHANGED <<sessions, proc>>
    <3>1. CASE \E s \in Sessions : Stop(s)
      BY <3>1, StopShape DEF table
    <3>2. CASE \E r \in Runs : Exit(r)
      BY <3>2 DEF Exit, table
    <3> QED BY <1>4, <3>1, <3>2
  <2>2. CASE UNCHANGED <<sessions, proc>>
    BY <2>2 DEF Recorded, RunsRecorded, Alive
  <2>3. CASE ~UNCHANGED <<sessions, proc>>
    <3>1. PICK r \in Runs : proc' = [proc EXCEPT ![r] = [@ EXCEPT !.at = "over"]]
      BY <2>1, <2>3
    <3>2. /\ proc'[r].at = "over" /\ proc'[r].session = proc[r].session /\ proc'[r].now = proc[r].now
          /\ \A q \in Runs \ {r} : proc'[q] = proc[q]
          /\ UNCHANGED sessions
      BY <2>1, <2>3, <3>1 DEF Typed, Proc
    <3> QED BY <3>2 DEF Recorded, RunsRecorded, Alive
  <2> QED BY <2>2, <2>3
<1>5. CASE \E r \in Runs : Register(r)
  <2>1. PICK r \in Runs : Register(r)
    BY <1>5
  <2>2. /\ proc[r].at = "starting" /\ sessions' = sessions \union {proc[r].now}
        /\ proc'[r].at = "registered" /\ proc'[r].session = proc[r].session
        /\ proc'[r].now = proc[r].now /\ proc'[r].prompt = proc[r].prompt
        /\ \A q \in Runs \ {r} : proc'[q] = proc[q]
    BY <2>1 DEF Register, Typed, Proc
  <2> QED BY <2>2 DEF Recorded, RunsRecorded, Alive
<1>6. ~(\E r \in Runs : Replace(r))
  BY DEF Replace
<1>7. CASE \E t \in Tasks : FireDue(t)
  BY <1>7, FireShape DEF table, manager, Recorded, RunsRecorded, Alive
<1>8. CASE \/ \E j \in Jobs : LoadTasks(j) \/ SendSync(j)
           \/ ReceiveRequest \/ ReceiveStarted
           \/ Connect \/ Disconnect \/ UpdateTasks \/ SessionExited \/ ReportFails
           \/ \E r \in Runs : SendPrompt(r)
           \/ LinkCut
           \/ \E e \in Editors, t \in Tasks : EditTask(e, t)
           \/ \E t \in Tasks : TimeComes(t)
           \/ UNCHANGED vars
  <2>1. UNCHANGED <<sessions, proc>>
    BY <1>8
       DEF LoadTasks, SendSync, ReceiveRequest, ReceiveStarted, Connect, SessionExited,
           ReportFails, Disconnect, UpdateTasks, SendPrompt, LinkCut, EditTask, TimeComes, vars,
           table, manager
  <2> QED BY <2>1 DEF Recorded, RunsRecorded, Alive
<1> QED BY <1>1, <1>2, <1>3, <1>4, <1>5, <1>6, <1>7, <1>8 DEF Next, Backend, Launcher

\* The prompts that are on their way name sessions that stay where they were spawned.
LEMMA PromptsKept ==
  ASSUME Typed, Owned, PromptsFollow,
         \A m \in Elements(to_backend') : m.kind = "inject" =>
           \/ m \in Elements(to_backend)
           \/ proc'[m.run].at \in {"registered", "over"} /\ m.session = proc'[m.run].session,
         \A r \in Runs : proc[r].at \in {"registered", "over"} =>
           proc'[r].at \in {"registered", "over"} /\ proc'[r].session = proc[r].session
  PROVE  PromptsFollow'
<1>1. Elements(to_backend)' = Elements(to_backend')
  BY DEF Elements
<1>2. 1..fired \subseteq Runs
  BY ScheduledTasksAssumption DEF Typed, Runs
<1>3. \A m \in Elements(to_backend) : m.kind = "inject" => m.run \in Runs
  BY <1>2 DEF Owned, OwnedUp, OwnsUp
<1> QED BY <1>1, <1>3 DEF PromptsFollow

LEMMA PromptsFollowStep ==
  ASSUME Typed, Owned, OneAsk, Recorded, {"slow", "not_found"} \cap Faults = {}, [Next]_vars
  PROVE  PromptsFollow'
<1>0. to_backend \in Seq(Up)
  BY DEF Typed
<1>1. CASE LaunchSession
  <2>1. UNCHANGED to_backend /\ to_launcher # <<>> /\ Head(to_launcher).kind = "launch"
    BY <1>1, LaunchShape
  <2>2. \A r \in Runs : proc[r].at # "none" => proc'[r] = proc[r]
    <3>1. CASE UNCHANGED proc
      BY <3>1
    <3>2. CASE ~UNCHANGED proc
      <4>1. PICK r \in Runs :
              /\ r = Head(to_launcher).run
              /\ \A q \in Runs : q # r => proc'[q] = proc[q]
        BY <1>1, <3>2, LaunchShape DEF Typed
      <4>2. 1 \in Launches /\ to_launcher[1] = Head(to_launcher)
        <5>1. to_launcher \in Seq(Down)
          BY DEF Typed
        <5> QED BY <2>1, <5>1, TailRemains DEF Launches
      <4> QED BY <4>1, <4>2 DEF OneAsk, Startable
    <3> QED BY <3>1, <3>2
  <2> QED BY <2>1, <2>2, PromptsKept DEF Recorded
<1>2. CASE (\E t \in Tasks : FireDue(t)) \/ SessionExited
  <2>1. UNCHANGED proc
    BY <1>2, FireShape DEF manager, SessionExited
  <2>2. \/ to_backend' = to_backend
        \/ \E m \in Up : m.kind # "inject" /\ to_backend' = Append(to_backend, m)
    <3>1. CASE \E t \in Tasks : FireDue(t)
      BY <3>1, FireShape DEF Message
    <3>2. CASE SessionExited
      BY <3>2, ExitedShape DEF Message
    <3> QED BY <1>2, <3>1, <3>2
  <2>3. \A n \in Elements(to_backend') : n \in Elements(to_backend) \/ n.kind # "inject"
    <3>1. CASE to_backend' = to_backend
      BY <3>1
    <3>2. ASSUME NEW m \in Up, m.kind # "inject", to_backend' = Append(to_backend, m)
          PROVE  \A n \in Elements(to_backend') : n \in Elements(to_backend) \/ n.kind # "inject"
      <4>1. Elements(Append(to_backend, m)) = Elements(to_backend) \union {m}
        BY <1>0, <3>2, AppendParts
      <4> QED BY <3>2, <4>1
    <3> QED BY <2>2, <3>1, <3>2
  <2> QED BY <2>1, <2>3, PromptsKept DEF Recorded
<1>3. CASE \E r \in Runs : SendPrompt(r)
  <2>1. PICK r \in Runs : SendPrompt(r)
    BY <1>3
  <2>2. r \in prompts /\ proc[r].at # "starting" /\ UNCHANGED proc
    BY <2>1 DEF SendPrompt, manager
  <2>3. proc[r].at \in {"registered", "over"}
    BY <2>2 DEF Owned, OwnedProcs, Typed, Proc
  <2>4. PICK m \in Up, n \in Up :
          /\ m.kind = "started" /\ n.run = r /\ n.session = proc[r].session
          /\ to_backend' = to_backend \/ to_backend' = Append(Append(to_backend, m), n)
    BY <2>1, PromptShape DEF Message
  <2>5. \A x \in Elements(to_backend') : x \in Elements(to_backend) \/ x \in {m, n}
    <3>1. PICK q : q = Append(to_backend, m)
      OBVIOUS
    <3>2. q \in Seq(Up) /\ Elements(q) = Elements(to_backend) \union {m}
      BY <1>0, <3>1, AppendParts
    <3>3. Elements(Append(q, n)) = Elements(q) \union {n}
      BY <3>2, AppendParts
    <3> QED BY <2>4, <3>1, <3>2, <3>3
  <2> QED BY <2>2, <2>3, <2>4, <2>5, PromptsKept DEF Recorded
<1>4. CASE \/ ReceiveRequest \/ ReceiveStarted \/ ReceiveInject \/ ReceiveCompleted \/ LinkCut
  <2>1. Elements(to_backend') \subseteq Elements(to_backend)
    <3>1. CASE LinkCut
      BY <1>0, <3>1, PrefixRemains, ElementsRemain DEF LinkCut
    <3>2. CASE ReceiveRequest \/ ReceiveStarted \/ ReceiveInject \/ ReceiveCompleted
      BY <3>2, UpRest DEF ReceiveRequest, ReceiveStarted, ReceiveInject, ReceiveCompleted
    <3> QED BY <1>4, <3>1, <3>2
  <2>2. \A r \in Runs : proc'[r].at = proc[r].at /\ proc'[r].session = proc[r].session
    <3>1. CASE ReceiveInject
      <4>1. PICK m : m = Head(to_backend)
        OBVIOUS
      <4>2. proc' = [proc EXCEPT ![m.run] =
                     [@ EXCEPT !.prompt = IF m.session \in sessions THEN "stored" ELSE "dropped"]]
        BY <3>1, <4>1 DEF ReceiveInject
      <4> QED BY <4>2 DEF Typed, Proc
    <3>2. CASE ~ReceiveInject
      BY <1>4, <3>2 DEF ReceiveRequest, ReceiveStarted, ReceiveCompleted, LinkCut, manager
    <3> QED BY <3>1, <3>2
  <2> QED BY <2>1, <2>2, PromptsKept DEF Recorded
<1>5. CASE \/ \E s \in Sessions : Stop(s)
           \/ \E r \in Runs : Register(r) \/ Exit(r)
  <2>1. UNCHANGED to_backend
    BY <1>5 DEF Stop, Register, Exit, wire
  <2>2. \A r \in Runs : /\ proc'[r].at # proc[r].at => proc'[r].at \in {"registered", "over"}
                        /\ proc'[r].session = proc[r].session
    <3>1. CASE \E s \in Sessions : Stop(s)
      <4>1. UNCHANGED proc \/ \E r \in Runs : proc' = [proc EXCEPT ![r] = [@ EXCEPT !.at = "over"]]
        BY <3>1, StopShape
      <4> QED BY <4>1 DEF Typed, Proc
    <3>2. CASE \E r \in Runs : Register(r)
      BY <3>2 DEF Register, Typed, Proc
    <3>3. CASE \E r \in Runs : Exit(r)
      BY <3>3 DEF Exit, Typed, Proc
    <3> QED BY <1>5, <3>1, <3>2, <3>3
  <2> QED BY <2>1, <2>2, PromptsKept DEF Recorded
<1>6. ~(\E r \in Runs : Replace(r))
  BY DEF Replace
<1>7. CASE \/ \E j \in Jobs : LoadTasks(j) \/ SendSync(j)
           \/ Connect \/ Disconnect \/ UpdateTasks \/ ReportFails
           \/ \E e \in Editors, t \in Tasks : EditTask(e, t)
           \/ \E t \in Tasks : TimeComes(t)
           \/ UNCHANGED vars
  <2>1. UNCHANGED <<to_backend, proc>>
    BY <1>7
       DEF LoadTasks, SendSync, Connect, Disconnect, UpdateTasks, ReportFails, EditTask,
           TimeComes, vars, wire, manager
  <2> QED BY <2>1, PromptsKept DEF Recorded
<1> QED BY <1>1, <1>2, <1>3, <1>4, <1>5, <1>6, <1>7 DEF Next, Backend, Launcher

\* The reports, requests and launches that are there after a step and were there
\* before it keep their order.
LEMMA EndsRemain ==
  ASSUME Typed, Owned, EndsFirst, NEW d \in Nat, NEW e \in Nat, Requests' \subseteq Nat, Ends' \subseteq Nat,
         \A i \in Ends' : i + d \in Ends /\ to_backend'[i] = to_backend[i + d],
         \A i \in Requests' : i + d \in Requests /\ to_backend'[i] = to_backend[i + d],
         \A i \in Launches' : i + e \in Launches /\ to_launcher'[i] = to_launcher[i + e],
         \A r \in Runs : Alive(r)' => Alive(r) /\ proc'[r].session = proc[r].session,
         UNCHANGED run
  PROVE  EndsFirst'
<1>1. \A i \in Ends' : EndTask(i)' = EndTask(i + d)
  BY DEF EndTask
<1>2. \A i \in Requests' : RequestedTask(i)' = RequestedTask(i + d)
  BY DEF RequestedTask
<1>3. \A i \in Launches' : LaunchedTask(i)' = LaunchedTask(i + e)
  BY DEF LaunchedTask
<1>4. \A i \in Ends' : \A r \in Runs : Alive(r)' => proc'[r].session # to_backend'[i].session
  BY DEF EndsFirst
<1>5. \A i \in Ends', j \in Requests' : RequestedTask(j)' = EndTask(i)' => i < j
  <2> SUFFICES ASSUME NEW i \in Ends', NEW j \in Requests', RequestedTask(j)' = EndTask(i)'
      PROVE  i < j
    OBVIOUS
  <2>1. i + d < j + d
    BY <1>1, <1>2 DEF EndsFirst
  <2>2. i \in Nat /\ j \in Nat
    OBVIOUS
  <2> QED BY <2>1, <2>2
<1>6. \A i \in Ends', j \in Launches' : LaunchedTask(j)' # EndTask(i)'
  BY <1>1, <1>3 DEF EndsFirst
<1> QED BY <1>4, <1>5, <1>6 DEF EndsFirst

LEMMA EndsStay ==
  ASSUME NEW d, Remains(to_backend', d, to_backend)
  PROVE  /\ d \in Nat
         /\ \A i \in Ends' : i + d \in Ends /\ to_backend'[i] = to_backend[i + d]
         /\ \A i \in Requests' : i + d \in Requests /\ to_backend'[i] = to_backend[i + d]
  BY DEF Remains, Ends, Requests

\* A task that is asked for does not run, so no end of it is reported.
LEMMA EndsExited ==
  ASSUME Typed, Typed', Owned, OneAsk, Held, EndsFirst, SessionExited
  PROVE  EndsFirst'
<1>0. to_backend \in Seq(Up) /\ to_launcher \in Seq(Down) /\ Requests' \subseteq Nat /\ Ends' \subseteq Nat
  BY DEF Typed, Requests, Ends
<1>1. PICK s \in Sessions, m \in Up :
           /\ exits # <<>> /\ s = Head(exits)
           /\ m = Message("completed", 0, s)
           /\ UNCHANGED <<job, to_launcher, started, proc>>
           /\ \/ to_backend' = to_backend
              \/ running[s] # 0 /\ to_backend' = Append(to_backend, m)
  BY ExitedShape
<1>2. /\ \A i \in Launches' : i + 0 \in Launches /\ to_launcher'[i] = to_launcher[i + 0]
      /\ \A r \in Runs : Alive(r)' => Alive(r) /\ proc'[r].session = proc[r].session
      /\ UNCHANGED run
  BY <1>0, <1>1, SameRemains, LaunchesRemain DEF Alive, started
<1>3. CASE to_backend' = to_backend
  <2>1. Remains(to_backend', 0, to_backend)
    BY <1>0, <1>3, SameRemains
  <2> QED BY <1>0, <1>2, <2>1, EndsStay, EndsRemain
<1>4. CASE running[s] # 0 /\ to_backend' = Append(to_backend, m)
  <2>0. PICK n : n = Len(to_backend) + 1
    OBVIOUS
  <2>1. /\ DOMAIN to_backend = 1..Len(to_backend) /\ n \notin DOMAIN to_backend
        /\ DOMAIN to_backend' = DOMAIN to_backend \union {n}
        /\ to_backend'[n] = m
        /\ \A i \in DOMAIN to_backend : to_backend'[i] = to_backend[i]
    BY <1>0, <1>4, <2>0, AppendParts
  <2>2. m.kind = "completed" /\ m.session = s
    BY <1>1 DEF Message
  <2>3. /\ Ends' = Ends \union {n} /\ Requests' = Requests /\ Launches' = Launches
        /\ \A i \in Ends : to_backend'[i] = to_backend[i] /\ EndTask(i)' = EndTask(i)
        /\ \A i \in Requests : RequestedTask(i)' = RequestedTask(i)
        /\ \A i \in Launches : LaunchedTask(i)' = LaunchedTask(i)
        /\ EndTask(n)' = run[s].task
    BY <1>1, <1>2, <2>1, <2>2
       DEF Ends, Requests, Launches, EndTask, RequestedTask, LaunchedTask
  <2>4. s # 0 /\ s \in Elements(exits) /\ run[s].task = running[s]
    <3>1. exits \in Seq(Sessions)
      BY DEF Typed
    <3>2. OfTask(running[s], s)
      BY <1>4 DEF Owned, OwnedProcs
    <3> QED BY <1>1, <3>1, <3>2, Numbers, ElementsAre DEF OfTask
  <2>5. run[s].task \in RunningTasks
    BY <1>4, <2>4 DEF RunningTasks
  <2>6. /\ \A i \in Requests : RequestedTask(i) # run[s].task
        /\ \A i \in Launches : LaunchedTask(i) # run[s].task
    BY <2>5 DEF OneAsk, Startable, RequestedTask, LaunchedTask
  <2>7. \A r \in Runs : Alive(r) => proc[r].session # s
    BY <2>4 DEF Held
  <2>8. \A i \in Ends' : \A r \in Runs : Alive(r)' => proc'[r].session # to_backend'[i].session
    BY <1>2, <2>1, <2>2, <2>3, <2>7 DEF EndsFirst
  <2>9. \A i \in Ends', j \in Requests' : RequestedTask(j)' = EndTask(i)' => i < j
    BY <2>3, <2>6 DEF EndsFirst
  <2>10. \A i \in Ends', j \in Launches' : LaunchedTask(j)' # EndTask(i)'
    BY <2>3, <2>6 DEF EndsFirst
  <2> QED BY <2>8, <2>9, <2>10 DEF EndsFirst
<1> QED BY <1>1, <1>3, <1>4

\* A request is the last of what is on its way to the backend.
LEMMA EndsFire ==
  ASSUME Typed, Typed', Owned, EndsFirst, NEW t \in Tasks, FireDue(t)
  PROVE  EndsFirst'
<1>0. to_backend \in Seq(Up)
  BY DEF Typed
<1>1. UNCHANGED <<to_launcher, proc>>
  BY FireShape DEF manager
<1>2. \A r \in 1..fired : run'[r] = run[r]
  BY FireShape, FiredStay DEF started
<1>3. /\ Launches' = Launches
      /\ \A i \in Launches : LaunchedTask(i)' = LaunchedTask(i)
  BY <1>1, <1>2, AskPlaces DEF Launches, LaunchedTask
<1>4. CASE to_backend' = to_backend
  <2>1. /\ Ends' = Ends /\ Requests' = Requests
        /\ \A i \in Ends : EndTask(i)' = EndTask(i)
        /\ \A i \in Requests : RequestedTask(i)' = RequestedTask(i)
    BY <1>2, <1>4, EndPlaces, AskPlaces DEF Ends, Requests, EndTask, RequestedTask
  <2> QED BY <1>1, <1>3, <1>4, <2>1 DEF EndsFirst, Alive
<1>5. CASE to_backend' # to_backend
  <2>asked. PICK m \in Up : m.kind = "request" /\ to_backend' = Append(to_backend, m)
    BY <1>5, FireShape DEF Message
  <2>0. PICK n : n = Len(to_backend) + 1
    OBVIOUS
  <2>1. /\ n \notin DOMAIN to_backend
        /\ DOMAIN to_backend = 1..Len(to_backend)
        /\ DOMAIN to_backend' = DOMAIN to_backend \union {n}
        /\ to_backend'[n] = m
        /\ \A i \in DOMAIN to_backend : to_backend'[i] = to_backend[i]
    BY <1>0, <2>asked, <2>0, AppendParts
  <2>2. /\ Ends' = Ends /\ Requests' = Requests \union {n}
        /\ \A i \in Ends : to_backend'[i] = to_backend[i]
        /\ \A i \in Requests : to_backend'[i] = to_backend[i]
    BY <2>asked, <2>1 DEF Ends, Requests
  <2>3. /\ \A i \in Ends : EndTask(i)' = EndTask(i)
        /\ \A i \in Requests : RequestedTask(i)' = RequestedTask(i)
    BY <1>2, <2>2, EndPlaces, AskPlaces DEF EndTask, RequestedTask
  <2>4. \A i \in Ends : i < n
    BY <1>0, <2>0 DEF Ends
  <2>5. \A i \in Ends', j \in Requests' : RequestedTask(j)' = EndTask(i)' => i < j
    BY <2>2, <2>3, <2>4 DEF EndsFirst
  <2>6. \A i \in Ends' : \A r \in Runs : Alive(r)' => proc'[r].session # to_backend'[i].session
    BY <1>1, <2>2 DEF EndsFirst, Alive
  <2>7. \A i \in Ends', j \in Launches' : LaunchedTask(j)' # EndTask(i)'
    BY <1>3, <2>2, <2>3 DEF EndsFirst
  <2> QED BY <2>5, <2>6, <2>7 DEF EndsFirst
<1> QED BY <1>4, <1>5

\* The request that the backend answers is the first of the queue: no end of its task
\* is behind it.
LEMMA EndsAnswered ==
  ASSUME Typed, Typed', Owned, EndsFirst, ReceiveRequest
  PROVE  EndsFirst'
<1>0. /\ to_backend \in Seq(Up) /\ to_launcher \in Seq(Down)
      /\ Requests' \subseteq Nat \ {0} /\ Ends' \subseteq Nat \ {0}
  BY DEF Typed, Requests, Ends
<1>1. PICK r : r = Head(to_backend).run
  OBVIOUS
<1>2. /\ to_backend # <<>> /\ Head(to_backend).kind = "request" /\ to_backend' = Tail(to_backend)
      /\ UNCHANGED <<run, proc>>
      /\ to_launcher' = to_launcher \/ to_launcher' = Append(to_launcher, Launch(r))
  BY <1>1 DEF ReceiveRequest, scheduler, started, manager
<1>3. Remains(to_backend', 1, to_backend) /\ Head(to_backend) = to_backend[1] /\ 1 \in DOMAIN to_backend
  BY <1>0, <1>2, TailRemains
<1>4. /\ 1 \in Requests /\ RequestedTask(1) = run[r].task /\ r \in Runs
      /\ \A i \in Ends' : i + 1 \in Ends /\ to_backend'[i] = to_backend[i + 1]
      /\ \A i \in Requests' : i + 1 \in Requests /\ to_backend'[i] = to_backend[i + 1]
  <2>1. 1 \in Requests /\ to_backend[1].run = r
    BY <1>1, <1>2, <1>3 DEF Requests
  <2> QED BY <1>3, <2>1, EndsStay, AskPlaces DEF RequestedTask
<1>5. /\ \A i \in Ends' : EndTask(i)' = EndTask(i + 1)
      /\ \A i \in Requests' : RequestedTask(i)' = RequestedTask(i + 1)
  BY <1>2, <1>4 DEF EndTask, RequestedTask
<1>6. \A i \in Ends' : EndTask(i)' # run[r].task
  <2> SUFFICES ASSUME NEW i \in Ends', EndTask(i + 1) = RequestedTask(1) PROVE FALSE
    BY <1>4, <1>5
  <2>1. i + 1 < 1
    BY <1>4 DEF EndsFirst
  <2> QED BY <1>0, <2>1
<1>7. \A j \in Launches' : \/ LaunchedTask(j)' = run[r].task
                           \/ j \in Launches /\ LaunchedTask(j)' = LaunchedTask(j)
  <2>1. CASE to_launcher' = to_launcher
    BY <1>2, <2>1 DEF Launches, LaunchedTask
  <2>2. CASE to_launcher' = Append(to_launcher, Launch(r))
    <3>0. PICK n : n = Len(to_launcher) + 1
      OBVIOUS
    <3>1. Launch(r) \in Down /\ Launch(r).run = r
      BY <1>4, MessagesAre DEF Launch
    <3>2. /\ DOMAIN to_launcher' = DOMAIN to_launcher \union {n}
          /\ to_launcher'[n] = Launch(r)
          /\ \A i \in DOMAIN to_launcher : to_launcher'[i] = to_launcher[i]
      BY <1>0, <2>2, <3>0, <3>1, AppendParts
    <3> QED BY <1>2, <3>1, <3>2 DEF Launches, LaunchedTask
  <2> QED BY <1>2, <2>1, <2>2
<1>8. \A i \in Ends', j \in Launches' : LaunchedTask(j)' # EndTask(i)'
  BY <1>4, <1>5, <1>6, <1>7 DEF EndsFirst
<1>9. \A i \in Ends', j \in Requests' : RequestedTask(j)' = EndTask(i)' => i < j
  <2> SUFFICES ASSUME NEW i \in Ends', NEW j \in Requests', RequestedTask(j)' = EndTask(i)'
      PROVE  i < j
    OBVIOUS
  <2>1. i + 1 < j + 1
    BY <1>4, <1>5 DEF EndsFirst
  <2> QED BY <1>0, <2>1
<1>10. \A i \in Ends' : \A q \in Runs : Alive(q)' => proc'[q].session # to_backend'[i].session
  BY <1>2, <1>4 DEF EndsFirst, Alive
<1> QED BY <1>8, <1>9, <1>10 DEF EndsFirst

\* The launch that is carried out is of a task whose ends are all heard of.
LEMMA EndsLaunch ==
  ASSUME Typed, Typed', Owned, EndsFirst, LaunchSession
  PROVE  EndsFirst'
<1>0. /\ to_backend \in Seq(Up) /\ to_launcher \in Seq(Down)
  BY DEF Typed
<1>1. /\ to_launcher # <<>> /\ Head(to_launcher).kind = "launch" /\ to_launcher' = Tail(to_launcher)
      /\ UNCHANGED <<to_backend, run>>
  BY LaunchShape DEF started
<1>2. /\ 1 \in Launches /\ LaunchedTask(1) = run[Head(to_launcher).run].task
      /\ \A i \in Launches' : i + 1 \in Launches /\ to_launcher'[i] = to_launcher[i + 1]
  <2>1. Remains(to_launcher', 1, to_launcher) /\ Head(to_launcher) = to_launcher[1] /\ 1 \in DOMAIN to_launcher
    BY <1>0, <1>1, TailRemains
  <2> QED BY <1>1, <2>1, LaunchesRemain DEF Launches, LaunchedTask
<1>3. /\ Ends' = Ends /\ Requests' = Requests
      /\ \A i \in Ends : EndTask(i)' = EndTask(i)
      /\ \A i \in Requests : RequestedTask(i)' = RequestedTask(i)
      /\ \A i \in Launches' : LaunchedTask(i)' = LaunchedTask(i + 1)
  BY <1>1, <1>2 DEF Ends, Requests, EndTask, RequestedTask, LaunchedTask
<1>4. \A i \in Ends : \A q \in Runs : Alive(q)' => proc'[q].session # to_backend[i].session
  <2>1. CASE UNCHANGED proc
    BY <2>1 DEF EndsFirst, Alive
  <2>2. CASE ~UNCHANGED proc
    <3>1. PICK r \in Runs, s \in Runs :
             /\ r = Head(to_launcher).run /\ OfTask(run[r].task, s)
             /\ proc' = [proc EXCEPT ![r] =
                  [at |-> "starting", session |-> s, now |-> s, prompt |-> "none"]]
      BY <2>2, LaunchShape
    <3>2. run[s].task = run[r].task
      BY <3>1, Numbers DEF OfTask
    <3>3. \A i \in Ends : to_backend[i].session # s
      BY <1>2, <3>1, <3>2 DEF EndsFirst, EndTask
    <3>4. proc'[r].session = s /\ \A q \in Runs \ {r} : proc'[q] = proc[q]
      BY <3>1 DEF Typed
    <3> QED BY <3>3, <3>4 DEF EndsFirst, Alive
  <2> QED BY <2>1, <2>2
<1> QED BY <1>1, <1>2, <1>3, <1>4 DEF EndsFirst

LEMMA EndsFirstStep ==
  ASSUME Typed, Typed', Owned, OneAsk, Held, EndsFirst, [Next]_vars
  PROVE  EndsFirst'
<1>0. /\ to_backend \in Seq(Up) /\ Requests' \subseteq Nat /\ Ends' \subseteq Nat
      /\ Launches' \subseteq Nat
  BY DEF Typed, Requests, Ends, Launches
<1>1. CASE ReceiveRequest
  BY <1>1, EndsAnswered
<1>2. CASE LaunchSession
  BY <1>2, EndsLaunch
<1>3. CASE \E t \in Tasks : FireDue(t)
  BY <1>3, EndsFire
<1>4. CASE SessionExited
  BY <1>4, EndsExited
<1>5. CASE UNCHANGED vars
  BY <1>5 DEF EndsFirst, Ends, Requests, Launches, EndTask, RequestedTask, LaunchedTask, Alive,
     vars, wire, scheduler, started, manager
<1>6. CASE \/ \E j \in Jobs : LoadTasks(j) \/ SendSync(j)
           \/ ReceiveStarted \/ ReceiveInject \/ ReceiveCompleted
           \/ Connect \/ Disconnect \/ UpdateTasks \/ ReportFails
           \/ \E r \in Runs : SendPrompt(r)
           \/ LinkCut
           \/ \E e \in Editors, t \in Tasks : EditTask(e, t)
           \/ \E t \in Tasks : TimeComes(t)
           \/ \E s \in Sessions : Stop(s)
           \/ \E r \in Runs : Register(r) \/ Replace(r) \/ Exit(r)
  <2>1. PICK k \in Nat :
          \A i \in Launches' : i + k \in Launches /\ to_launcher'[i] = to_launcher[i + k]
    BY <1>6, QueuesQuiet
  <2>2. UNCHANGED run
    BY <1>6
       DEF LoadTasks, SendSync, ReceiveStarted, ReceiveInject, ReceiveCompleted, Connect,
           Disconnect, UpdateTasks, ReportFails, SendPrompt, LinkCut, EditTask, TimeComes, Stop,
           Register, Replace, Exit, scheduler, started
  <2>3. \A r \in Runs : Alive(r)' => Alive(r) /\ proc'[r].session = proc[r].session
    <3>1. CASE ReceiveInject
      <4>1. PICK m : m = Head(to_backend)
        OBVIOUS
      <4>2. proc' = [proc EXCEPT ![m.run] =
                     [@ EXCEPT !.prompt = IF m.session \in sessions THEN "stored" ELSE "dropped"]]
        BY <3>1, <4>1 DEF ReceiveInject
      <4> QED BY <4>2 DEF Typed, Proc, Alive
    <3>2. CASE \E s \in Sessions : Stop(s)
      <4>1. UNCHANGED proc \/ \E r \in Runs : proc' = [proc EXCEPT ![r] = [@ EXCEPT !.at = "over"]]
        BY <3>2, StopShape
      <4> QED BY <4>1 DEF Typed, Proc, Alive
    <3>3. CASE \E r \in Runs : Register(r)
      BY <3>3 DEF Register, Typed, Proc, Alive
    <3>4. CASE \E r \in Runs : Exit(r)
      BY <3>4 DEF Exit, Typed, Proc, Alive
    <3>5. CASE \E r \in Runs : Replace(r)
      BY <3>5 DEF Replace, Typed, Proc, Alive
    <3>6. CASE ~ReceiveInject /\ ~(\E s \in Sessions : Stop(s))
               /\ ~(\E r \in Runs : Register(r) \/ Replace(r) \/ Exit(r))
      <4>1. UNCHANGED proc
        BY <1>6, <3>6
           DEF LoadTasks, SendSync, ReceiveStarted, ReceiveCompleted, Connect, Disconnect,
               UpdateTasks, ReportFails, SendPrompt, LinkCut, EditTask, TimeComes, manager
      <4> QED BY <4>1 DEF Alive
    <3> QED BY <3>1, <3>2, <3>3, <3>4, <3>5, <3>6
  <2>4. \E d \in Nat :
          /\ \A i \in Ends' : i + d \in Ends /\ to_backend'[i] = to_backend[i + d]
          /\ \A i \in Requests' : i + d \in Requests /\ to_backend'[i] = to_backend[i + d]
    <3>1. CASE ReceiveStarted \/ ReceiveInject \/ ReceiveCompleted
      <4>1. to_backend # <<>> /\ to_backend' = Tail(to_backend)
        BY <3>1 DEF ReceiveStarted, ReceiveInject, ReceiveCompleted
      <4>2. Remains(to_backend', 1, to_backend)
        BY <1>0, <4>1, TailRemains
      <4> QED BY <4>2, EndsStay
    <3>2. CASE LinkCut
      <4>1. Remains(to_backend', 0, to_backend)
        BY <1>0, <3>2, PrefixRemains DEF LinkCut
      <4> QED BY <4>1, EndsStay
    <3>3. ASSUME UNCHANGED to_backend
          PROVE  \E d \in Nat :
                   /\ \A i \in Ends' : i + d \in Ends /\ to_backend'[i] = to_backend[i + d]
                   /\ \A i \in Requests' : i + d \in Requests /\ to_backend'[i] = to_backend[i + d]
      <4>1. Remains(to_backend', 0, to_backend)
        BY <1>0, <3>3, SameRemains
      <4> QED BY <4>1, EndsStay
    <3>4. CASE \E r \in Runs : SendPrompt(r)
      <4>1. PICK m \in Up, n \in Up :
              /\ m.kind = "started" /\ n.kind = "inject"
              /\ to_backend' = to_backend \/ to_backend' = Append(Append(to_backend, m), n)
        BY <3>4, PromptShape DEF Message
      <4>2. CASE to_backend' = Append(Append(to_backend, m), n)
        <5>1. PICK q : q = Append(to_backend, m)
          OBVIOUS
        <5>2. /\ q \in Seq(Up)
              /\ DOMAIN q = DOMAIN to_backend \union {Len(to_backend) + 1}
              /\ q[Len(to_backend) + 1] = m
              /\ \A i \in DOMAIN to_backend : q[i] = to_backend[i]
          BY <1>0, <5>1, AppendParts
        <5>3. /\ DOMAIN to_backend' = DOMAIN q \union {Len(q) + 1}
              /\ to_backend'[Len(q) + 1] = n
              /\ \A i \in DOMAIN q : to_backend'[i] = q[i]
          BY <4>2, <5>1, <5>2, AppendParts
        <5>4. \A i \in Ends' \union Requests' :
                i \in DOMAIN to_backend /\ to_backend'[i] = to_backend[i] /\ i + 0 = i
          BY <1>0, <4>1, <5>2, <5>3 DEF Ends, Requests
        <5>5. /\ \A i \in Ends' : i + 0 \in Ends /\ to_backend'[i] = to_backend[i + 0]
              /\ \A i \in Requests' : i + 0 \in Requests /\ to_backend'[i] = to_backend[i + 0]
          BY <5>4 DEF Ends, Requests
        <5> QED BY <5>5
      <4> QED BY <3>3, <4>1, <4>2
    <3>5. CASE \/ \E j \in Jobs : LoadTasks(j) \/ SendSync(j)
               \/ Connect \/ Disconnect \/ UpdateTasks \/ ReportFails
               \/ \E e \in Editors, t \in Tasks : EditTask(e, t)
               \/ \E t \in Tasks : TimeComes(t)
               \/ \E s \in Sessions : Stop(s)
               \/ \E r \in Runs : Register(r) \/ Replace(r) \/ Exit(r)
      <4>1. UNCHANGED to_backend
        BY <3>5
           DEF LoadTasks, SendSync, Connect, Disconnect, UpdateTasks, ReportFails, EditTask,
               TimeComes, Stop, Register, Replace, Exit, wire
      <4> QED BY <3>3, <4>1
    <3> QED BY <1>6, <3>1, <3>2, <3>4, <3>5
  <2> QED BY <1>0, <2>1, <2>2, <2>3, <2>4, EndsRemain
<1> QED BY <1>1, <1>2, <1>3, <1>4, <1>5, <1>6 DEF Next, Backend, Launcher

LEMMA InitRecorded == Init => Recorded /\ RunningIsAlive
<1>1. Init => Elements(to_backend) = {} /\ Ends = {}
  BY DEF Init, Elements, Ends
<1>2. Init => RunsRecorded /\ RunningIsAlive
  BY DEF Init, RunsRecorded, RunningIsAlive, Alive, Unspawned
<1> QED BY <1>1, <1>2 DEF Recorded, PromptsFollow, EndsFirst

\* As long as no task becomes due while its launch is being answered: where every
\* end is reported, no task is taken for running that is not, so none is skipped
\* forever; and where sessions register in time and the agent knows the session to
\* resume, the prompt of a run that lasts is stored, for the session that the run has.
THEOREM RunsArePrompted == Spec => []OrderlyRunsArePrompted
<1> DEFINE Alone == Patient => OneAsk /\ Held /\ NoOverlap
           Heard == Patient /\ {"stubborn", "send"} \cap Faults = {} => RunningIsAlive
           Timely == Patient /\ {"slow", "not_found"} \cap Faults = {} => Recorded
<1>1. Init => Typed /\ Owned /\ Alone /\ Heard /\ Timely
  BY InitHolds, InitRecorded
<1>2. Typed /\ Owned /\ Alone /\ Heard /\ Timely /\ [Next]_vars
        => (Typed /\ Owned /\ Alone /\ Heard /\ Timely)'
  <2> SUFFICES ASSUME Typed, Owned, Alone, Heard, Timely, [Next]_vars
      PROVE  (Typed /\ Owned /\ Alone /\ Heard /\ Timely)'
    OBVIOUS
  <2>1. Typed' /\ Owned'
    BY TypedStep
  <2>2. Patient => OneAsk' /\ Held' /\ NoOverlap'
    BY <2>1, AskStep, HeldStep
  <2>3. Heard'
    BY RunningStep
  <2>4. Timely'
    <3> SUFFICES ASSUME Patient, {"slow", "not_found"} \cap Faults = {}
        PROVE  Recorded'
      OBVIOUS
    <3>1. OneAsk /\ Held /\ Recorded /\ "not_found" \notin Faults
      OBVIOUS
    <3>2. RunsRecorded'
      BY <3>1, RunsRecordedStep
    <3>3. PromptsFollow'
      BY <3>1, PromptsFollowStep
    <3>4. EndsFirst'
      BY <2>1, <3>1, EndsFirstStep DEF Recorded
    <3> QED BY <3>2, <3>3, <3>4 DEF Recorded
  <2> QED BY <2>1, <2>2, <2>3, <2>4
<1>3. Heard /\ Timely => OrderlyRunsArePrompted
  BY DEF OrderlyRunsArePrompted, Recorded, RunsRecorded, PromptReachesRun
<1> QED BY <1>1, <1>2, <1>3, PTL DEF Spec
=============================================================================
