----------------------------- MODULE MC_Launcher -----------------------------
(***************************************************************************)
(* Model checking of the launcher. Of LauncherLink: on the instance of the *)
(* configuration, where the launcher and the backend only restart, and on  *)
(* Troubled, with the faults and two renewals. Of the LaunchDialog of a     *)
(* patient user. Of LauncherSessions: on the instance of the configuration,*)
(* where sessions fail and connections are lost; on Tried, where more goes *)
(* wrong; and on Mixed, with scheduled runs and another program. The first *)
(* state picks.                                                            *)
(***************************************************************************)
EXTENDS LauncherLink, LaunchDialog, LauncherSessions

CONSTANTS
  request,  \* the one request of Troubled to renew a token
  d1, d2    \* two directories

VARIABLE mode  \* "calm", "troubled", "dialog", "kept", "tried" or "mixed"

linkVars == <<vars, faults>>
sessionVars == <<svars, mishaps>>
mcvars == <<linkVars, lvars, sessionVars, mode>>

Troubled == INSTANCE LauncherLink WITH
  MaxProc <- 2, MaxConn <- 3, MaxRenewals <- 2, Requests <- {request},
  FaultSets <- {{"second", "half_open", "overlapping", "config", "db"}}

Tried == INSTANCE LauncherSessions WITH
  Dirs <- {d1, d2}, Configured <- {d1}, max_sessions <- 1, MAX_RESTART_ATTEMPTS <- 1,
  MaxTasks <- 3, MaxLinks <- 2, MaxLaunches <- 1,
  MishapSets <- {{"fail", "race", "cut", "unsent", "crash", "stubborn", "mint", "gone"}}
Mixed == INSTANCE LauncherSessions WITH
  Dirs <- {d1}, Configured <- {d1}, max_sessions <- 2, MAX_RESTART_ATTEMPTS <- 1,
  MaxTasks <- 3, MaxLinks <- 2, MaxLaunches <- 1,
  MishapSets <- {{"scheduled", "login", "not_found", "stubborn", "cut", "unsent", "crash"}}

\* The directories of the two launchers, and the paths that are typed.
MCHome == [l \in {1, 2} |-> <<"home">>]
MCTree ==
  [l \in {1, 2} |->
    {<<>>, <<"home">>} \union
    IF l = 1 THEN {<<"home", "a">>, <<"home", "a", "b">>} ELSE {<<"home", "c">>}]
MCTypedTexts ==
  {[dir |-> <<"home">>, rest |-> "a"], [dir |-> <<"away">>, rest |-> ""],
   [dir |-> <<"home", "a">>, rest |-> ""]}

MCInit ==
  /\ mode \in {"calm", "troubled", "dialog", "kept", "tried", "mixed"}
  /\ IF mode = "troubled" THEN Troubled!Init ELSE Init
  /\ LInit /\ (mode # "dialog" => connected = {})
  /\ CASE mode = "tried" -> Tried!SInit
       [] mode = "mixed" -> Mixed!SInit
       [] OTHER -> SInit

Calm(A) == mode = "calm" /\ A
Either(A, B) ==
  /\ UNCHANGED <<faults, lvars, sessionVars, mode>>
  /\ \/ mode = "calm" /\ A
     \/ mode = "troubled" /\ B
InDialog(A) == mode = "dialog" /\ A /\ UNCHANGED <<linkVars, sessionVars, mode>>
Is(m, A) == mode = m /\ A /\ UNCHANGED <<linkVars, lvars, mishaps, mode>>

MCNext ==
  \/ Either(Start, Troubled!Start)
  \/ Either(BackendRestart, Troubled!BackendRestart)
  \/ Either(\E p \in Procs : Connect(p), \E p \in Troubled!Procs : Troubled!Connect(p))
  \/ Either(\E p \in Procs : ReadAck(p), \E p \in Troubled!Procs : Troubled!ReadAck(p))
  \/ Either(\E p \in Procs : LinkCut(p), \E p \in Troubled!Procs : Troubled!LinkCut(p))
  \/ Either(\E p \in Procs : Stop(p), \E p \in Troubled!Procs : Troubled!Stop(p))
  \/ Either(\E c \in Conns : Verify(c), \E c \in Troubled!Conns : Troubled!Verify(c))
  \/ Either(\E c \in Conns : CheckDuplicate(c),
          \E c \in Troubled!Conns : Troubled!CheckDuplicate(c))
  \/ Either(\E c \in Conns : RegisterLauncher(c),
          \E c \in Troubled!Conns : Troubled!RegisterLauncher(c))
  \/ Either(\E c \in Conns : SocketEnds(c),
          \E c \in Troubled!Conns : Troubled!SocketEnds(c))
  \* The instance of the configuration renews no token.
  \/ Either(FALSE, \E p \in Troubled!Procs : Troubled!ReceiveToken(p))
  \/ Either(FALSE, \E c \in Troubled!Conns : Troubled!HeartbeatRenews(c))
  \/ Either(FALSE, \E r \in Troubled!Renewers : Troubled!Mint(r))
  \/ Either(FALSE, \E r \in Troubled!Renewers : Troubled!Revoke(r))
  \/ Either(FALSE, \E r \in Troubled!Renewers : Troubled!UpdateEntry(r))
  \/ Either(FALSE, \E r \in Troubled!Renewers : Troubled!Push(r))
  \/ Either(FALSE, \E r \in {request} : Troubled!RequestRenews(r))

  \/ InDialog(ListingStep)
  \/ InDialog(BrowserStep)
  \/ InDialog(FormStep)
  \/ \E l \in Launchers : InDialog(Connection(l))

  \/ Is("kept", DaemonStep)
  \/ Is("kept", ReceiveRequest \/ Trouble)
  \/ \E n \in TaskNumbers : Is("kept", TaskEnds(n))
  \/ \E n \in TaskNumbers : Is("kept", UserStops(n))
  \/ \E d \in Dirs : Is("kept", UserLaunches(d))
  \/ Is("tried", Tried!DaemonStep)
  \/ Is("tried", Tried!ReceiveRequest \/ Tried!Trouble)
  \/ \E n \in Tried!TaskNumbers : Is("tried", Tried!TaskEnds(n))
  \/ \E n \in Tried!TaskNumbers : Is("tried", Tried!UserStops(n))
  \/ \E d \in {d1, d2} : Is("tried", Tried!UserLaunches(d))
  \/ Is("mixed", Mixed!DaemonStep)
  \/ Is("mixed", Mixed!ReceiveRequest \/ Mixed!Trouble)
  \/ \E n \in Mixed!TaskNumbers : Is("mixed", Mixed!TaskEnds(n) \/ Mixed!Replace(n))
  \/ \E n \in Mixed!TaskNumbers : Is("mixed", Mixed!UserStops(n))
  \/ \E d \in {d1} : Is("mixed", Mixed!UserLaunches(d))

\* The fairness of FairSpec, for the instance without faults; and that of the
\* launcher's loop and the backend, where sessions are kept.
MCSpec ==
  /\ MCInit
  /\ [][MCNext]_mcvars
  /\ WF_vars(Calm(Start))
  /\ \A p \in Procs : WF_vars(Calm(LauncherStep(p)))
  /\ \A c \in Conns : WF_vars(Calm(BackendStep(c)))
  /\ WF_svars(mode = "kept" /\ GoesOn)

-----------------------------------------------------------------------------
\* When nothing goes wrong but restarts, losses and crashes, in the end a launcher
\* serves for good.
LauncherComesBackForGood ==
  mode = "calm" => <>[]Calm(\E p \in Procs : proc[p] = "serving" /\ entry[p].conn = conn[p])

\* A session that the user stopped stays away, and one that fails is restarted as
\* often as it should (on one connection, and the first time it is launched).
RestartsAsAsked ==
  [][mode = "kept" =>
       /\ StoppedStaysAway
       /\ \A d \in Dirs : links = 1 /\ FirstLaunch(d) => GivenUpInTime(d)]_svars

\* As ExpectedRuns, where every launch is possible.
KeptExpectedRuns ==
  \A d \in Dirs :
    mode = "kept" /\ d \in DOMAIN expected_sessions ~>
      mode = "kept" /\ (d \in DOMAIN expected_sessions => Runs(d))

\* Both: what the launcher is expected to run is what it runs, as often as asked.
ExpectedAsAsked == RestartsAsAsked /\ KeptExpectedRuns
=============================================================================
