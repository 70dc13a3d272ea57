----------------------------- MODULE ProxyStart -----------------------------
(***************************************************************************)
(* The start of claude-portal (proxy/src/main.rs, config.rs, commands.rs,  *)
(* the update check of portal-update): which session a process resumes,    *)
(* which token it uses, and what processes that start at the same time do  *)
(* to the config file they share. A process without a token logs in with   *)
(* DeviceFlow.                                                             *)
(***************************************************************************)
EXTENDS DeviceFlow

CONSTANTS
  Dirs,        \* working directories
  Verbs,       \* ways to start the program
  Cached,      \* directories with a token in the config at first
  MaxSessions  \* bound: sessions made

ASSUME ProxyStartAssumption ==
  /\ Verbs \subseteq {"run", "new", "reauth", "token", "shim", "logout", "init"}
  /\ Cached \subseteq Dirs
  /\ MaxSessions \in Nat
  /\ None \notin Dirs

\* Tokens that are not minted by DeviceFlow: one given on the command line or
\* with an init URL, and the ones cached at first.
Given == MaxTokens + 1

VARIABLES
  proc,    \* [process -> step, verb, directory, why it takes the lock,
           \*             session and whether it resumes it, token]
  copy,    \* [process -> main's copy of the config, loaded without the lock]
  local,   \* [process -> the copy loaded under the lock]
  config,  \* the config file: token and session of each directory
  lock,    \* the lock file: its owner and whether its pid is written
  stale,   \* processes that saw a dead owner and will remove the lock file
  made     \* number of sessions made

startVars == <<proc, copy, local, config, lock, stale, made>>
vars == <<flowVars, startVars>>

Procs == Logins
NoProc == [at |-> "unstarted", verb |-> "run", dir |-> None, job |-> "resolve",
           session |-> 0, resume |-> FALSE, token |-> 0]
Free == [owner |-> None, pid |-> FALSE]
Configs == [auth : [Dirs -> 0..Given], session : [Dirs -> 0..MaxSessions]]
FirstConfig == [auth |-> [d \in Dirs |-> IF d \in Cached THEN Given ELSE 0],
                session |-> [d \in Dirs |-> 0]]

TypeOK ==
  /\ FlowTypeOK
  /\ proc \in [Procs -> [at : {"unstarted", "locking", "locked", "read", "auth",
                               "running", "ended", "failed", "killed"},
                         verb : Verbs \union {"run"}, dir : Dirs \union {None},
                         job : {"resolve", "auth", "command", "replace"},
                         session : 0..MaxSessions, resume : BOOLEAN, token : 0..Given]]
  /\ copy \in [Procs -> Configs]
  /\ local \in [Procs -> Configs]
  /\ config \in Configs
  /\ lock \in [owner : Procs \union {None}, pid : BOOLEAN]
  /\ stale \subseteq Procs
  /\ made \in 0..MaxSessions

Init ==
  /\ FlowInit
  /\ proc = [p \in Procs |-> NoProc]
  /\ copy = [p \in Procs |-> FirstConfig]
  /\ local = [p \in Procs |-> FirstConfig]
  /\ config = FirstConfig
  /\ lock = Free
  /\ stale = {}
  /\ made = 0

At(p) == proc[p].at
Over(p) == At(p) \in {"ended", "failed", "killed"}

-----------------------------------------------------------------------------
(* The config file and its lock.                                            *)

\* The lock file is created exclusively; its pid is written next.
CreateLock(p) ==
  /\ At(p) = "locking" /\ p \notin stale /\ lock = Free
  /\ lock' = [owner |-> p, pid |-> FALSE]
  /\ proc' = [proc EXCEPT ![p].at = "locked"]
  /\ UNCHANGED <<flowVars, copy, local, config, stale, made>>

\* The lock file names a process that is dead.
SeeStaleLock(p) ==
  /\ At(p) = "locking" /\ p \notin stale
  /\ lock # Free /\ lock.pid /\ Over(lock.owner)
  /\ stale' = stale \union {p}
  /\ UNCHANGED <<flowVars, proc, copy, local, config, lock, made>>

\* It is removed, whatever it is by now.
RemoveStaleLock(p) ==
  /\ p \in stale
  /\ stale' = stale \ {p}
  /\ lock' = Free
  /\ UNCHANGED <<flowVars, proc, copy, local, config, made>>

\* Fifty attempts at a lock file that nobody takes away.
GiveUpLock(p) ==
  /\ At(p) = "locking" /\ p \notin stale
  /\ lock # Free /\ ~lock.pid /\ Over(lock.owner)
  /\ proc' = [proc EXCEPT ![p].at = "failed"]
  /\ UNCHANGED <<flowVars, copy, local, config, lock, stale, made>>

\* Mutant: what was loaded at the start is taken for what the config says.
ReadConfigMutant(p) ==
  /\ At(p) = "locked"
  /\ lock' = IF lock.owner = p THEN [lock EXCEPT !.pid = TRUE] ELSE lock
  /\ local' = [local EXCEPT ![p] = copy[p]]
  /\ proc' = [proc EXCEPT ![p].at = "read"]
  /\ UNCHANGED <<flowVars, copy, config, stale, made>>

\* The lock is had: its pid is written, and the config read if it is to be
\* changed on the basis of what it says now.
ReadConfig(p) ==
  /\ At(p) = "locked"
  /\ lock' = IF lock.owner = p THEN [lock EXCEPT !.pid = TRUE] ELSE lock
  /\ local' = [local EXCEPT ![p] =
       IF proc[p].job \in {"resolve", "replace"} THEN config ELSE copy[p]]
  /\ proc' = [proc EXCEPT ![p].at = "read"]
  /\ UNCHANGED <<flowVars, copy, config, stale, made>>

\* The new file is renamed over the old one; then the lock file is removed.
Saves(p, new) ==
  /\ config' = new
  /\ lock' = Free

-----------------------------------------------------------------------------
(* The program.                                                             *)

\* A process starts and loads the config, without the lock. --logout with
\* nothing to remove is done.
Start(p, verb, d) ==
  /\ At(p) = "unstarted"
  /\ copy' = [copy EXCEPT ![p] = config]
  /\ proc' = [proc EXCEPT ![p] =
       [NoProc EXCEPT !.verb = verb, !.dir = d,
          !.job = IF verb \in {"logout", "init"} THEN "command" ELSE "resolve",
          !.at = IF verb = "logout" /\ config.auth[d] = 0 THEN "ended" ELSE "locking"]]
  /\ UNCHANGED <<flowVars, local, config, lock, stale, made>>

\* Before that, a newer release may be installed; the process then ends, and
\* the user starts the program again. An update check that fails is only logged.
InstallUpdate(p) ==
  /\ "update" \in Faults
  /\ At(p) = "unstarted"
  /\ proc' = [proc EXCEPT ![p].at = "ended"]
  /\ UNCHANGED <<flowVars, copy, local, config, lock, stale, made>>

\* Where the token comes from, with the copy of the config main has had since
\* the start: 0 if the user has to log in.
CachedToken(p) ==
  LET auth == copy[p].auth IN
  CASE proc[p].verb = "token" -> Given
    [] proc[p].verb # "reauth" /\ auth[proc[p].dir] # 0 -> auth[proc[p].dir]
    [] OTHER -> 0

\* The session is the directory's, or a new one, and saved under the lock. A
\* shim without a token takes the one of any directory, or none.
ResolveSession(p) ==
  /\ At(p) = "read" /\ proc[p].job = "resolve"
  /\ LET d == proc[p].dir
         resume == proc[p].verb # "new" /\ local[p].session[d] # 0
         s == IF resume THEN local[p].session[d] ELSE made + 1
         others == {copy[p].auth[e] : e \in Dirs} \ {0}
     IN  /\ resume \/ made < MaxSessions
         /\ made' = IF resume THEN made ELSE made + 1
         /\ Saves(p, [local[p] EXCEPT !.session[d] = s])
         /\ \E t \in IF CachedToken(p) = 0 /\ proc[p].verb = "shim" /\ others # {}
                     THEN others ELSE {CachedToken(p)} :
              proc' = [proc EXCEPT ![p] = [@ EXCEPT
                !.session = s, !.resume = resume, !.token = t,
                !.at = IF t # 0 \/ proc[p].verb = "shim" THEN "running" ELSE "auth"]]
  /\ UNCHANGED <<flowVars, copy, local, stale>>

\* device_flow_login.
AskForCode(p) ==
  /\ At(p) = "auth" /\ RequestCode(p)
  /\ UNCHANGED startVars

\* The token is put into main's copy, and that is what is to be saved.
TakeToken(p) ==
  /\ At(p) = "auth" /\ cli[p] = "granted"
  /\ copy' = [copy EXCEPT ![p].auth[proc[p].dir] = got[p]]
  /\ proc' = [proc EXCEPT ![p] = [@ EXCEPT
       !.token = got[p], !.job = "auth", !.at = "locking"]]
  /\ UNCHANGED <<flowVars, local, config, lock, stale, made>>

LoginFails(p) ==
  /\ At(p) = "auth" /\ cli[p] = "failed"
  /\ proc' = [proc EXCEPT ![p].at = "failed"]
  /\ UNCHANGED <<flowVars, copy, local, config, lock, stale, made>>

\* atomic_save of main's copy after the login.
SaveToken(p) ==
  /\ At(p) = "read" /\ proc[p].job = "auth"
  /\ Saves(p, local[p])
  /\ proc' = [proc EXCEPT ![p].at = "running"]
  /\ UNCHANGED <<flowVars, copy, local, stale, made>>

\* --logout saves main's copy without the token.
SaveLogout(p) ==
  /\ At(p) = "read" /\ proc[p].verb = "logout"
  /\ Saves(p, [local[p] EXCEPT !.auth[proc[p].dir] = 0])
  /\ proc' = [proc EXCEPT ![p].at = "ended"]
  /\ UNCHANGED <<flowVars, copy, local, stale, made>>

\* --init saves it with the token of the URL.
SaveInit(p) ==
  /\ At(p) = "read" /\ proc[p].verb = "init"
  /\ Saves(p, [local[p] EXCEPT !.auth[proc[p].dir] = Given])
  /\ proc' = [proc EXCEPT ![p].at = "ended"]
  /\ UNCHANGED <<flowVars, copy, local, stale, made>>

\* The agent runs until it exits or fails.
RunEnds(p) ==
  /\ At(p) = "running"
  /\ proc' = [proc EXCEPT ![p].at = "ended"]
  /\ UNCHANGED <<flowVars, copy, local, config, lock, stale, made>>

\* The agent does not know the session that is to be resumed: a new one takes
\* its place.
SessionNotFound(p) ==
  /\ At(p) = "running" /\ proc[p].resume /\ made < MaxSessions
  /\ proc' = [proc EXCEPT ![p] = [@ EXCEPT !.job = "replace", !.at = "locking"]]
  /\ UNCHANGED <<flowVars, copy, local, config, lock, stale, made>>

ReplaceSession(p) ==
  /\ At(p) = "read" /\ proc[p].job = "replace" /\ made < MaxSessions
  /\ made' = made + 1
  /\ Saves(p, [local[p] EXCEPT !.session[proc[p].dir] = made + 1])
  /\ proc' = [proc EXCEPT ![p] = [@ EXCEPT
       !.session = made + 1, !.resume = FALSE, !.at = "running"]]
  /\ UNCHANGED <<flowVars, copy, local, stale>>

\* A process is killed, and leaves the lock file.
Kill(p) ==
  /\ "kill" \in Faults
  /\ At(p) # "unstarted" /\ ~Over(p)
  /\ proc' = [proc EXCEPT ![p].at = "killed"]
  /\ stale' = stale \ {p}
  /\ UNCHANGED <<flowVars, copy, local, config, lock, made>>

-----------------------------------------------------------------------------
\* The polls of a process that is not killed.
PollLogin(p) ==
  /\ At(p) = "auth" /\ (Poll(p) \/ TimesOut(p))
  /\ UNCHANGED startVars

\* What users and the backend do.
Visit(b) ==
  /\ \/ \E l \in Logins : OpenVerify(b, l)
     \/ \E u \in Users : LogIn(b, u)
     \/ SignIn(b) \/ LogOut(b) \/ Approve(b) \/ Deny(b)
  /\ UNCHANGED startVars

AnswerApproval(b) == Complete(b) /\ UNCHANGED startVars

Forget ==
  /\ PurgeCodes \/ BackendRestarts \/ \E l \in Logins : CodeExpires(l)
  /\ UNCHANGED startVars

Begin(p) == \E verb \in Verbs, d \in Dirs : Start(p, verb, d)

\* What a process does on its own, until the agent runs or the start fails.
Proceed(p) ==
  \/ CreateLock(p) \/ SeeStaleLock(p) \/ RemoveStaleLock(p) \/ GiveUpLock(p)
  \/ ReadConfig(p) \/ ResolveSession(p) \/ SaveToken(p) \/ SaveLogout(p)
  \/ SaveInit(p) \/ ReplaceSession(p)
  \/ AskForCode(p) \/ PollLogin(p) \/ TakeToken(p) \/ LoginFails(p)

Next ==
  \/ \E p \in Procs : \/ Begin(p) \/ InstallUpdate(p) \/ Proceed(p) \/ RunEnds(p)
                      \/ SessionNotFound(p) \/ Kill(p)
  \/ \E b \in Browsers : Visit(b) \/ AnswerApproval(b)
  \/ Forget

Spec == Init /\ [][Next]_vars

\* A process that is not killed goes on, and so does a request to the backend.
\* Users need do nothing, and a code need not expire.
Fairness ==
  /\ \A p \in Procs : WF_vars(Proceed(p))
  /\ \A b \in Browsers : WF_vars(AnswerApproval(b))

-----------------------------------------------------------------------------
(* Properties.                                                              *)

\* "By default, claude-portal resumes your last session in this directory"
\* (main.rs): whatever processes do at once, the config has for each directory
\* the last session that a process resolved there.
LastSessionRemembered ==
  \A p \in Procs : proc[p].session # 0 =>
    config.session[proc[p].dir] >= proc[p].session

\* A start ends: with the agent running, with a failure, or with a code that
\* only the user has not yet answered.
Settled(p) ==
  \/ At(p) = "running" \/ Over(p)
  \/ At(p) = "auth" /\ cli[p] = "waiting" /\ flow[p].status = "pending" /\ p \notin late

StartEnds == \A p \in Procs : (At(p) # "unstarted") ~> Settled(p)

\* When the user was told that the device is authorized, the program gets the
\* token, unless the code expired before the next poll.
HasToken(p) == p \in late \/ (got[p] # 0 /\ proc[p].token = got[p])

ApprovalReachesProgram ==
  \A p \in Procs :
    (At(p) = "auth" /\ \E b \in Browsers : tab[b] = Page("approved", p)) ~> HasToken(p)
=============================================================================
