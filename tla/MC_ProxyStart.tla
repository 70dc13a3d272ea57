--------------------------- MODULE MC_ProxyStart ---------------------------
(***************************************************************************)
(* Model checking of ProxyStart on three instances in one run: the one of  *)
(* the configuration, where two processes have no token and log in; Killed, *)
(* where two have a token, start in two directories and are killed; and    *)
(* Contested, where one logs in, with two browsers, and everything about   *)
(* it may fail. The first state picks.                                     *)
(***************************************************************************)
EXTENDS ProxyStart

CONSTANTS here, there, p1, p2, b1, b2, u1, u2  \* members of the sets

VARIABLE mode  \* which instance it is

Killed == INSTANCE ProxyStart WITH
  Logins <- {p1, p2}, Browsers <- {}, Users <- {}, Refused <- {}, Banned <- {},
  MaxTokens <- 0, Dirs <- {here, there}, Cached <- {here}, MaxSessions <- 4,
  Verbs <- {"run", "new", "token", "shim"}, Faults <- {"kill", "update"}

Contested == INSTANCE ProxyStart WITH
  Logins <- {p1}, Browsers <- {b1, b2}, Users <- {u1, u2}, Refused <- {}, Banned <- {u2},
  MaxTokens <- 2, Dirs <- {here}, Cached <- {here}, MaxSessions <- 1,
  Verbs <- {"reauth"}, Faults <- {"late", "restart", "db", "network"}

MCInit ==
  \/ mode = "calm" /\ Init
  \/ mode = "killed" /\ Killed!Init
  \/ mode = "contested" /\ Contested!Init

In(m, A) == mode = m /\ A
Either(A, B, C) ==
  /\ UNCHANGED mode
  /\ CASE mode = "calm" -> A [] mode = "killed" -> B [] mode = "contested" -> C

MCNext ==
  \/ Either(\E p \in Procs : Begin(p),
            \E p \in {p1, p2} : Killed!Begin(p), Contested!Begin(p1))
  \/ Either(\E p \in Procs : InstallUpdate(p),
            \E p \in {p1, p2} : Killed!InstallUpdate(p), Contested!InstallUpdate(p1))
  \/ Either(\E p \in Procs : Proceed(p),
            \E p \in {p1, p2} : Killed!Proceed(p), Contested!Proceed(p1))
  \/ Either(\E p \in Procs : RunEnds(p),
            \E p \in {p1, p2} : Killed!RunEnds(p), Contested!RunEnds(p1))
  \/ Either(\E p \in Procs : SessionNotFound(p),
            \E p \in {p1, p2} : Killed!SessionNotFound(p), Contested!SessionNotFound(p1))
  \/ Either(\E p \in Procs : Kill(p),
            \E p \in {p1, p2} : Killed!Kill(p), Contested!Kill(p1))
  \/ Either(\E b \in Browsers : Visit(b),
            FALSE, \E b \in {b1, b2} : Contested!Visit(b))
  \/ Either(\E b \in Browsers : AnswerApproval(b),
            FALSE, \E b \in {b1, b2} : Contested!AnswerApproval(b))
  \/ Either(Forget, FALSE, Contested!Forget)

\* The fairness of the instance of the configuration.
MCSpec ==
  /\ MCInit
  /\ [][MCNext]_<<vars, mode>>
  /\ \A p \in Procs : WF_vars(In("calm", Proceed(p)))
  /\ \A b \in Browsers : WF_vars(In("calm", AnswerApproval(b)))

-----------------------------------------------------------------------------
\* Processes that need not log in remember the last session of a directory,
\* also when they are killed. The types hold, too.
CachedRemembers ==
  CASE mode = "calm" -> TypeOK
    [] mode = "killed" -> Killed!LastSessionRemembered /\ Killed!TypeOK
    [] mode = "contested" -> Contested!TypeOK

\* A start of a program that is not killed ends, and an approval that the user was
\* told of reaches it.
CalmLoginEnds ==
  \A p \in Procs :
    /\ In("calm", At(p) # "unstarted") ~> In("calm", Settled(p))
    /\ In("calm", At(p) = "auth" /\ \E b \in Browsers : tab[b] = Page("approved", p))
         ~> In("calm", HasToken(p))
=============================================================================
