---------------------------- MODULE LauncherLink ----------------------------
(***************************************************************************)
(* The launcher of one host and user at the backend: its registration and  *)
(* the check for a second one (launcher_socket.rs, session_manager.rs), its *)
(* reconnects and restarts (launcher/src/connection.rs, main.rs), and the  *)
(* renewal of its token (launcher_socket.rs, launchers.rs).                *)
(*                                                                         *)
(* The launcher's processes are numbered in the order they start; a process *)
(* has a launcher_id of its own. Connections and tokens are numbered, too;  *)
(* token 1 is the one the config has at first.                             *)
(***************************************************************************)
EXTENDS Naturals, Sequences

CONSTANTS
  MaxProc,     \* bound: processes started
  MaxConn,     \* bound: connections opened
  MaxRenewals, \* bound: tokens minted
  Requests,    \* requests of users to renew the token
  FaultSets    \* sets of "second", "half_open", "crossing", "overlapping", "config", "db"

ASSUME LauncherLinkAssumption ==
  /\ MaxProc \in Nat \ {0}
  /\ MaxConn \in Nat
  /\ MaxRenewals \in Nat
  /\ Requests \intersect Nat = {}
  /\ FaultSets \subseteq
       SUBSET {"second", "half_open", "crossing", "overlapping", "config", "db"}

VARIABLES
  faults,   \* one of FaultSets: what may go wrong
  proc,     \* [process -> what it does]
  started,  \* number of processes started
  token,    \* [process -> the token it was started with]
  config,   \* the token in the config file
  conn,     \* [process -> its connection; 0 if none]
  conns,    \* number of connections opened
  sock,     \* [connection -> the backend's task for it]
  cut,      \* connections that are lost
  inbox,    \* [connection -> messages to the launcher]
  entry,    \* SessionManager.launchers: [process -> connection and token]
  valid,    \* tokens in proxy_auth_tokens that are not revoked
  minted,   \* number of tokens minted
  renewal,  \* [connection or request -> its step in a renewal]
  refused   \* [process -> what it was finally refused for]

launcher == <<proc, started, token, config, conn, conns>>
link == <<sock, cut, inbox>>
tokens == <<valid, minted, renewal>>
vars == <<launcher, link, entry, tokens, refused>>

Procs == 1..MaxProc
Conns == 1..MaxConn
Tokens == 1..(MaxRenewals + 1)
Renewers == Conns \union Requests

NoEntry == [conn |-> 0, token |-> 1]
Idle == [at |-> "idle", id |-> 0, conn |-> 0, old |-> 0, new |-> 0]
Ack(outcome) == [kind |-> outcome, token |-> 0]
TokenRenewed(t) == [kind |-> "renewed", token |-> t]

TypeOK ==
  /\ proc \in [Procs -> {"unstarted", "down", "registering", "serving", "exited"}]
  /\ started \in 0..MaxProc
  /\ token \in [Procs -> {0} \union Tokens]
  /\ config \in Tokens
  /\ conn \in [Procs -> {0} \union Conns]
  /\ conns \in 0..MaxConn
  /\ sock \in [Conns -> [at : {"none", "open", "verified", "checked", "registered",
                               "ended"},
                         id : {0} \union Procs]]
  /\ cut \subseteq Conns
  /\ inbox \in [Conns -> Seq([kind : {"ok", "failed", "fatal", "renewed"},
                              token : {0} \union Tokens])]
  /\ entry \in [Procs -> [conn : {0} \union Conns, token : Tokens]]
  /\ valid \subseteq Tokens
  /\ minted \in 1..(MaxRenewals + 1)
  /\ renewal \in [Renewers -> [at : {"idle", "mint", "revoke", "update", "push"},
                               id : {0} \union Procs, conn : {0} \union Conns,
                               old : {0} \union Tokens, new : {0} \union Tokens]]
  /\ refused \in [Procs -> {"not", "token", "query", "itself", "another"}]

Init ==
  /\ faults \in FaultSets
  /\ proc = [p \in Procs |-> "unstarted"] /\ started = 0
  /\ token = [p \in Procs |-> 0]
  /\ config = 1
  /\ conn = [p \in Procs |-> 0] /\ conns = 0
  /\ sock = [c \in Conns |-> [at |-> "none", id |-> 0]]
  /\ cut = {}
  /\ inbox = [c \in Conns |-> <<>>]
  /\ entry = [p \in Procs |-> NoEntry]
  /\ valid = {1} /\ minted = 1
  /\ renewal = [r \in Renewers |-> Idle]
  /\ refused = [p \in Procs |-> "not"]

Running(p) == proc[p] \notin {"unstarted", "exited"}

-----------------------------------------------------------------------------
(* The launcher.                                                            *)

\* A process starts with the config's token: the first one, one that replaces a
\* process that exited, or a second one.
Start ==
  /\ started < MaxProc
  /\ "second" \in faults \/ \A p \in Procs : ~Running(p)
  /\ started' = started + 1
  /\ proc' = [proc EXCEPT ![started + 1] = "down"]
  /\ token' = [token EXCEPT ![started + 1] = config]
  /\ UNCHANGED <<config, conn, conns, link, entry, tokens, refused>>

\* The launcher connects and sends LauncherRegister. Unless connections stay
\* half open, the backend is done with the ones that were lost.
Connect(p) ==
  /\ proc[p] = "down" /\ conns < MaxConn
  /\ "half_open" \in faults \/ \A c \in cut : sock[c].at = "ended"
  /\ conns' = conns + 1
  /\ conn' = [conn EXCEPT ![p] = conns + 1]
  /\ sock' = [sock EXCEPT ![conns + 1] = [at |-> "open", id |-> p]]
  /\ proc' = [proc EXCEPT ![p] = "registering"]
  /\ UNCHANGED <<started, token, config, cut, inbox, entry, tokens, refused>>

\* LauncherRegisterAck: go on, try again, or exit.
ReadAck(p) ==
  /\ proc[p] = "registering" /\ inbox[conn[p]] # <<>>
  /\ LET outcome == Head(inbox[conn[p]]).kind
     IN  /\ proc' = [proc EXCEPT ![p] = CASE outcome = "ok" -> "serving"
                                          [] outcome = "failed" -> "down"
                                          [] outcome = "fatal" -> "exited"]
         /\ IF outcome = "ok" THEN UNCHANGED <<conn, cut>>
            ELSE conn' = [conn EXCEPT ![p] = 0] /\ cut' = cut \union {conn[p]}
  /\ inbox' = [inbox EXCEPT ![conn[p]] = Tail(@)]
  /\ UNCHANGED <<started, token, config, conns, sock, entry, tokens, refused>>

\* TokenRenewed: the token goes to the config. The process keeps its own.
ReceiveToken(p) ==
  /\ proc[p] = "serving" /\ inbox[conn[p]] # <<>>
  /\ \/ config' = Head(inbox[conn[p]]).token
     \/ "config" \in faults /\ UNCHANGED config
  /\ inbox' = [inbox EXCEPT ![conn[p]] = Tail(@)]
  /\ UNCHANGED <<proc, started, token, conn, conns, sock, cut, entry, tokens, refused>>

\* The connection is lost with what is on its way.
LinkCut(p) ==
  /\ conn[p] # 0 /\ conns < MaxConn
  /\ cut' = cut \union {conn[p]}
  /\ inbox' = [inbox EXCEPT ![conn[p]] = <<>>]
  /\ conn' = [conn EXCEPT ![p] = 0]
  /\ proc' = [proc EXCEPT ![p] = "down"]
  /\ UNCHANGED <<started, token, config, conns, sock, entry, tokens, refused>>

\* The process ends, as by service restart or a kill.
Stop(p) ==
  /\ Running(p) /\ started < MaxProc /\ conns < MaxConn
  /\ proc' = [proc EXCEPT ![p] = "exited"]
  /\ conn' = [conn EXCEPT ![p] = 0]
  /\ cut' = cut \union ({conn[p]} \ {0})
  /\ inbox' = [c \in Conns |-> IF c = conn[p] THEN <<>> ELSE inbox[c]]
  /\ UNCHANGED <<started, token, config, conns, sock, entry, tokens, refused>>

-----------------------------------------------------------------------------
(* The backend's task for a connection.                                     *)

Send(c, m) == inbox' = IF c \in cut THEN inbox ELSE [inbox EXCEPT ![c] = Append(@, m)]

Step(c, at) == sock' = [sock EXCEPT ![c].at = at]

\* verify_and_get_user. Without a connection to the database the refusal is for
\* now; a query that fails counts as a token that does not work.
Verify(c) ==
  /\ sock[c].at = "open"
  /\ LET p == sock[c].id
     IN  \/ /\ token[p] \in valid
            /\ Step(c, "verified")
            /\ UNCHANGED <<inbox, refused>>
         \/ /\ token[p] \notin valid
            /\ Step(c, "ended") /\ Send(c, Ack("fatal"))
            /\ refused' = [refused EXCEPT ![p] = "token"]
         \/ /\ "db" \in faults
            /\ Step(c, "ended")
            /\ \/ Send(c, Ack("failed")) /\ UNCHANGED refused
               \/ Send(c, Ack("fatal")) /\ refused' = [refused EXCEPT ![p] = "query"]
  /\ UNCHANGED <<launcher, cut, entry, tokens>>

\* find_duplicate_launcher: the entries compared have one host and user.
Duplicates == {q \in Procs : entry[q].conn # 0}

\* A mutated form of CheckDuplicate: a launcher is told apart by its id.
CheckIdMutant(c) ==
  /\ sock[c].at = "verified"
  /\ "crossing" \in faults \/ \A d \in Conns : sock[d].at # "checked"
  /\ LET p == sock[c].id
     IN  IF entry[p].conn = 0
         THEN /\ Step(c, "checked") /\ Send(c, Ack("ok"))
              /\ UNCHANGED refused
         ELSE /\ Step(c, "ended") /\ Send(c, Ack("fatal"))
              /\ refused' = [refused EXCEPT ![p] = "itself"]
  /\ UNCHANGED <<launcher, cut, entry, tokens>>

\* find_duplicate_launcher compares host and user, not the id. The launcher is
\* told at once, and entered afterwards.
CheckDuplicate(c) ==
  /\ sock[c].at = "verified"
  /\ "crossing" \in faults \/ \A d \in Conns : sock[d].at # "checked"
  /\ LET p == sock[c].id
     IN  IF Duplicates = {}
         THEN /\ Step(c, "checked") /\ Send(c, Ack("ok"))
              /\ UNCHANGED refused
         ELSE /\ Step(c, "ended") /\ Send(c, Ack("fatal"))
              /\ refused' = [refused EXCEPT ![p] =
                   IF \E q \in Duplicates \ {p} : Running(q) THEN "another" ELSE "itself"]
  /\ UNCHANGED <<launcher, cut, entry, tokens>>

\* register_launcher
RegisterLauncher(c) ==
  /\ sock[c].at = "checked"
  /\ entry' = [entry EXCEPT ![sock[c].id] = [conn |-> c, token |-> token[sock[c].id]]]
  /\ Step(c, "registered")
  /\ UNCHANGED <<launcher, cut, inbox, tokens, refused>>

\* A mutated form of SocketEnds: the launcher stays registered.
StayRegisteredMutant(c) ==
  /\ sock[c].at \in {"open", "registered"} /\ c \in cut /\ renewal[c] = Idle
  /\ Step(c, "ended")
  /\ UNCHANGED <<launcher, cut, inbox, entry, tokens, refused>>

\* The end of the connection is noticed: unregister_launcher, whatever
\* connection the entry is for.
SocketEnds(c) ==
  /\ sock[c].at \in {"open", "registered"} /\ c \in cut /\ renewal[c] = Idle
  /\ entry' = IF sock[c].at = "registered" THEN [entry EXCEPT ![sock[c].id] = NoEntry]
                                           ELSE entry
  /\ Step(c, "ended")
  /\ UNCHANGED <<launcher, cut, inbox, tokens, refused>>

\* The backend restarts: SessionManager starts empty.
BackendRestart ==
  /\ conns < MaxConn
  /\ \E c \in Conns : sock[c].at \notin {"none", "ended"}
  /\ sock' = [c \in Conns |-> IF sock[c].at = "none" THEN sock[c]
                             ELSE [sock[c] EXCEPT !.at = "ended"]]
  /\ cut' = cut \union {c \in Conns : sock[c].at # "none"}
  /\ inbox' = [c \in Conns |-> <<>>]
  /\ proc' = [p \in Procs |-> IF conn[p] # 0 THEN "down" ELSE proc[p]]
  /\ conn' = [p \in Procs |-> 0]
  /\ entry' = [p \in Procs |-> NoEntry]
  /\ renewal' = [r \in Renewers |-> Idle]
  /\ UNCHANGED <<started, token, config, conns, valid, minted, refused>>

-----------------------------------------------------------------------------
(* The renewal of a token, by a heartbeat or by a user's request.           *)

\* The bound, and one renewal at a time unless they overlap.
MayRenew ==
  /\ minted <= MaxRenewals
  /\ "overlapping" \in faults \/ \A r \in Renewers : renewal[r] = Idle

\* The launcher's entry is read: a heartbeat within seven days of expiry ...
HeartbeatRenews(c) ==
  /\ sock[c].at = "registered" /\ renewal[c] = Idle /\ MayRenew
  /\ LET p == sock[c].id
     IN  /\ entry[p].conn # 0
         /\ renewal' = [renewal EXCEPT ![c] =
              [at |-> "mint", id |-> p, conn |-> entry[p].conn,
               old |-> entry[p].token, new |-> 0]]
  /\ UNCHANGED <<launcher, link, entry, valid, minted, refused>>

\* ... or a request.
RequestRenews(r) ==
  /\ renewal[r] = Idle /\ MayRenew
  /\ \E p \in Procs :
       /\ entry[p].conn # 0
       /\ renewal' = [renewal EXCEPT ![r] =
            [at |-> "mint", id |-> p, conn |-> entry[p].conn,
             old |-> entry[p].token, new |-> 0]]
  /\ UNCHANGED <<launcher, link, entry, valid, minted, refused>>

\* A mutated form of Mint: the old token is revoked first, by Mint itself.
MintLateMutant(r) ==
  /\ renewal[r].at = "mint"
  /\ valid' = valid \ {renewal[r].old}
  /\ \/ /\ minted <= MaxRenewals
        /\ minted' = minted + 1
        /\ renewal' = [renewal EXCEPT ![r].at = "revoke", ![r].new = minted + 1]
     \/ /\ "db" \in faults \/ minted > MaxRenewals
        /\ renewal' = [renewal EXCEPT ![r] = Idle]
        /\ UNCHANGED minted
  /\ UNCHANGED <<launcher, link, entry, refused>>

\* The new token's row is inserted, or the renewal given up.
Mint(r) ==
  /\ renewal[r].at = "mint"
  /\ \/ /\ minted <= MaxRenewals
        /\ minted' = minted + 1
        /\ valid' = valid \union {minted + 1}
        /\ renewal' = [renewal EXCEPT ![r].at = "revoke", ![r].new = minted + 1]
     \/ /\ "db" \in faults \/ minted > MaxRenewals
        /\ renewal' = [renewal EXCEPT ![r] = Idle]
        /\ UNCHANGED <<valid, minted>>
  /\ UNCHANGED <<launcher, link, entry, refused>>

Revoke(r) ==
  /\ renewal[r].at = "revoke"
  /\ valid' = valid \ {renewal[r].old}
  /\ renewal' = [renewal EXCEPT ![r].at = "update"]
  /\ UNCHANGED <<launcher, link, entry, minted, refused>>

UpdateEntry(r) ==
  /\ renewal[r].at = "update"
  /\ LET p == renewal[r].id
     IN  entry' = IF entry[p].conn = 0 THEN entry
                  ELSE [entry EXCEPT ![p].token = renewal[r].new]
  /\ renewal' = [renewal EXCEPT ![r].at = "push"]
  /\ UNCHANGED <<launcher, link, valid, minted, refused>>

\* The token is sent to the connection the entry was read for.
Push(r) ==
  /\ renewal[r].at = "push"
  /\ Send(renewal[r].conn, TokenRenewed(renewal[r].new))
  /\ renewal' = [renewal EXCEPT ![r] = Idle]
  /\ UNCHANGED <<launcher, sock, cut, entry, valid, minted, refused>>

-----------------------------------------------------------------------------
BackendStep(c) ==
  Verify(c) \/ CheckDuplicate(c) \/ RegisterLauncher(c) \/ SocketEnds(c)

RenewalStep(r) == Mint(r) \/ Revoke(r) \/ UpdateEntry(r) \/ Push(r)

LauncherStep(p) == Connect(p) \/ ReadAck(p) \/ ReceiveToken(p)

Next ==
  \/ Start \/ BackendRestart
  \/ \E p \in Procs : LauncherStep(p) \/ LinkCut(p) \/ Stop(p)
  \/ \E c \in Conns : BackendStep(c) \/ HeartbeatRenews(c)
  \/ \E r \in Renewers : RenewalStep(r)
  \/ \E r \in Requests : RequestRenews(r)

Spec == Init /\ [][Next /\ UNCHANGED faults]_<<vars, faults>>

\* The service manager restarts the launcher, both sides run on, and the backend
\* notices the end of a connection.
FairSpec ==
  /\ Spec
  /\ WF_vars(Start)
  /\ \A p \in Procs : WF_vars(LauncherStep(p))
  /\ \A c \in Conns : WF_vars(BackendStep(c))
  /\ \A r \in Renewers : WF_vars(RenewalStep(r))

-----------------------------------------------------------------------------
(* Properties.                                                              *)

\* "only one launcher per (hostname, user) is allowed"
OneLauncher ==
  \A p, q \in DOMAIN entry : entry[p].conn # 0 /\ entry[q].conn # 0 => p = q

\* A launcher that serves on a connection is reached through its entry.
ServingIsRegistered ==
  \A p \in DOMAIN proc :
    (proc[p] = "serving" /\ sock[conn[p]].at = "registered") => entry[p].conn = conn[p]

\* Whatever goes wrong, but for two registrations that cross, "only one launcher
\* per (hostname, user) is allowed", and it is reached through its entry.
OneReachableLauncher == "crossing" \notin faults => OneLauncher /\ ServingIsRegistered

\* A launcher was refused for no entry of its own, or of a process that is gone.
NotRefusedForItself == \A p \in Procs : refused[p] # "itself"

\* No launcher is, when no second one runs and connections are seen to end in their
\* turn.
OwnEntryIsNoObstacle == {"second", "half_open"} \cap faults = {} => NotRefusedForItself

\* A launcher whose token was only ever renewed is not refused for its token.
TokenNotRefused == \A p \in Procs : refused[p] # "token"

\* Whatever renewals do, the user has a token that works.
ATokenIsValid == valid # {}

\* The token the launcher would start with works, or a new one is on its way to
\* the config.
SavedTokenWorks ==
  \/ config \in valid
  \/ \E r \in Renewers : renewal[r].at \in {"update", "push"}
  \/ \E c \in Conns \ cut : \E i \in DOMAIN inbox[c] : inbox[c][i].kind = "renewed"

\* When no renewal is on its way there is one token that works: the others are
\* revoked.
OldTokensRevoked ==
  (\A r \in Renewers : renewal[r] = Idle) => \A s, t \in valid : s = t

\* In the end a launcher serves for good.
LauncherComesBack ==
  <>[](\E p \in Procs : proc[p] = "serving" /\ entry[p].conn = conn[p])
=============================================================================
