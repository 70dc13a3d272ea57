----------------------------- MODULE DeviceFlow -----------------------------
(***************************************************************************)
(* Device flow login: a command line program asks the backend for a code,  *)
(* a user approves the code in a browser, and the program polls until it   *)
(* has the token (backend/src/handlers/device_flow.rs and auth.rs,         *)
(* portal-auth/src/lib.rs, the purge in backend/src/main.rs).              *)
(*                                                                         *)
(* A program logs in at most once and is named like its device code and    *)
(* its user code. Codes are random and taken to differ.                    *)
(***************************************************************************)
EXTENDS Naturals

CONSTANTS
  Logins,     \* programs, each with the codes of its login
  Browsers,   \* browsers, each with one cookie jar and one tab of interest
  Users,      \* users that log in with the identity provider
  Refused,    \* people whose e-mail is not allowed
  Banned,     \* people that are disabled
  None,       \* no user, no code
  MaxTokens,  \* bound: tokens minted
  Faults      \* what may go wrong

ASSUME DeviceFlowAssumption ==
  /\ MaxTokens \in Nat
  /\ None \notin Users \union Logins
  /\ Faults \subseteq {"late", "restart", "db", "network", "update", "kill"}

VARIABLES
  flow,    \* device_flow_store: [login -> its state; status "absent" if none]
  late,    \* logins whose code is past its expires_at
  cli,     \* [login -> step of device_flow_login]
  got,     \* [login -> the token the program was given; 0 if none]
  tab,     \* [browser -> page it shows, for which code]
  cookie,  \* [browser -> the user of its session cookie]
  known,   \* users with a row in the database
  row      \* proxy_auth_tokens: [token minted -> its user]

backend == <<flow, late, known, row>>
browser == <<tab, cookie>>
flowVars == <<backend, cli, got, browser>>

Absent == [status |-> "absent", user |-> None, token |-> 0]
Pending == [Absent EXCEPT !.status = "pending"]
Page(name, l) == [at |-> name, code |-> l, token |-> 0]
Minted == {t \in DOMAIN row : row[t] # None}

FlowTypeOK ==
  /\ flow \in [Logins -> [status : {"absent", "pending", "complete", "expired", "denied"},
                          user : Users \union {None}, token : 0..MaxTokens]]
  /\ late \subseteq Logins
  /\ cli \in [Logins -> {"idle", "waiting", "granted", "failed"}]
  /\ got \in [Logins -> 0..MaxTokens]
  /\ tab \in [Browsers -> [at : {"landing", "dashboard", "login", "approval", "approving",
                                 "approved", "denied", "failed", "invalid", "no access"},
                           code : Logins \union {None}, token : 0..MaxTokens]]
  /\ cookie \in [Browsers -> Users \union {None}]
  /\ known \subseteq Users
  /\ row \in [1..MaxTokens -> Users \union {None}]

FlowInit ==
  /\ flow = [l \in Logins |-> Absent]
  /\ late = {}
  /\ cli = [l \in Logins |-> "idle"]
  /\ got = [l \in Logins |-> 0]
  /\ tab = [b \in Browsers |-> Page("landing", None)]
  /\ cookie = [b \in Browsers |-> None]
  /\ known = {}
  /\ row = [t \in 1..MaxTokens |-> None]

-----------------------------------------------------------------------------
(* The program and the backend's store of codes.                            *)

\* A code is asked for and shown, or the request fails.
RequestCode(l) ==
  /\ cli[l] = "idle"
  /\ \/ /\ flow' = [flow EXCEPT ![l] = Pending]
        /\ cli' = [cli EXCEPT ![l] = "waiting"]
     \/ /\ "network" \in Faults
        /\ cli' = [cli EXCEPT ![l] = "failed"]
        /\ UNCHANGED flow
  /\ UNCHANGED <<late, known, row, got, browser>>

\* The status a poll sees: it is expired first, whatever it was.
PolledStatus(l) ==
  IF flow[l].status # "absent" /\ l \in late THEN "expired" ELSE flow[l].status

\* One poll. The program goes on as long as the code is pending; the answer
\* to a completed flow can be asked for again, so it only matters who reads it.
Poll(l) ==
  /\ cli[l] = "waiting"
  /\ flow' = [flow EXCEPT ![l].status = PolledStatus(l)]
  /\ \/ /\ PolledStatus(l) = "pending"
        /\ UNCHANGED <<cli, got>>
     \/ /\ PolledStatus(l) = "complete"
        /\ cli' = [cli EXCEPT ![l] = "granted"]
        /\ got' = [got EXCEPT ![l] = flow[l].token]
     \/ /\ \/ PolledStatus(l) \in {"absent", "expired", "denied"}
           \/ "db" \in Faults /\ PolledStatus(l) = "complete"
           \/ "network" \in Faults
        /\ cli' = [cli EXCEPT ![l] = "failed"]
        /\ UNCHANGED got
  /\ UNCHANGED <<late, known, row, browser>>

\* The program's own clock runs out before its next poll. It started after the
\* backend's.
TimesOut(l) ==
  /\ cli[l] = "waiting" /\ l \in late
  /\ cli' = [cli EXCEPT ![l] = "failed"]
  /\ UNCHANGED <<backend, got, browser>>

\* The code's ten minutes are over.
CodeExpires(l) ==
  /\ "late" \in Faults
  /\ cli[l] # "idle" /\ l \notin late
  /\ late' = late \union {l}
  /\ UNCHANGED <<flow, known, row, cli, got, browser>>

\* Mutant: a code is purged as soon as it is answered.
PurgeCodesMutant ==
  /\ \E l \in Logins : flow[l].status \notin {"absent", "pending"}
  /\ flow' = [l \in Logins |-> IF flow[l].status = "pending" THEN flow[l] ELSE Absent]
  /\ UNCHANGED <<late, known, row, cli, got, browser>>

\* Every minute, whatever their status.
PurgeCodes ==
  /\ \E l \in late : flow[l].status # "absent"
  /\ flow' = [l \in Logins |-> IF l \in late THEN Absent ELSE flow[l]]
  /\ UNCHANGED <<late, known, row, cli, got, browser>>

\* The store is in memory only.
BackendRestarts ==
  /\ "restart" \in Faults
  /\ \E l \in Logins : flow[l].status # "absent"
  /\ flow' = [l \in Logins |-> Absent]
  /\ UNCHANGED <<late, known, row, cli, got, browser>>

-----------------------------------------------------------------------------
(* The browser.                                                             *)

\* The identity provider's page, asked to come back for code l.
DeviceLogin(l) == Page("login", l)

\* What the verification page is for code l and a browser with cookie u.
VerifyPage(l, u) ==
  IF flow[l].status # "pending" THEN Page("invalid", l)
  ELSE IF u = None THEN DeviceLogin(l)
  ELSE Page("approval", l)

\* The user follows the URL of the terminal, or types the code into the form.
OpenVerify(b, l) ==
  /\ cli[l] # "idle" /\ tab[b].at # "approving"
  /\ tab[b] # VerifyPage(l, cookie[b])
  /\ tab' = [tab EXCEPT ![b] = VerifyPage(l, cookie[b])]
  /\ UNCHANGED <<backend, cli, got, cookie>>

\* The login button leads to the identity provider.
SignIn(b) ==
  /\ tab[b].at = "landing"
  /\ tab' = [tab EXCEPT ![b] = Page("login", None)]
  /\ UNCHANGED <<backend, cli, got, cookie>>

EmailAllowed(u) == u \notin Refused

\* User u comes back from the identity provider. The first time a row is made.
LogIn(b, u) ==
  /\ tab[b].at = "login"
  /\ IF ~EmailAllowed(u)
     THEN /\ tab' = [tab EXCEPT ![b] = Page("no access", None)]
          /\ UNCHANGED <<known, cookie>>
     ELSE /\ known' = known \union {u}
          /\ IF u \in Banned
             THEN /\ tab' = [tab EXCEPT ![b] = Page("no access", None)]
                  /\ UNCHANGED cookie
             ELSE /\ cookie' = [cookie EXCEPT ![b] = u]
                  /\ tab' = [tab EXCEPT ![b] =
                       IF @.code = None THEN Page("dashboard", None)
                       ELSE VerifyPage(@.code, u)]
  /\ UNCHANGED <<flow, late, row, cli, got>>

\* The cookie is removed; a page in another tab stays.
LogOut(b) ==
  /\ cookie[b] # None
  /\ cookie' = [cookie EXCEPT ![b] = None]
  /\ tab' = [tab EXCEPT ![b] = IF @.at = "dashboard" THEN Page("landing", None) ELSE @]
  /\ UNCHANGED <<backend, cli, got>>

\* Approve: the token's row is written first.
Approve(b) ==
  /\ tab[b].at = "approval"
  /\ \/ /\ cookie[b] # None
        /\ \E t \in 1..MaxTokens :
             /\ Minted = 1..(t - 1)
             /\ row' = [row EXCEPT ![t] = cookie[b]]
             /\ tab' = [tab EXCEPT ![b] = [@ EXCEPT !.at = "approving", !.token = t]]
     \/ /\ cookie[b] = None \/ "db" \in Faults
        /\ tab' = [tab EXCEPT ![b] = Page("failed", @.code)]
        /\ UNCHANGED row
  /\ UNCHANGED <<flow, late, known, cli, got, cookie>>

\* Mutant: the flow is completed whatever its status.
CompleteMutant(b) ==
  /\ tab[b].at = "approving"
  /\ LET l == tab[b].code
         t == tab[b].token
     IN  /\ flow' = [flow EXCEPT ![l] =
              [status |-> "complete", user |-> row[t], token |-> t]]
         /\ tab' = [tab EXCEPT ![b] = Page("approved", l)]
  /\ UNCHANGED <<late, known, row, cli, got, cookie>>

\* Then the token goes to the flow, if it is still pending.
Complete(b) ==
  /\ tab[b].at = "approving"
  /\ LET l == tab[b].code
         t == tab[b].token
     IN  IF flow[l].status = "pending"
         THEN /\ flow' = [flow EXCEPT ![l] =
                   [status |-> "complete", user |-> row[t], token |-> t]]
              /\ tab' = [tab EXCEPT ![b] = Page("approved", l)]
         ELSE /\ tab' = [tab EXCEPT ![b] = Page("failed", l)]
              /\ UNCHANGED flow
  /\ UNCHANGED <<late, known, row, cli, got, cookie>>

\* Deny answers the same whether there was a pending flow or not.
Deny(b) ==
  /\ tab[b].at = "approval"
  /\ LET l == tab[b].code
     IN  IF cookie[b] = None
         THEN /\ tab' = [tab EXCEPT ![b] = Page("failed", l)]
              /\ UNCHANGED flow
         ELSE /\ tab' = [tab EXCEPT ![b] = Page("denied", l)]
              /\ flow' = [flow EXCEPT ![l].status = IF @ = "pending" THEN "denied" ELSE @]
  /\ UNCHANGED <<late, known, row, cli, got, cookie>>

-----------------------------------------------------------------------------
FlowNext ==
  \/ \E l \in Logins : RequestCode(l) \/ Poll(l) \/ TimesOut(l) \/ CodeExpires(l)
  \/ PurgeCodes
  \/ BackendRestarts
  \/ \E b \in Browsers, l \in Logins : OpenVerify(b, l)
  \/ \E b \in Browsers, u \in Users : LogIn(b, u)
  \/ \E b \in Browsers : SignIn(b) \/ LogOut(b) \/ Approve(b) \/ Complete(b) \/ Deny(b)

-----------------------------------------------------------------------------
(* Properties.                                                              *)

\* A program's token is the one of a row of the user whose approval completed
\* its own code, and no other program has it, however approvals, denials,
\* expiry and polls of several codes interleave.
TokenOfApprover ==
  \A l \in DOMAIN cli :
    cli[l] = "granted" =>
      /\ got[l] \in Minted /\ row[got[l]] \in known \ (Refused \union Banned)
      /\ flow[l].status # "absent" =>
           flow[l].token = got[l] /\ flow[l].user = row[got[l]]
      /\ \A k \in DOMAIN cli : k # l => got[k] # got[l]
=============================================================================
