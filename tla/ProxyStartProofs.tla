------------------------- MODULE ProxyStartProofs -------------------------
(***************************************************************************)
(* Theorems about ProxyStart and the DeviceFlow its processes log in with, *)
(* for any number of processes, browsers, users and tokens.                *)
(***************************************************************************)
EXTENDS ProxyStart, TLAPS

-----------------------------------------------------------------------------
(* The strengthening.                                                       *)

\* The users that may log in, and have.
Allowed == known \ (Refused \union Banned)

\* Only they have a session cookie and tokens.
Accounts ==
  /\ \A b \in Browsers : cookie[b] \in Allowed \union {None}
  /\ \A t \in 1..MaxTokens : row[t] \in Allowed \union {None}

\* A page that can complete a code is one of a code, and has a token that is minted.
Tabs ==
  \A b \in Browsers :
    /\ tab[b].at \in {"approval", "approving"} => tab[b].code \in Logins
    /\ tab[b].at = "approving" => tab[b].token \in Minted

\* A code has a token from its completion on, until it is forgotten: one of the user
\* that approved it.
Codes ==
  \A l \in Logins :
    /\ flow[l].status \in {"absent", "pending", "denied"} => flow[l].token = 0
    /\ flow[l].status = "complete" => flow[l].token # 0
    /\ flow[l].token # 0 => flow[l].token \in Minted /\ flow[l].user = row[flow[l].token]

\* What a program has been given is the token of its code.
Programs ==
  \A l \in Logins :
    /\ cli[l] # "granted" => got[l] = 0
    /\ cli[l] = "granted" =>
         /\ got[l] \in Minted
         /\ flow[l].status # "absent" => flow[l].token = got[l]

\* A token is of one page, or of one code and its program.
Apart ==
  /\ \A a, b \in Browsers :
       tab[a].at = "approving" /\ tab[b].at = "approving" /\ a # b =>
         tab[a].token # tab[b].token
  /\ \A b \in Browsers, l \in Logins :
       tab[b].at = "approving" => tab[b].token # flow[l].token /\ tab[b].token # got[l]
  /\ \A k, l \in Logins :
       k # l =>
         /\ flow[k].token # 0 => flow[k].token # flow[l].token /\ flow[k].token # got[l]
         /\ got[k] # 0 => got[k] # got[l]

-----------------------------------------------------------------------------
(* The types of the variables, by name.                                     *)

FlowState == [status : {"absent", "pending", "complete", "expired", "denied"},
              user : Users \union {None}, token : 0..MaxTokens]
CliState == {"idle", "waiting", "granted", "failed"}
TabState == [at : {"landing", "dashboard", "login", "approval", "approving",
                   "approved", "denied", "failed", "invalid", "no access"},
             code : Logins \union {None}, token : 0..MaxTokens]

FlowTyped ==
  /\ flow \in [Logins -> FlowState] /\ late \subseteq Logins
  /\ cli \in [Logins -> CliState] /\ got \in [Logins -> 0..MaxTokens]
  /\ tab \in [Browsers -> TabState] /\ cookie \in [Browsers -> Users \union {None}]
  /\ known \subseteq Users /\ row \in [1..MaxTokens -> Users \union {None}]

FlowInv == FlowTyped /\ Accounts /\ Tabs /\ Codes /\ Programs /\ Apart

LEMMA FlowTypedIsTypeOK == FlowTypeOK <=> FlowTyped
BY DEF FlowTyped, FlowTypeOK, FlowState, CliState, TabState

\* What the parts of typed variables are.
LEMMA FlowParts ==
  ASSUME FlowTyped
  PROVE  /\ MaxTokens \in Nat /\ None \notin Users /\ None \notin Logins
         /\ \A l \in Logins :
              /\ flow[l] \in FlowState
              /\ flow[l].token \in 0..MaxTokens /\ flow[l].user \in Users \union {None}
              /\ cli[l] \in CliState /\ got[l] \in 0..MaxTokens
         /\ \A b \in Browsers :
              /\ tab[b] \in TabState
              /\ tab[b].code \in Logins \union {None} /\ tab[b].token \in 0..MaxTokens
              /\ cookie[b] \in Users \union {None}
         /\ Minted \subseteq 1..MaxTokens /\ 0 \notin Minted
         /\ \A t \in 1..MaxTokens : t \in Minted <=> row[t] # None
<1>1. MaxTokens \in Nat /\ None \notin Users /\ None \notin Logins
  BY DeviceFlowAssumption
<1>2. ASSUME NEW l \in Logins
      PROVE  /\ flow[l] \in FlowState
             /\ flow[l].token \in 0..MaxTokens /\ flow[l].user \in Users \union {None}
             /\ cli[l] \in CliState /\ got[l] \in 0..MaxTokens
  BY DEF FlowTyped, FlowState
<1>3. ASSUME NEW b \in Browsers
      PROVE  /\ tab[b] \in TabState
             /\ tab[b].code \in Logins \union {None} /\ tab[b].token \in 0..MaxTokens
             /\ cookie[b] \in Users \union {None}
  BY DEF FlowTyped, TabState
<1>4. /\ Minted \subseteq 1..MaxTokens /\ 0 \notin Minted
      /\ \A t \in 1..MaxTokens : t \in Minted <=> row[t] # None
  BY <1>1 DEF FlowTyped, Minted
<1> QED BY <1>1, <1>2, <1>3, <1>4

LEMMA NoToken ==
  /\ Absent \in FlowState /\ Absent.status = "absent" /\ Absent.token = 0
  /\ Pending \in FlowState /\ Pending.status = "pending" /\ Pending.token = 0
<1>1. MaxTokens \in Nat
  BY DeviceFlowAssumption
<1>2. Absent \in FlowState /\ Absent.status = "absent" /\ Absent.token = 0
  BY <1>1 DEF Absent, FlowState
<1>3. Pending \in FlowState /\ Pending.status = "pending" /\ Pending.token = 0
  BY <1>1 DEF Absent, Pending, FlowState
<1> QED BY <1>2, <1>3

\* The pages that do not complete a code.
PageNames == {"landing", "dashboard", "login", "approval", "approved", "denied", "failed",
              "invalid", "no access"}

LEMMA Pages ==
  \A name \in PageNames, l \in Logins \union {None} :
    /\ Page(name, l) \in TabState
    /\ Page(name, l).at = name /\ Page(name, l).code = l
<1> TAKE name \in PageNames, l \in Logins \union {None}
<1>1. 0 \in 0..MaxTokens
  BY DeviceFlowAssumption
<1>2. name \in {"landing", "dashboard", "login", "approval", "approving", "approved",
                "denied", "failed", "invalid", "no access"}
  BY DEF PageNames
<1> QED BY <1>1, <1>2 DEF Page, TabState

-----------------------------------------------------------------------------
(* Initial states.                                                          *)

LEMMA FlowInvInit == FlowInit => FlowInv
<1> SUFFICES ASSUME FlowInit PROVE FlowInv
  OBVIOUS
<1>1. FlowTyped
  <2>1. Page("landing", None) \in TabState /\ Absent \in FlowState
    BY Pages, NoToken DEF PageNames
  <2>2. 0 \in 0..MaxTokens
    BY DeviceFlowAssumption
  <2> QED BY <2>1, <2>2 DEF FlowInit, FlowTyped, CliState
<1>2. Page("landing", None).at = "landing"
  BY DEF Page
<1>3. Accounts /\ Tabs
  <2>1. \A b \in Browsers : tab[b].at = "landing" /\ cookie[b] = None
    BY <1>2 DEF FlowInit
  <2>2. \A t \in 1..MaxTokens : row[t] = None
    BY DEF FlowInit
  <2> QED BY <2>1, <2>2 DEF Accounts, Tabs
<1>4. Codes /\ Programs
  BY NoToken DEF FlowInit, Codes, Programs
<1>5. Apart
  BY <1>2, NoToken DEF FlowInit, Apart
<1> QED BY <1>1, <1>3, <1>4, <1>5 DEF FlowInv

-----------------------------------------------------------------------------
(* The program and the store of codes.                                      *)

LEMMA RequestCodeStep ==
  ASSUME FlowInv, NEW l \in Logins, RequestCode(l)
  PROVE  FlowInv'
<1> USE DEF backend, browser
<1>1. FlowTyped
  BY DEF FlowInv
<1>2. cli[l] = "idle" /\ got[l] = 0 /\ UNCHANGED <<late, known, row, got, browser>>
  BY DEF RequestCode, FlowInv, Programs
<1>3. /\ cli' \in [Logins -> CliState] /\ cli'[l] \in {"waiting", "failed"}
      /\ \A k \in Logins \ {l} : cli'[k] = cli[k]
  BY <1>1 DEF RequestCode, FlowTyped, CliState
<1>4. /\ flow' \in [Logins -> FlowState] /\ flow'[l] \in {flow[l], Pending}
      /\ \A k \in Logins \ {l} : flow'[k] = flow[k]
  BY <1>1, NoToken DEF RequestCode, FlowTyped
<1>5. FlowTyped'
  BY <1>1, <1>2, <1>3, <1>4 DEF FlowTyped
<1>6. Accounts' /\ Tabs' /\ Minted' = Minted
  BY <1>2 DEF FlowInv, Accounts, Tabs, Allowed, Minted
<1>7. Codes'
  BY <1>2, <1>4, <1>6, NoToken DEF FlowInv, Codes
<1>8. Programs'
  BY <1>2, <1>3, <1>4, <1>6 DEF FlowInv, Programs
<1>9. Apart'
  BY <1>2, <1>4, NoToken, <1>1, FlowParts DEF FlowInv, Apart, Tabs
<1> QED BY <1>5, <1>6, <1>7, <1>8, <1>9 DEF FlowInv

LEMMA PollStep ==
  ASSUME FlowInv, NEW l \in Logins, Poll(l)
  PROVE  FlowInv'
<1> USE DEF backend, browser
<1>1. FlowTyped
  BY DEF FlowInv
<1>2. cli[l] = "waiting" /\ got[l] = 0 /\ UNCHANGED <<late, known, row, browser>>
  BY DEF Poll, FlowInv, Programs
<1>3. PolledStatus(l) \in {flow[l].status, "expired"}
      /\ (PolledStatus(l) = "expired" => flow[l].status # "absent")
      /\ PolledStatus(l) \in {"absent", "pending", "complete", "expired", "denied"}
  <2>1. flow[l].status \in {"absent", "pending", "complete", "expired", "denied"}
    BY <1>1, FlowParts DEF FlowState
  <2> QED BY <2>1 DEF PolledStatus
<1>4. /\ flow' \in [Logins -> FlowState]
      /\ flow'[l].status = PolledStatus(l)
      /\ flow'[l].token = flow[l].token /\ flow'[l].user = flow[l].user
      /\ \A k \in Logins \ {l} : flow'[k] = flow[k]
  <2>1. flow' = [flow EXCEPT ![l].status = PolledStatus(l)] /\ flow[l] \in FlowState
    BY <1>1, FlowParts DEF Poll
  <2>2. flow'[l] = [flow[l] EXCEPT !.status = PolledStatus(l)]
        /\ \A k \in Logins \ {l} : flow'[k] = flow[k]
    BY <1>1, <2>1 DEF FlowTyped
  <2>3. /\ flow'[l] \in FlowState /\ flow'[l].status = PolledStatus(l)
        /\ flow'[l].token = flow[l].token /\ flow'[l].user = flow[l].user
    BY <1>3, <2>1, <2>2 DEF FlowState
  <2>4. flow' \in [Logins -> FlowState]
    BY <1>1, <2>1, <2>3 DEF FlowTyped
  <2> QED BY <2>2, <2>3, <2>4
<1>5. /\ cli' \in [Logins -> CliState] /\ got' \in [Logins -> 0..MaxTokens]
      /\ \A k \in Logins \ {l} : cli'[k] = cli[k] /\ got'[k] = got[k]
      /\ \/ cli'[l] # "granted" /\ got'[l] = 0
         \/ cli'[l] = "granted" /\ got'[l] = flow[l].token /\ PolledStatus(l) = "complete"
  <2>1. CASE UNCHANGED <<cli, got>>
    BY <1>1, <1>2, <2>1 DEF FlowTyped
  <2>2. CASE /\ PolledStatus(l) = "complete"
             /\ cli' = [cli EXCEPT ![l] = "granted"]
             /\ got' = [got EXCEPT ![l] = flow[l].token]
    BY <1>1, <2>2, FlowParts DEF FlowTyped, CliState
  <2>3. CASE cli' = [cli EXCEPT ![l] = "failed"] /\ UNCHANGED got
    BY <1>1, <1>2, <2>3 DEF FlowTyped, CliState
  <2> QED BY <2>1, <2>2, <2>3 DEF Poll
<1>6. FlowTyped'
  BY <1>1, <1>2, <1>4, <1>5 DEF FlowTyped
<1>7. Accounts' /\ Tabs' /\ Minted' = Minted
  BY <1>2 DEF FlowInv, Accounts, Tabs, Allowed, Minted
<1>8. Codes'
  BY <1>2, <1>3, <1>4, <1>7 DEF FlowInv, Codes
<1>9. Programs'
  <2>1. PolledStatus(l) = "complete" => flow[l].status = "complete"
    BY <1>3
  <2> QED BY <1>2, <1>4, <1>5, <1>7, <2>1 DEF FlowInv, Programs, Codes
<1>10. Apart'
  BY <1>2, <1>4, <1>5, <1>1, FlowParts DEF FlowInv, Apart, Tabs
<1> QED BY <1>6, <1>7, <1>8, <1>9, <1>10 DEF FlowInv

LEMMA TimesOutStep ==
  ASSUME FlowInv, NEW l \in Logins, TimesOut(l)
  PROVE  FlowInv'
<1> USE DEF backend, browser
<1>1. /\ cli[l] = "waiting" /\ cli' = [cli EXCEPT ![l] = "failed"]
      /\ UNCHANGED <<backend, got, browser>>
  BY DEF TimesOut
<1>2. /\ cli' \in [Logins -> CliState] /\ cli'[l] = "failed"
      /\ \A k \in Logins \ {l} : cli'[k] = cli[k]
  BY <1>1 DEF FlowInv, FlowTyped, CliState
<1> QED BY <1>1, <1>2 DEF FlowInv, FlowTyped, Accounts, Tabs, Codes, Programs, Apart, Allowed,
                          Minted

LEMMA CodeExpiresStep ==
  ASSUME FlowInv, NEW l \in Logins, CodeExpires(l)
  PROVE  FlowInv'
BY DEF CodeExpires, browser, FlowInv, FlowTyped, Accounts, Tabs, Codes, Programs, Apart,
       Allowed, Minted

\* Codes are forgotten.
LEMMA ForgottenStep ==
  ASSUME FlowInv, \A l \in Logins : flow'[l] \in {flow[l], Absent},
         flow' \in [Logins -> FlowState], UNCHANGED <<late, known, row, cli, got, browser>>
  PROVE  FlowInv'
<1> USE DEF browser
<1>1. FlowTyped
  BY DEF FlowInv
<1>2. FlowTyped'
  BY <1>1 DEF FlowTyped
<1>3. Accounts' /\ Tabs' /\ Minted' = Minted
  BY DEF FlowInv, Accounts, Tabs, Allowed, Minted
<1>4. Codes'
  BY <1>3, NoToken DEF FlowInv, Codes
<1>5. Programs'
  BY <1>3, NoToken DEF FlowInv, Programs
<1>6. Apart'
  BY <1>1, NoToken, FlowParts DEF FlowInv, Apart, Tabs
<1> QED BY <1>2, <1>3, <1>4, <1>5, <1>6 DEF FlowInv

LEMMA PurgeCodesStep ==
  ASSUME FlowInv, PurgeCodes
  PROVE  FlowInv'
<1>1. flow' = [l \in Logins |-> IF l \in late THEN Absent ELSE flow[l]]
      /\ UNCHANGED <<late, known, row, cli, got, browser>>
  BY DEF PurgeCodes
<1>2. \A l \in Logins : flow'[l] \in {flow[l], Absent}
  BY <1>1
<1>3. flow' \in [Logins -> FlowState]
  BY <1>1, NoToken DEF FlowInv, FlowTyped
<1> QED BY <1>1, <1>2, <1>3, ForgottenStep

LEMMA BackendRestartsStep ==
  ASSUME FlowInv, BackendRestarts
  PROVE  FlowInv'
<1>1. flow' = [l \in Logins |-> Absent] /\ UNCHANGED <<late, known, row, cli, got, browser>>
  BY DEF BackendRestarts
<1>2. \A l \in Logins : flow'[l] \in {flow[l], Absent}
  BY <1>1
<1>3. flow' \in [Logins -> FlowState]
  BY <1>1, NoToken
<1> QED BY <1>1, <1>2, <1>3, ForgottenStep

-----------------------------------------------------------------------------
(* The browser.                                                             *)

\* A tab shows another page; no code changes.
LEMMA TabStep ==
  ASSUME FlowInv, NEW b \in Browsers, NEW name \in PageNames,
         NEW l \in Logins \union {None}, name = "approval" => l \in Logins,
         tab' = [tab EXCEPT ![b] = Page(name, l)],
         UNCHANGED <<flow, cli, got, row>>
  PROVE  /\ tab' \in [Browsers -> TabState]
         /\ Tabs' /\ Codes' /\ Programs' /\ Apart'
<1>1. FlowTyped
  BY DEF FlowInv
<1>2. Page(name, l) \in TabState /\ Page(name, l).at = name /\ Page(name, l).code = l
      /\ name # "approving"
  <2>1. name # "approving"
    BY DEF PageNames
  <2> QED BY <2>1, Pages
<1>3. /\ tab' \in [Browsers -> TabState] /\ tab'[b] = Page(name, l)
      /\ \A a \in Browsers \ {b} : tab'[a] = tab[a]
  BY <1>1, <1>2 DEF FlowTyped
<1>4. Minted' = Minted
  BY DEF Minted
<1>5. Tabs'
  BY <1>2, <1>3, <1>4 DEF FlowInv, Tabs
<1>6. Codes' /\ Programs'
  BY <1>4 DEF FlowInv, Codes, Programs
<1>7. Apart'
  BY <1>2, <1>3 DEF FlowInv, Apart
<1> QED BY <1>3, <1>5, <1>6, <1>7

\* The verification page is one of the pages.
LEMMA VerifyPages ==
  ASSUME NEW l \in Logins, NEW u
  PROVE  \E name \in PageNames : VerifyPage(l, u) = Page(name, l)
BY DEF VerifyPage, DeviceLogin, PageNames

LEMMA OpenVerifyStep ==
  ASSUME FlowInv, NEW b \in Browsers, NEW l \in Logins, OpenVerify(b, l)
  PROVE  FlowInv'
<1> USE DEF backend
<1>1. UNCHANGED <<flow, late, known, row, cli, got, cookie>>
  BY DEF OpenVerify
<1>2. PICK name \in PageNames : tab' = [tab EXCEPT ![b] = Page(name, l)]
  BY VerifyPages DEF OpenVerify
<1>3. /\ tab' \in [Browsers -> TabState]
      /\ Tabs' /\ Codes' /\ Programs' /\ Apart'
  BY <1>1, <1>2, TabStep
<1> QED BY <1>1, <1>3 DEF FlowInv, FlowTyped, Accounts, Allowed

LEMMA SignInStep ==
  ASSUME FlowInv, NEW b \in Browsers, SignIn(b)
  PROVE  FlowInv'
<1> USE DEF backend
<1>1. UNCHANGED <<flow, late, known, row, cli, got, cookie>>
  BY DEF SignIn
<1>2. /\ tab' \in [Browsers -> TabState]
      /\ Tabs' /\ Codes' /\ Programs' /\ Apart'
  BY <1>1, TabStep DEF SignIn, PageNames
<1> QED BY <1>1, <1>2 DEF FlowInv, FlowTyped, Accounts, Allowed

\* Accounts are added, and a cookie is set or removed.
LEMMA AccountsStep ==
  ASSUME FlowInv, NEW b \in Browsers, NEW u \in Users \union {None},
         cookie' \in {cookie, [cookie EXCEPT ![b] = u]},
         u # None => u \in Allowed',
         known \subseteq known', known' \subseteq Users, UNCHANGED row
  PROVE  /\ cookie' \in [Browsers -> Users \union {None}]
         /\ Accounts'
<1>1. cookie' \in [Browsers -> Users \union {None}]
      /\ \A a \in Browsers : cookie'[a] \in {cookie[a], u}
  BY DEF FlowInv, FlowTyped
<1>2. Allowed \subseteq Allowed'
  BY DEF Allowed
<1> QED BY <1>1, <1>2 DEF FlowInv, Accounts

LEMMA LogInStep ==
  ASSUME FlowInv, NEW b \in Browsers, NEW u \in Users, LogIn(b, u)
  PROVE  FlowInv'
<1>1. FlowTyped /\ u # None
  BY FlowParts DEF FlowInv
<1>2. UNCHANGED <<flow, late, row, cli, got>>
  BY DEF LogIn
<1>3. known \subseteq known' /\ known' \subseteq Users
      /\ \/ UNCHANGED cookie
         \/ cookie' = [cookie EXCEPT ![b] = u] /\ u \in Allowed'
  <2>1. CASE ~EmailAllowed(u)
    BY <1>1, <2>1 DEF LogIn, FlowTyped
  <2>2. CASE EmailAllowed(u) /\ u \in Banned
    BY <1>1, <2>2 DEF LogIn, FlowTyped
  <2>3. CASE EmailAllowed(u) /\ u \notin Banned
    <3>1. known' = known \union {u} /\ cookie' = [cookie EXCEPT ![b] = u]
      BY <2>3 DEF LogIn
    <3>2. u \in Allowed'
      BY <2>3, <3>1 DEF Allowed, EmailAllowed
    <3> QED BY <1>1, <3>1, <3>2 DEF FlowTyped
  <2> QED BY <2>1, <2>2, <2>3
<1>4. /\ cookie' \in [Browsers -> Users \union {None}]
      /\ Accounts'
  <2>1. CASE UNCHANGED cookie
    BY <1>1, <1>2, <1>3, <2>1, AccountsStep
  <2>2. CASE cookie' = [cookie EXCEPT ![b] = u] /\ u \in Allowed'
    BY <1>1, <1>2, <1>3, <2>2, AccountsStep
  <2> QED BY <1>3, <2>1, <2>2
<1>5. PICK name \in PageNames, l \in Logins \union {None} :
        /\ name = "approval" => l \in Logins
        /\ tab' = [tab EXCEPT ![b] = Page(name, l)]
  <2>1. CASE tab' = [tab EXCEPT ![b] = Page("no access", None)]
    BY <2>1 DEF PageNames
  <2>2. CASE tab' = [tab EXCEPT ![b] = IF @.code = None THEN Page("dashboard", None)
                                       ELSE VerifyPage(@.code, u)]
    <3>1. CASE tab[b].code = None
      <4>1. tab' = [tab EXCEPT ![b] = Page("dashboard", None)]
        BY <2>2, <3>1
      <4> QED BY <4>1 DEF PageNames
    <3>2. CASE tab[b].code # None
      <4>1. tab[b].code \in Logins
        BY <1>1, <3>2, FlowParts
      <4>2. PICK name \in PageNames : VerifyPage(tab[b].code, u) = Page(name, tab[b].code)
        BY <4>1, VerifyPages
      <4>3. tab' = [tab EXCEPT ![b] = Page(name, tab[b].code)]
        BY <2>2, <3>2, <4>2
      <4> QED BY <4>1, <4>3
    <3> QED BY <3>1, <3>2
  <2> QED BY <2>1, <2>2 DEF LogIn
<1>6. /\ tab' \in [Browsers -> TabState]
      /\ Tabs' /\ Codes' /\ Programs' /\ Apart'
  BY <1>2, <1>5, TabStep
<1> QED BY <1>1, <1>2, <1>3, <1>4, <1>6 DEF FlowInv, FlowTyped

LEMMA LogOutStep ==
  ASSUME FlowInv, NEW b \in Browsers, LogOut(b)
  PROVE  FlowInv'
<1> USE DEF backend
<1>1. UNCHANGED <<flow, late, known, row, cli, got>>
  BY DEF LogOut
<1>2. /\ cookie' \in [Browsers -> Users \union {None}]
      /\ Accounts'
  BY <1>1, AccountsStep DEF LogOut, FlowInv, FlowTyped
<1>3. CASE tab[b].at = "dashboard"
  <2>1. tab' = [tab EXCEPT ![b] = Page("landing", None)]
    BY <1>3 DEF LogOut
  <2>2. /\ tab' \in [Browsers -> TabState]
        /\ Tabs' /\ Codes' /\ Programs' /\ Apart'
    BY <1>1, <2>1, TabStep DEF PageNames
  <2> QED BY <1>1, <1>2, <2>2 DEF FlowInv, FlowTyped
<1>4. CASE tab[b].at # "dashboard"
  <2>1. tab' = tab
    BY <1>4 DEF LogOut, FlowInv, FlowTyped
  <2>2. Tabs' /\ Codes' /\ Programs' /\ Apart'
    BY <1>1, <2>1 DEF FlowInv, Tabs, Codes, Programs, Apart, Minted
  <2> QED BY <1>1, <1>2, <2>1, <2>2 DEF FlowInv, FlowTyped
<1> QED BY <1>3, <1>4

LEMMA ApproveStep ==
  ASSUME FlowInv, NEW b \in Browsers, Approve(b)
  PROVE  FlowInv'
<1>1. FlowTyped
  BY DEF FlowInv
<1>2. tab[b].at = "approval" /\ tab[b].code \in Logins
      /\ UNCHANGED <<flow, late, known, cli, got, cookie>>
  BY DEF Approve, FlowInv, Tabs
<1>3. CASE tab' = [tab EXCEPT ![b] = Page("failed", @.code)] /\ UNCHANGED row
  <2>1. tab' = [tab EXCEPT ![b] = Page("failed", tab[b].code)]
    BY <1>3
  <2>2. /\ tab' \in [Browsers -> TabState]
        /\ Tabs' /\ Codes' /\ Programs' /\ Apart'
    BY <1>2, <1>3, <2>1, TabStep DEF PageNames
  <2> QED BY <1>2, <1>3, <2>2 DEF FlowInv, FlowTyped, Accounts, Allowed
<1>4. ASSUME cookie[b] # None, NEW t \in 1..MaxTokens, Minted = 1..(t - 1),
             row' = [row EXCEPT ![t] = cookie[b]],
             tab' = [tab EXCEPT ![b] = [@ EXCEPT !.at = "approving", !.token = t]]
      PROVE  FlowInv'
  <2> DEFINE x == [tab[b] EXCEPT !.at = "approving", !.token = t]
  <2>1. t \notin Minted /\ t # 0 /\ MaxTokens \in Nat
    BY <1>1, <1>4, FlowParts
  <2>2. x \in TabState /\ x.at = "approving" /\ x.token = t /\ x.code = tab[b].code
    <3>1. tab[b] \in TabState /\ t \in 0..MaxTokens
      BY <1>1, <2>1, FlowParts
    <3> QED BY <3>1 DEF TabState
  <2>3. /\ tab' \in [Browsers -> TabState] /\ tab'[b] = x
        /\ \A a \in Browsers \ {b} : tab'[a] = tab[a]
    BY <1>1, <1>4, <2>2 DEF FlowTyped
  <2> HIDE DEF x
  <2>4. /\ row' \in [1..MaxTokens -> Users \union {None}] /\ row'[t] = cookie[b]
        /\ \A s \in (1..MaxTokens) \ {t} : row'[s] = row[s]
    BY <1>1, <1>4, FlowParts DEF FlowTyped
  <2>5. Minted' = Minted \union {t}
    <3>1. Minted' = {s \in 1..MaxTokens : row'[s] # None}
      BY <2>4 DEF Minted
    <3>2. Minted = {s \in 1..MaxTokens : row[s] # None}
      BY <1>1 DEF Minted, FlowTyped
    <3> QED BY <1>4, <2>4, <3>1, <3>2
  <2>6. \A s \in Minted : row'[s] = row[s]
    BY <1>1, <2>1, <2>4, FlowParts
  <2>7. FlowTyped'
    BY <1>1, <1>2, <2>3, <2>4 DEF FlowTyped
  <2>8. Accounts'
    BY <1>2, <2>4 DEF FlowInv, Accounts, Allowed
  <2>9. Tabs'
    BY <1>2, <2>2, <2>3, <2>5 DEF FlowInv, Tabs
  <2>10. Codes'
    BY <1>2, <2>5, <2>6 DEF FlowInv, Codes
  <2>11. Programs'
    BY <1>2, <2>5 DEF FlowInv, Programs
  <2>12. \A l \in Logins : t # flow[l].token /\ t # got[l]
    <3>1. \A l \in Logins : flow[l].token = 0 \/ flow[l].token \in Minted
      BY DEF FlowInv, Codes
    <3>2. \A l \in Logins : got[l] = 0 \/ got[l] \in Minted
      BY DEF FlowInv, Programs
    <3> QED BY <2>1, <3>1, <3>2
  <2>13. \A a \in Browsers : tab[a].at = "approving" => tab[a].token # t
    BY <2>1 DEF FlowInv, Tabs
  <2>14. Apart'
    BY <1>2, <2>2, <2>3, <2>12, <2>13 DEF FlowInv, Apart
  <2> QED BY <2>7, <2>8, <2>9, <2>10, <2>11, <2>14 DEF FlowInv
<1> QED BY <1>3, <1>4 DEF Approve

LEMMA CompleteStep ==
  ASSUME FlowInv, NEW b \in Browsers, Complete(b)
  PROVE  FlowInv'
<1> DEFINE l == tab[b].code
           t == tab[b].token
           f == [status |-> "complete", user |-> row[t], token |-> t]
<1>1. FlowTyped
  BY DEF FlowInv
<1>2. /\ tab[b].at = "approving" /\ l \in Logins /\ t \in Minted
      /\ UNCHANGED <<late, known, row, cli, got, cookie>>
  BY DEF Complete, FlowInv, Tabs
<1>3. CASE tab' = [tab EXCEPT ![b] = Page("failed", l)] /\ UNCHANGED flow
  <2>1. /\ tab' \in [Browsers -> TabState]
        /\ Tabs' /\ Codes' /\ Programs' /\ Apart'
    BY <1>2, <1>3, TabStep DEF PageNames
  <2> QED BY <1>2, <1>3, <2>1 DEF FlowInv, FlowTyped, Accounts, Allowed
<1>4. CASE /\ flow[l].status = "pending"
           /\ flow' = [flow EXCEPT ![l] = f]
           /\ tab' = [tab EXCEPT ![b] = Page("approved", l)]
  <2>1. f \in FlowState /\ f.status = "complete" /\ f.token = t /\ f.user = row[t]
    <3>1. t \in 0..MaxTokens /\ row[t] \in Users \union {None}
      BY <1>1, <1>2, FlowParts DEF FlowTyped
    <3> QED BY <3>1 DEF FlowState
  <2> HIDE DEF f
  <2>2. /\ flow' \in [Logins -> FlowState] /\ flow'[l] = f
        /\ \A k \in Logins \ {l} : flow'[k] = flow[k]
    BY <1>1, <1>2, <1>4, <2>1 DEF FlowTyped
  <2>3. Page("approved", l) \in TabState /\ Page("approved", l).at = "approved"
    BY <1>2, Pages DEF PageNames
  <2>4. /\ tab' \in [Browsers -> TabState] /\ tab'[b].at = "approved"
        /\ \A a \in Browsers \ {b} : tab'[a] = tab[a]
    BY <1>1, <1>4, <2>3 DEF FlowTyped
  <2> HIDE DEF l, t
  <2>5. FlowTyped' /\ Minted' = Minted
    BY <1>1, <1>2, <2>2, <2>4 DEF FlowTyped, Minted
  <2>6. Accounts'
    BY <1>2 DEF FlowInv, Accounts, Allowed
  <2>7. Tabs'
    BY <2>4, <2>5 DEF FlowInv, Tabs
  <2>8. t # 0
    BY <1>1, <1>2, FlowParts
  <2>9. Codes'
    BY <1>2, <2>1, <2>2, <2>5, <2>8 DEF FlowInv, Codes
  <2>10. cli[l] # "granted" /\ got[l] = 0
    BY <1>1, <1>2, <1>4, FlowParts DEF FlowInv, Programs, Codes
  <2>11. Programs'
    BY <1>2, <2>2, <2>5, <2>10 DEF FlowInv, Programs
  <2>12. \A k \in Logins : t # flow[k].token /\ t # got[k]
    BY <1>2 DEF FlowInv, Apart, t
  <2>13. \A a \in Browsers \ {b} : tab[a].at = "approving" => tab[a].token # t
    BY <1>2 DEF FlowInv, Apart, t
  <2>14. Apart'
    BY <1>2, <2>1, <2>2, <2>4, <2>10, <2>12, <2>13 DEF FlowInv, Apart
  <2> QED BY <2>5, <2>6, <2>7, <2>9, <2>11, <2>14 DEF FlowInv
<1> QED BY <1>3, <1>4 DEF Complete

LEMMA DenyStep ==
  ASSUME FlowInv, NEW b \in Browsers, Deny(b)
  PROVE  FlowInv'
<1> DEFINE l == tab[b].code
           s == IF flow[l].status = "pending" THEN "denied" ELSE flow[l].status
<1>1. FlowTyped
  BY DEF FlowInv
<1>2. /\ l \in Logins /\ UNCHANGED <<late, known, row, cli, got, cookie>>
  BY DEF Deny, FlowInv, Tabs
<1>3. CASE tab' = [tab EXCEPT ![b] = Page("failed", l)] /\ UNCHANGED flow
  <2>1. /\ tab' \in [Browsers -> TabState]
        /\ Tabs' /\ Codes' /\ Programs' /\ Apart'
    BY <1>2, <1>3, TabStep DEF PageNames
  <2> QED BY <1>2, <1>3, <2>1 DEF FlowInv, FlowTyped, Accounts, Allowed
<1>4. CASE /\ tab' = [tab EXCEPT ![b] = Page("denied", l)]
           /\ flow' = [flow EXCEPT ![l].status = IF @ = "pending" THEN "denied" ELSE @]
  <2>1. /\ flow[l] \in FlowState
        /\ flow[l].status # "pending" \/ flow[l].token = 0
    BY <1>1, <1>2, FlowParts DEF FlowInv, Codes
  <2>2. /\ flow' \in [Logins -> FlowState]
        /\ flow'[l].status = s
        /\ flow'[l].token = flow[l].token /\ flow'[l].user = flow[l].user
        /\ \A k \in Logins \ {l} : flow'[k] = flow[k]
    <3>0. flow[l] \in FlowState
      BY <1>1, <1>2, FlowParts
    <3>1. flow' = [flow EXCEPT ![l] = [flow[l] EXCEPT !.status = s]]
      BY <1>4
    <3>2. s \in {"absent", "pending", "complete", "expired", "denied"}
      BY <3>0 DEF FlowState
    <3> HIDE DEF s
    <3>3. /\ [flow[l] EXCEPT !.status = s] \in FlowState
          /\ [flow[l] EXCEPT !.status = s].status = s
          /\ [flow[l] EXCEPT !.status = s].token = flow[l].token
          /\ [flow[l] EXCEPT !.status = s].user = flow[l].user
      BY <3>0, <3>2 DEF FlowState
    <3> QED BY <1>1, <1>2, <3>1, <3>3 DEF FlowTyped
  <2>3. Page("denied", l) \in TabState /\ Page("denied", l).at = "denied"
    BY <1>2, Pages DEF PageNames
  <2>4. /\ tab' \in [Browsers -> TabState] /\ tab'[b].at = "denied"
        /\ \A a \in Browsers \ {b} : tab'[a] = tab[a]
    BY <1>1, <1>4, <2>3 DEF FlowTyped
  <2> HIDE DEF l
  <2>5. FlowTyped' /\ Minted' = Minted
    BY <1>1, <1>2, <2>2, <2>4 DEF FlowTyped, Minted
  <2>6. Accounts' /\ Tabs'
    BY <1>2, <2>4, <2>5 DEF FlowInv, Accounts, Allowed, Tabs
  <2>7. Codes'
    BY <1>2, <2>2, <2>5 DEF FlowInv, Codes
  <2>8. Programs'
    BY <1>2, <2>2, <2>5 DEF FlowInv, Programs
  <2>9. Apart'
    BY <1>2, <2>2, <2>4 DEF FlowInv, Apart
  <2> QED BY <2>5, <2>6, <2>7, <2>8, <2>9 DEF FlowInv
<1> QED BY <1>3, <1>4 DEF Deny

-----------------------------------------------------------------------------
(* Theorems.                                                                *)

LEMMA FlowInvStep == FlowInv /\ [FlowNext]_flowVars => FlowInv'
<1> SUFFICES ASSUME FlowInv, [FlowNext]_flowVars PROVE FlowInv'
  OBVIOUS
<1>1. ASSUME NEW l \in Logins, RequestCode(l) \/ Poll(l) \/ TimesOut(l) \/ CodeExpires(l)
      PROVE  FlowInv'
  BY <1>1, RequestCodeStep, PollStep, TimesOutStep, CodeExpiresStep
<1>2. CASE PurgeCodes \/ BackendRestarts
  BY <1>2, PurgeCodesStep, BackendRestartsStep
<1>3. ASSUME NEW b \in Browsers, NEW l \in Logins, OpenVerify(b, l)
      PROVE  FlowInv'
  BY <1>3, OpenVerifyStep
<1>4. ASSUME NEW b \in Browsers, NEW u \in Users, LogIn(b, u)
      PROVE  FlowInv'
  BY <1>4, LogInStep
<1>5. ASSUME NEW b \in Browsers,
             SignIn(b) \/ LogOut(b) \/ Approve(b) \/ Complete(b) \/ Deny(b)
      PROVE  FlowInv'
  BY <1>5, SignInStep, LogOutStep, ApproveStep, CompleteStep, DenyStep
<1>6. CASE UNCHANGED flowVars
  BY <1>6 DEF flowVars, backend, browser, FlowInv, FlowTyped, Accounts, Tabs, Codes, Programs,
              Apart, Allowed, Minted
<1> QED BY <1>1, <1>2, <1>3, <1>4, <1>5, <1>6 DEF FlowNext

\* A process that starts does nothing to the backend's codes and to its own login
\* that DeviceFlow does not do.
LEMMA StartsLogIn == [Next]_vars => [FlowNext]_flowVars
<1> SUFFICES ASSUME [Next]_vars PROVE [FlowNext]_flowVars
  OBVIOUS
<1>1. ASSUME NEW p \in Procs, Proceed(p) PROVE [FlowNext]_flowVars
  <2>1. AskForCode(p) \/ PollLogin(p) => FlowNext
    BY DEF Procs, AskForCode, PollLogin, FlowNext
  <2>2. ~AskForCode(p) /\ ~PollLogin(p) => UNCHANGED flowVars
    BY <1>1 DEF Proceed, CreateLock, SeeStaleLock, RemoveStaleLock, GiveUpLock, ReadConfig,
                ResolveSession, SaveToken, SaveLogout, SaveInit, ReplaceSession, TakeToken,
                LoginFails
  <2> QED BY <2>1, <2>2
<1>2. ASSUME NEW p \in Procs,
             Begin(p) \/ InstallUpdate(p) \/ RunEnds(p) \/ SessionNotFound(p) \/ Kill(p)
      PROVE  UNCHANGED flowVars
  BY <1>2 DEF Begin, Start, InstallUpdate, RunEnds, SessionNotFound, Kill
<1>3. ASSUME NEW b \in Browsers, Visit(b) \/ AnswerApproval(b) PROVE FlowNext
  BY <1>3 DEF Visit, AnswerApproval, FlowNext
<1>4. CASE Forget
  BY <1>4 DEF Forget, FlowNext
<1>5. CASE UNCHANGED vars
  BY <1>5 DEF vars
<1> QED BY <1>1, <1>2, <1>3, <1>4, <1>5 DEF Next

\* The invariant of the logins, whatever processes start and whatever fails.
THEOREM FlowInvariant == Spec => []FlowInv
<1>1. Init => FlowInv
  BY FlowInvInit DEF Init
<1>2. FlowInv /\ [Next]_vars => FlowInv'
  BY FlowInvStep, StartsLogIn
<1> QED BY <1>1, <1>2, PTL DEF Spec

\* device_flow_login, the verification page, approve_device and the poll
\* (device_flow.rs, portal-auth): whatever processes start, and however requests and
\* approvals, denials, expiry, purges and restarts of the backend interleave, a
\* program's token is of a user that may log in and whose approval completed the
\* program's own code, and no other program has it.
THEOREM TokensOfApprovers == Spec => []TokenOfApprover
<1>1. FlowInv => TokenOfApprover
  <2> SUFFICES ASSUME FlowInv, NEW l \in Logins, cli[l] = "granted"
      PROVE  /\ got[l] \in Minted /\ row[got[l]] \in known \ (Refused \union Banned)
             /\ flow[l].status # "absent" =>
                  flow[l].token = got[l] /\ flow[l].user = row[got[l]]
             /\ \A k \in Logins : k # l => got[k] # got[l]
    BY DEF TokenOfApprover, FlowInv, FlowTyped
  <2>1. FlowTyped /\ got[l] \in Minted
    BY DEF FlowInv, Programs
  <2>2. got[l] \in 1..MaxTokens /\ row[got[l]] # None /\ got[l] # 0
    BY <2>1, FlowParts
  <2>3. row[got[l]] \in known \ (Refused \union Banned)
    BY <2>2 DEF FlowInv, Accounts, Allowed
  <2>4. flow[l].status # "absent" => flow[l].token = got[l] /\ flow[l].user = row[got[l]]
    BY <2>2 DEF FlowInv, Programs, Codes
  <2>5. \A k \in Logins : k # l => got[k] # got[l]
    BY <2>2 DEF FlowInv, Apart
  <2> QED BY <2>1, <2>3, <2>4, <2>5
<1> QED BY <1>1, FlowInvariant, PTL

-----------------------------------------------------------------------------
(* Processes that have a token in the config, and are not killed.           *)

ProcState ==
  [at : {"unstarted", "locking", "locked", "read", "auth", "running", "ended", "failed",
         "killed"},
   verb : Verbs \union {"run"}, dir : Dirs \union {None},
   job : {"resolve", "auth", "command", "replace"},
   session : 0..MaxSessions, resume : BOOLEAN, token : 0..Given]

\* Nobody needs to log in, and nobody changes a token.
Provided ==
  /\ Cached = Dirs /\ Verbs \subseteq {"run", "new", "token", "shim"}
  /\ "kill" \notin Faults

StartTyped ==
  /\ proc \in [Procs -> ProcState] /\ copy \in [Procs -> Configs]
  /\ local \in [Procs -> Configs] /\ config \in Configs
  /\ lock \in [owner : Procs \union {None}, pid : BOOLEAN]
  /\ stale = {} /\ made \in 0..MaxSessions

\* There is always a token: nobody logs in.
Provisioned ==
  /\ \A d \in Dirs : config.auth[d] # 0
  /\ \A p \in Procs, d \in Dirs : copy[p].auth[d] # 0
  /\ \A p \in Procs :
       /\ proc[p].at # "auth" /\ proc[p].job \in {"resolve", "replace"}
       /\ proc[p].at \in {"locking", "locked", "read", "running"} =>
            proc[p].dir \in Dirs /\ proc[p].verb \in Verbs
       /\ proc[p].session # 0 => proc[p].dir \in Dirs

\* The lock file is there just while a process is between the lock and its save, and
\* meanwhile nobody else changes the config.
Locked ==
  /\ \A p \in Procs : proc[p].at \in {"locked", "read"} => lock.owner = p
  /\ lock # Free => lock.owner \in Procs /\ proc[lock.owner].at \in {"locked", "read"}
  /\ \A p \in Procs : proc[p].at = "read" => local[p] = config

\* Sessions are numbered as they are made.
Remembered ==
  /\ \A d \in Dirs : config.session[d] <= made
  /\ LastSessionRemembered

StartInv == StartTyped /\ Provisioned /\ Locked /\ Remembered

LEMMA StartParts ==
  ASSUME StartTyped
  PROVE  /\ MaxSessions \in Nat /\ made \in Nat /\ None \notin Procs
         /\ \A d \in Dirs : config.session[d] \in Nat
         /\ \A p \in Procs : proc[p] \in ProcState /\ proc[p].session \in Nat
<1>1. MaxSessions \in Nat /\ None \notin Procs
  BY ProxyStartAssumption, DeviceFlowAssumption DEF Procs
<1>2. \A d \in Dirs : config.session[d] \in 0..MaxSessions
  BY DEF StartTyped, Configs
<1>3. \A p \in Procs : proc[p] \in ProcState /\ proc[p].session \in 0..MaxSessions
  BY DEF StartTyped, ProcState
<1> QED BY <1>1, <1>2, <1>3 DEF StartTyped

\* A process goes on; its session and directory stay.
LEMMA MovesOn ==
  ASSUME StartTyped, NEW p \in Procs,
         NEW at \in {"locking", "locked", "read", "running", "ended", "failed"},
         proc' = [proc EXCEPT ![p].at = at]
  PROVE  /\ proc' \in [Procs -> ProcState] /\ proc'[p].at = at
         /\ \A q \in Procs : /\ proc'[q].verb = proc[q].verb /\ proc'[q].dir = proc[q].dir
                             /\ proc'[q].job = proc[q].job
                             /\ proc'[q].session = proc[q].session
                             /\ q # p => proc'[q] = proc[q]
<1>1. proc[p] \in ProcState /\ proc' = [proc EXCEPT ![p] = [proc[p] EXCEPT !.at = at]]
  BY DEF StartTyped
<1> DEFINE x == [proc[p] EXCEPT !.at = at]
<1>2. /\ x \in ProcState /\ x.at = at /\ x.verb = proc[p].verb /\ x.dir = proc[p].dir
      /\ x.job = proc[p].job /\ x.session = proc[p].session
  BY <1>1 DEF ProcState
<1> HIDE DEF x
<1>3. proc' = [proc EXCEPT ![p] = x]
  BY <1>1 DEF x
<1> QED BY <1>2, <1>3 DEF StartTyped

LEMMA StartInvInit == Provided /\ Init => StartInv
<1> SUFFICES ASSUME Provided, Init PROVE StartInv
  OBVIOUS
<1>1. MaxTokens \in Nat /\ MaxSessions \in Nat /\ None \notin Procs
  BY ProxyStartAssumption, DeviceFlowAssumption DEF Procs
<1>2. NoProc \in ProcState
  BY <1>1 DEF NoProc, ProcState, Given
<1>3. FirstConfig \in Configs /\ \A d \in Dirs : FirstConfig.auth[d] # 0 /\ FirstConfig.session[d] = 0
  BY <1>1 DEF Provided, FirstConfig, Configs, Given
<1>4. Free \in [owner : Procs \union {None}, pid : BOOLEAN]
  BY DEF Free
<1>5. StartTyped
  BY <1>1, <1>2, <1>3, <1>4 DEF Init, StartTyped
<1>6. Provisioned /\ Locked /\ Remembered
  BY <1>1, <1>3 DEF Init, NoProc, Provisioned, Locked, Remembered, LastSessionRemembered
<1> QED BY <1>5, <1>6 DEF StartInv

\* A process saves the config with its session: the directory's, or the one just made.
LEMMA SavesSession ==
  ASSUME StartInv, NEW p \in Procs, NEW s \in 1..MaxSessions, NEW x \in ProcState,
         proc[p].at = "read",
         x.dir = proc[p].dir, x.verb = proc[p].verb, x.job \in {"resolve", "replace"},
         x.session = s, x.at = "running",
         proc' = [proc EXCEPT ![p] = x],
         \/ made' = made + 1 /\ s = made + 1
         \/ made' = made /\ s = config.session[proc[p].dir],
         made' \in 0..MaxSessions,
         Saves(p, [local[p] EXCEPT !.session[proc[p].dir] = s]),
         UNCHANGED <<copy, local, stale>>
  PROVE  StartInv'
<1> DEFINE d == proc[p].dir
<1>1. StartTyped /\ d \in Dirs /\ local[p] = config
  BY DEF StartInv, Provisioned, Locked
<1>2. /\ proc' \in [Procs -> ProcState] /\ proc'[p] = x
      /\ \A q \in Procs \ {p} : proc'[q] = proc[q]
  BY <1>1 DEF StartTyped
<1>3. /\ config' \in Configs /\ config'.auth = config.auth
      /\ config'.session[d] = s
      /\ \A e \in Dirs \ {d} : config'.session[e] = config.session[e]
  <2>1. config' = [config EXCEPT !.session[d] = s] /\ config \in Configs /\ s \in 0..MaxSessions
    BY <1>1 DEF Saves, StartTyped
  <2>2. /\ config' \in Configs /\ config'.auth = config.auth
        /\ config'.session = [config.session EXCEPT ![d] = s]
    BY <1>1, <2>1 DEF Configs
  <2> QED BY <1>1, <2>1, <2>2 DEF Configs
<1>4. lock' = Free /\ Free \in [owner : Procs \union {None}, pid : BOOLEAN]
  BY DEF Saves, Free
<1>5. StartTyped'
  BY <1>1, <1>2, <1>3, <1>4 DEF StartTyped
<1>6. Provisioned'
  BY <1>1, <1>2, <1>3, StartParts DEF StartInv, Provisioned
<1>7. Locked'
  <2>1. \A q \in Procs : proc'[q].at \notin {"locked", "read"}
    BY <1>1, <1>2 DEF StartInv, Locked
  <2> QED BY <1>4, <2>1 DEF Locked
<1>8. made' \in Nat /\ made <= made' /\ s <= made' /\ config.session[d] <= s
  BY <1>1, StartParts DEF StartInv, Remembered
<1>9. Remembered'
  <2>1. \A e \in Dirs : config'.session[e] <= made'
    BY <1>1, <1>3, <1>8, StartParts DEF StartInv, Remembered
  <2>2. \A e \in Dirs : config'.session[e] \in Nat /\ config.session[e] <= config'.session[e]
    BY <1>1, <1>3, <1>8, StartParts
  <2>3. ASSUME NEW q \in Procs, proc'[q].session # 0
        PROVE  config'.session[proc'[q].dir] >= proc'[q].session
    <3>1. CASE q = p
      BY <1>2, <1>3, <3>1
    <3>2. CASE q # p
      <4>1. proc'[q] = proc[q] /\ proc[q].dir \in Dirs
            /\ config.session[proc[q].dir] >= proc[q].session
        BY <1>2, <2>3, <3>2 DEF StartInv, Provisioned, Remembered, LastSessionRemembered
      <4> QED BY <1>1, <2>2, <4>1, StartParts
    <3> QED BY <3>1, <3>2
  <2> QED BY <2>1, <2>3 DEF Remembered, LastSessionRemembered
<1> QED BY <1>5, <1>6, <1>7, <1>9 DEF StartInv

LEMMA ResolveSessionStep ==
  ASSUME Provided, StartInv, NEW p \in Procs, ResolveSession(p)
  PROVE  StartInv'
<1> DEFINE d == proc[p].dir
           resume == proc[p].verb # "new" /\ local[p].session[d] # 0
           s == IF resume THEN local[p].session[d] ELSE made + 1
<1>1. /\ StartTyped /\ proc[p].at = "read" /\ proc[p].job = "resolve"
      /\ d \in Dirs /\ proc[p].verb \in Verbs /\ local[p] = config
  BY DEF ResolveSession, At, StartInv, Provisioned, Locked
<1>2. CachedToken(p) \in 1..Given
  <2>1. copy[p].auth[d] \in 0..Given /\ copy[p].auth[d] # 0
    BY <1>1 DEF StartTyped, Configs, StartInv, Provisioned
  <2>2. proc[p].verb # "reauth" /\ MaxTokens \in Nat
    BY <1>1, DeviceFlowAssumption DEF Provided
  <2> QED BY <2>1, <2>2 DEF CachedToken, Given
<1>3. /\ resume \in BOOLEAN /\ s \in 1..MaxSessions
      /\ (resume \/ made < MaxSessions)
      /\ made' = IF resume THEN made ELSE made + 1
      /\ made' \in 0..MaxSessions
      /\ Saves(p, [local[p] EXCEPT !.session[d] = s])
      /\ UNCHANGED <<copy, local, stale>>
  <2>1. config.session[d] \in 0..MaxSessions /\ made \in 0..MaxSessions
    BY <1>1 DEF StartTyped, Configs
  <2> QED BY <1>1, <2>1, StartParts DEF ResolveSession
<1>4. proc' = [proc EXCEPT ![p] = [@ EXCEPT
        !.session = s, !.resume = resume, !.token = CachedToken(p), !.at = "running"]]
  <2>1. CachedToken(p) # 0
    BY <1>2, DeviceFlowAssumption DEF Given
  <2> QED BY <2>1 DEF ResolveSession
<1> HIDE DEF resume, s
<1> DEFINE x == [proc[p] EXCEPT !.session = s, !.resume = resume, !.token = CachedToken(p),
                               !.at = "running"]
<1>5. /\ x \in ProcState /\ x.dir = d /\ x.verb = proc[p].verb /\ x.job = "resolve"
      /\ x.session = s /\ x.at = "running"
  <2>1. proc[p] \in ProcState /\ CachedToken(p) \in 0..Given /\ s \in 0..MaxSessions
    BY <1>1, <1>2, <1>3, StartParts
  <2> HIDE DEF d
  <2> QED BY <1>1, <1>3, <2>1 DEF ProcState, d
<1>6. proc' = [proc EXCEPT ![p] = x]
  BY <1>4
<1> HIDE DEF x
<1>7. \/ made' = made + 1 /\ s = made + 1
      \/ made' = made /\ s = config.session[d]
  BY <1>1, <1>3 DEF s
<1> QED BY <1>1, <1>3, <1>5, <1>6, <1>7, SavesSession

LEMMA ReplaceSessionStep ==
  ASSUME Provided, StartInv, NEW p \in Procs, ReplaceSession(p)
  PROVE  StartInv'
<1> DEFINE s == made + 1
           x == [proc[p] EXCEPT !.session = s, !.resume = FALSE, !.at = "running"]
<1>1. /\ StartTyped /\ proc[p].at = "read" /\ proc[p].job = "replace" /\ made < MaxSessions
      /\ proc[p].dir \in Dirs /\ made' = s /\ UNCHANGED <<copy, local, stale>>
      /\ Saves(p, [local[p] EXCEPT !.session[proc[p].dir] = s])
  BY DEF ReplaceSession, At, StartInv, Provisioned
<1>2. s \in 1..MaxSessions /\ s \in 0..MaxSessions
  BY <1>1, StartParts
<1>3. /\ x \in ProcState /\ x.dir = proc[p].dir /\ x.verb = proc[p].verb /\ x.job = "replace"
      /\ x.session = s /\ x.at = "running"
  <2>1. proc[p] \in ProcState
    BY <1>1, StartParts
  <2> HIDE DEF s
  <2> QED BY <1>1, <1>2, <2>1 DEF ProcState
<1>4. proc' = [proc EXCEPT ![p] = x]
  BY DEF ReplaceSession
<1> HIDE DEF x
<1> QED BY <1>1, <1>2, <1>3, <1>4, SavesSession

\* A process goes on without the config: the lock is as it was, and the process is not
\* one that has it.
LEMMA NotLockedStep ==
  ASSUME StartInv, NEW p \in Procs, NEW x \in ProcState,
         proc[p].at \notin {"locked", "read"},
         proc' = [proc EXCEPT ![p] = x], x.at \in {"locking", "running", "ended", "failed"},
         x.job \in {"resolve", "replace"},
         x.at \in {"locking", "running"} => x.dir \in Dirs /\ x.verb \in Verbs,
         x.session = 0 \/ (x.session = proc[p].session /\ x.dir = proc[p].dir),
         copy' \in [Procs -> Configs], \A q \in Procs : copy'[q] \in {copy[q], config},
         UNCHANGED <<local, config, lock, stale, made>>
  PROVE  StartInv'
<1>1. StartTyped
  BY DEF StartInv
<1>2. /\ proc' \in [Procs -> ProcState] /\ proc'[p] = x
      /\ \A q \in Procs \ {p} : proc'[q] = proc[q]
  BY <1>1 DEF StartTyped
<1>3. StartTyped'
  BY <1>1, <1>2 DEF StartTyped
<1>4. Provisioned'
  BY <1>2 DEF StartInv, Provisioned
<1>5. Locked'
  BY <1>2 DEF StartInv, Locked
<1>6. Remembered'
  BY <1>2 DEF StartInv, Remembered, LastSessionRemembered
<1> QED BY <1>3, <1>4, <1>5, <1>6 DEF StartInv

LEMMA BeginStep ==
  ASSUME Provided, StartInv, NEW p \in Procs, Begin(p)
  PROVE  StartInv'
<1>1. PICK verb \in Verbs, d \in Dirs : Start(p, verb, d)
  BY DEF Begin
<1>2. StartTyped /\ verb \notin {"logout", "init"}
  BY DEF StartInv, Provided
<1> DEFINE x == [NoProc EXCEPT !.verb = verb, !.dir = d, !.job = "resolve", !.at = "locking"]
<1>3. /\ proc[p].at = "unstarted" /\ proc' = [proc EXCEPT ![p] = x]
      /\ copy' = [copy EXCEPT ![p] = config] /\ UNCHANGED <<local, config, lock, stale, made>>
  BY <1>1, <1>2 DEF Start, At
<1>4. /\ x \in ProcState /\ x.at = "locking" /\ x.job = "resolve" /\ x.dir = d
      /\ x.verb = verb /\ x.session = 0
  <2>1. 0 \in 0..MaxSessions /\ 0 \in 0..Given
    BY <1>2, StartParts, DeviceFlowAssumption DEF Given
  <2> QED BY <2>1 DEF NoProc, ProcState
<1> HIDE DEF x
<1>5. copy' \in [Procs -> Configs] /\ \A q \in Procs : copy'[q] \in {copy[q], config}
  BY <1>2, <1>3 DEF StartTyped
<1> QED BY <1>3, <1>4, <1>5, NotLockedStep

LEMMA EndsStep ==
  ASSUME StartInv, NEW p \in Procs, InstallUpdate(p) \/ RunEnds(p)
  PROVE  StartInv'
<1>1. /\ StartTyped /\ proc[p].at \in {"unstarted", "running"}
      /\ proc' = [proc EXCEPT ![p].at = "ended"]
      /\ UNCHANGED <<copy, local, config, lock, stale, made>>
  BY DEF InstallUpdate, RunEnds, At, StartInv
<1>2. /\ proc' \in [Procs -> ProcState] /\ proc'[p].at = "ended"
      /\ proc'[p].dir = proc[p].dir /\ proc'[p].job = proc[p].job
      /\ proc'[p].session = proc[p].session
      /\ proc' = [proc EXCEPT ![p] = proc'[p]]
  <2>1. /\ proc' \in [Procs -> ProcState] /\ proc'[p].at = "ended"
        /\ proc'[p].dir = proc[p].dir /\ proc'[p].job = proc[p].job
        /\ proc'[p].session = proc[p].session
    BY <1>1, MovesOn
  <2>2. proc' = [proc EXCEPT ![p] = proc'[p]]
    BY <1>1 DEF StartTyped
  <2> QED BY <2>1, <2>2
<1>3. proc'[p] \in ProcState /\ proc'[p].job \in {"resolve", "replace"}
  BY <1>2 DEF StartInv, Provisioned
<1>4. copy' \in [Procs -> Configs] /\ \A q \in Procs : copy'[q] \in {copy[q], config}
  BY <1>1 DEF StartTyped
<1> QED BY <1>1, <1>2, <1>3, <1>4, NotLockedStep

LEMMA SessionNotFoundStep ==
  ASSUME StartInv, NEW p \in Procs, SessionNotFound(p)
  PROVE  StartInv'
<1> DEFINE x == [proc[p] EXCEPT !.job = "replace", !.at = "locking"]
<1>1. /\ StartTyped /\ proc[p].at = "running" /\ proc' = [proc EXCEPT ![p] = x]
      /\ UNCHANGED <<copy, local, config, lock, stale, made>>
  BY DEF SessionNotFound, At, StartInv
<1>2. /\ x \in ProcState /\ x.at = "locking" /\ x.job = "replace" /\ x.dir = proc[p].dir
      /\ x.verb = proc[p].verb /\ x.session = proc[p].session
  <2>1. proc[p] \in ProcState
    BY <1>1, StartParts
  <2> QED BY <2>1 DEF ProcState
<1> HIDE DEF x
<1>3. proc[p].dir \in Dirs /\ proc[p].verb \in Verbs
  BY <1>1 DEF StartInv, Provisioned
<1>4. copy' \in [Procs -> Configs] /\ \A q \in Procs : copy'[q] \in {copy[q], config}
  BY <1>1 DEF StartTyped
<1> QED BY <1>1, <1>2, <1>3, <1>4, NotLockedStep

LEMMA CreateLockStep ==
  ASSUME StartInv, NEW p \in Procs, CreateLock(p)
  PROVE  StartInv'
<1> DEFINE k == [owner |-> p, pid |-> FALSE]
<1>1. /\ StartTyped /\ proc[p].at = "locking" /\ lock = Free /\ lock' = k
      /\ proc' = [proc EXCEPT ![p].at = "locked"]
      /\ UNCHANGED <<copy, local, config, stale, made>>
  BY DEF CreateLock, At, StartInv
<1>2. k \in [owner : Procs \union {None}, pid : BOOLEAN] /\ k.owner = p
  OBVIOUS
<1> HIDE DEF k
<1>3. /\ proc' \in [Procs -> ProcState] /\ proc'[p].at = "locked"
      /\ \A q \in Procs : /\ proc'[q].verb = proc[q].verb /\ proc'[q].dir = proc[q].dir
                          /\ proc'[q].job = proc[q].job
                          /\ proc'[q].session = proc[q].session
                          /\ q # p => proc'[q] = proc[q]
  BY <1>1, MovesOn
<1>4. StartTyped'
  BY <1>1, <1>2, <1>3 DEF StartTyped
<1>5. Provisioned'
  BY <1>1, <1>3 DEF StartInv, Provisioned
<1>6. Locked'
  <2>1. \A q \in Procs \ {p} : proc'[q].at \notin {"locked", "read"}
    <3> SUFFICES ASSUME NEW q \in Procs \ {p}, proc[q].at \in {"locked", "read"} PROVE FALSE
      BY <1>3
    <3>1. lock.owner = q /\ q # None
      BY <1>1, StartParts DEF StartInv, Locked
    <3> QED BY <1>1, <3>1 DEF Free
  <2> QED BY <1>1, <1>2, <1>3, <2>1 DEF Locked
<1>7. Remembered'
  BY <1>1, <1>3 DEF StartInv, Remembered, LastSessionRemembered
<1> QED BY <1>4, <1>5, <1>6, <1>7 DEF StartInv

LEMMA ReadConfigStep ==
  ASSUME StartInv, NEW p \in Procs, ReadConfig(p)
  PROVE  StartInv'
<1>1. /\ StartTyped /\ proc[p].at = "locked" /\ lock.owner = p
      /\ proc' = [proc EXCEPT ![p].at = "read"]
      /\ UNCHANGED <<copy, config, stale, made>>
  BY DEF ReadConfig, At, StartInv, Locked
<1>2. local' = [local EXCEPT ![p] = config]
  BY DEF ReadConfig, StartInv, Provisioned
<1>3. /\ local' \in [Procs -> Configs] /\ local'[p] = config
      /\ \A q \in Procs \ {p} : local'[q] = local[q]
  BY <1>1, <1>2 DEF StartTyped
<1>4. lock' \in [owner : Procs \union {None}, pid : BOOLEAN] /\ lock'.owner = p
  BY <1>1 DEF ReadConfig, StartTyped
<1>5. /\ proc' \in [Procs -> ProcState] /\ proc'[p].at = "read"
      /\ \A q \in Procs : /\ proc'[q].verb = proc[q].verb /\ proc'[q].dir = proc[q].dir
                          /\ proc'[q].job = proc[q].job
                          /\ proc'[q].session = proc[q].session
                          /\ q # p => proc'[q] = proc[q]
  BY <1>1, MovesOn
<1>6. StartTyped'
  BY <1>1, <1>3, <1>4, <1>5 DEF StartTyped
<1>7. Provisioned'
  BY <1>1, <1>5 DEF StartInv, Provisioned
<1>8. Locked'
  BY <1>1, <1>3, <1>4, <1>5 DEF StartInv, Locked
<1>9. Remembered'
  BY <1>1, <1>5 DEF StartInv, Remembered, LastSessionRemembered
<1> QED BY <1>6, <1>7, <1>8, <1>9 DEF StartInv

LEMMA StartInvStep == Provided /\ StartInv /\ [Next]_vars => StartInv'
<1> SUFFICES ASSUME Provided, StartInv, [Next]_vars PROVE StartInv'
  OBVIOUS
<1>1. CASE UNCHANGED startVars
  BY <1>1 DEF startVars, StartInv, StartTyped, Provisioned, Locked, Remembered,
              LastSessionRemembered
<1>2. ASSUME NEW p \in Procs, Proceed(p) PROVE StartInv'
  <2>1. lock # Free => ~Over(lock.owner)
    BY DEF StartInv, Locked, Over, At
  <2>2. stale = {} /\ proc[p].at # "auth"
    BY DEF StartInv, StartTyped, Provisioned
  <2>3. proc[p].at = "read" => proc[p].verb \notin {"logout", "init"} /\ proc[p].job # "auth"
    BY DEF Provided, StartInv, Provisioned
  <2>4. CreateLock(p) \/ ReadConfig(p) \/ ResolveSession(p) \/ ReplaceSession(p)
    BY <1>2, <2>1, <2>2, <2>3
       DEF Proceed, SeeStaleLock, RemoveStaleLock, GiveUpLock, SaveToken, SaveLogout, SaveInit,
           AskForCode, PollLogin, TakeToken, LoginFails, At
  <2> QED BY <2>4, CreateLockStep, ReadConfigStep, ResolveSessionStep, ReplaceSessionStep
<1>3. ASSUME NEW p \in Procs,
             Begin(p) \/ InstallUpdate(p) \/ RunEnds(p) \/ SessionNotFound(p) \/ Kill(p)
      PROVE  StartInv'
  BY <1>3, BeginStep, EndsStep, SessionNotFoundStep DEF Kill, Provided
<1>4. ASSUME NEW b \in Browsers, Visit(b) \/ AnswerApproval(b) PROVE StartInv'
  BY <1>1, <1>4 DEF Visit, AnswerApproval
<1>5. CASE Forget
  BY <1>1, <1>5 DEF Forget
<1>6. CASE UNCHANGED vars
  BY <1>1, <1>6 DEF vars
<1> QED BY <1>2, <1>3, <1>4, <1>5, <1>6 DEF Next

\* "By default, claude-portal resumes your last session in this directory" (main.rs):
\* however many processes start, resume and replace sessions at once, when each has a
\* token in the config and none is killed, the config has for each directory the last
\* session that was resolved there: with_config_lock (config.rs) lets them take turns.
THEOREM SessionsRemembered ==
  ASSUME Provided
  PROVE  Spec => []LastSessionRemembered
<1>1. Init => StartInv
  BY StartInvInit
<1>2. StartInv /\ [Next]_vars => StartInv'
  BY StartInvStep
<1>3. StartInv => LastSessionRemembered
  BY DEF StartInv, Remembered
<1> QED BY <1>1, <1>2, <1>3, PTL DEF Spec

=============================================================================
