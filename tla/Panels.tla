------------------------------- MODULE Panels -------------------------------
(***************************************************************************)
(* The pages that show the tables of Records and change them: the users and *)
(* sessions tabs of the administration page, the tokens and sessions panels *)
(* of the settings, and the dialog that shares a session.                  *)
(*                                                                         *)
(* A page asks for its list when it opens.  A change is confirmed in a      *)
(* dialog whose action holds the list as it was when the dialog was opened; *)
(* when the answer comes, that list, with the change made in it, is what    *)
(* the page shows.  The share dialog changes the list it has; a new token   *)
(* makes the page ask for its list again.                                  *)
(***************************************************************************)
EXTENDS Records

CONSTANTS
  Actors,      \* users who have a browser
  Shown,       \* pages they open: "users", "all", "mine", "tokens", "members"
  Fields,      \* fields of a user's account that are changed
  MaxClicks,   \* bound: changes asked for
  UserFaults   \* "hurry": a user acts before the last answer has come;
               \* "cancel": closes a dialog while its request is under way

Pages == {"users", "all", "mine", "tokens", "members"}

ASSUME PanelsAssumption ==
  /\ Actors \subseteq Users /\ Shown \subseteq Pages /\ Sessions # {}
  /\ Fields \subseteq {"admin", "disabled", "voice"}

VARIABLES
  page,    \* page[u][p]: the list shown, None before the first answer
  dialog,  \* dialog[u]: the change to confirm, with the list it holds
  secret,  \* secret[u]: the token last shown, as <<row, hash>>
  known,   \* users whose page knows who they are
  clicks

pvars == <<rvars, page, dialog, secret, known, clicks>>

PInit ==
  /\ RInit /\ clicks = 0 /\ known \in SUBSET Actors
  /\ page = [u \in Actors |-> [p \in Pages |-> None]]
  /\ dialog = [u \in Actors |-> None] /\ secret = [u \in Actors |-> None]

Waits(u) ==
  \E i \in Slots : requests[i] # Idle /\ requests[i].by = u /\ requests[i].op # "register"
Acts(u) == "hurry" \in UserFaults \/ ~Waits(u)
Click == clicks < MaxClicks /\ clicks' = clicks + 1
ListOf(p) == CASE p = "users" -> "list_users" [] p = "all" -> "list_all_sessions"
               [] p = "mine" -> "list_sessions" [] p = "tokens" -> "list_tokens"
               [] p = "members" -> "list_session_members"
\* The share dialog is about one session.
Subject(p) == IF p = "members" THEN CHOOSE s \in DOMAIN members : TRUE ELSE None
Asks(u, p) == Request(u, ListOf(p), Subject(p), p, None)
Showing(i, list) ==
  LET r == requests[i] IN page' = [page EXCEPT ![r.by][r.val] = list]
Closes(i) == dialog' = [dialog EXCEPT ![requests[i].by] = None]
AskedBy(i, ops) == Answered(i) /\ requests[i].op \in ops

-----------------------------------------------------------------------------
(* Lists *)

OpenPage(u, p) ==
  /\ Acts(u) /\ dialog[u] = None /\ page[u][p] = None
  /\ p \in {"users", "all"} => require_admin(u)
  /\ p = "members" => Owner[Subject(p)] = u
  /\ \A i \in Slots : requests[i].op = ListOf(p) => requests[i].by # u
  /\ Asks(u, p)
  /\ UNCHANGED <<users, tokens, sessions, members, connected, registrations, page, dialog,
                 secret, known, clicks>>

ListFetched(i) ==
  LET r == requests[i] IN
  /\ AskedBy(i, {"list_users", "list_all_sessions", "list_sessions", "list_tokens",
                 "list_session_members"})
  /\ IF r.got = None THEN UNCHANGED page ELSE Showing(i, r.got)
  /\ Finish(i)
  /\ UNCHANGED <<users, tokens, sessions, members, connected, registrations, dialog, secret,
                 known, clicks>>

-----------------------------------------------------------------------------
(* Dialogs: `list' is the list that the action of the dialog holds *)

Dialog(u, p, op, on, val) ==
  /\ Acts(u) /\ dialog[u] = None /\ page[u][p] # None
  /\ dialog' = [dialog EXCEPT ![u] =
       [page |-> p, op |-> op, on |-> on, val |-> val, list |-> page[u][p]]]
  /\ UNCHANGED <<rvars, page, secret, known, clicks>>

on_toggle(u, v, field) ==
  /\ field = "voice" \/ v # u \/ u \notin known
  /\ page[u]["users"] # None
  /\ Dialog(u, "users", "update_user", v, <<field, ~page[u]["users"][v][field]>>)

on_delete_all(u, s) == s \in page[u]["all"] /\ Dialog(u, "all", "admin_delete_session", s, "all")

on_delete_session(u, s) == s \in page[u]["mine"] /\ Dialog(u, "mine", "delete_session", s, "mine")

on_revoke_token(u, t) ==
  /\ t \in DOMAIN page[u]["tokens"] /\ ~page[u]["tokens"][t]
  /\ Dialog(u, "tokens", "revoke_token", t, "tokens")

on_renew_token(u, t) ==
  /\ t \in DOMAIN page[u]["tokens"] /\ ~page[u]["tokens"][t]
  /\ Dialog(u, "tokens", "renew_token", t, "tokens")

(* The ban dialog is made anew whenever the page is rendered: it holds the  *)
(* list that is shown when the ban is confirmed.                           *)
Confirm(u) ==
  LET d == dialog[u] ban == d.op = "update_user" /\ d.val = <<"disabled", TRUE>> IN
  /\ Acts(u) /\ d # None /\ Click
  /\ Request(u, d.op, d.on, d.val, IF ban THEN page[u]["users"] ELSE d.list)
  /\ UNCHANGED <<users, tokens, sessions, members, connected, registrations, page, dialog,
                 secret, known>>

Cancel(u) ==
  /\ dialog[u] # None /\ ("cancel" \in UserFaults \/ ~Waits(u))
  /\ dialog' = [dialog EXCEPT ![u] = None]
  /\ UNCHANGED <<rvars, page, secret, known, clicks>>

-----------------------------------------------------------------------------
(* Answers to changes *)

PageAnswered ==
  <<users, tokens, sessions, members, connected, registrations, secret, known, clicks>>

UserUpdated(i) ==
  LET r == requests[i] field == r.val[1] IN
  /\ AskedBy(i, {"update_user"})
  /\ page' = IF r.got = None THEN page
             ELSE [page EXCEPT ![r.by]["users"] = [r.list EXCEPT ![r.on][field] = r.val[2]]]
  /\ Closes(i) /\ Finish(i) /\ UNCHANGED PageAnswered

SessionDeleted(i) ==
  LET r == requests[i] IN
  /\ AskedBy(i, {"delete_session", "admin_delete_session"})
  /\ IF r.got = None THEN UNCHANGED page ELSE Showing(i, r.list \ {r.on})
  /\ Closes(i) /\ Finish(i) /\ UNCHANGED PageAnswered

TokenRevoked(i) ==
  LET r == requests[i] IN
  /\ AskedBy(i, {"revoke_token"})
  /\ IF r.got = None THEN UNCHANGED page ELSE Showing(i, [r.list EXCEPT ![r.on] = TRUE])
  /\ Closes(i) /\ Finish(i) /\ UNCHANGED PageAnswered

(* The new token is shown, and the list fetched again.                     *)
Refetch(i, p) ==
  requests' = [requests EXCEPT ![i].op = ListOf(p), ![i].pc = "start", ![i].on = Subject(p),
                               ![i].val = p, ![i].got = None, ![i].list = None]

TokenRenewed(i) ==
  LET r == requests[i] IN
  /\ AskedBy(i, {"renew_token"})
  /\ IF r.got = None THEN UNCHANGED secret /\ Finish(i)
     ELSE secret' = [secret EXCEPT ![r.by] = r.got] /\ Refetch(i, "tokens")
  /\ Closes(i)
  /\ UNCHANGED <<users, tokens, sessions, members, connected, registrations, page, known, clicks>>

-----------------------------------------------------------------------------
(* Changes without a dialog: a new token, and the members of a session *)

on_create_token(u) ==
  /\ Acts(u) /\ dialog[u] = None /\ page[u]["tokens"] # None /\ Click
  /\ Len(tokens) < MaxTokens /\ ~\E i \in Slots : At(i, "create_token", "start")
  /\ Request(u, "create_token", None, None, None)
  /\ UNCHANGED <<users, tokens, sessions, members, connected, registrations, page, dialog,
                 secret, known>>

TokenCreated(i) ==
  LET r == requests[i] IN
  /\ AskedBy(i, {"create_token"})
  /\ IF r.got = None THEN UNCHANGED secret /\ Finish(i)
     ELSE secret' = [secret EXCEPT ![r.by] = r.got] /\ Refetch(i, "tokens")
  /\ UNCHANGED <<users, tokens, sessions, members, connected, registrations, page, dialog,
                 known, clicks>>

(* Anybody's address may be typed; roles are changed and members removed in *)
(* the rows of others than the owner.                                      *)
ShareDialog(u) ==
  LET list == page[u]["members"] s == Subject("members") IN
  /\ Acts(u) /\ list # None /\ Click
  /\ \E v \in Users :
       \/ \E role \in Roles : Request(u, "add_session_member", s, <<v, role>>, None)
       \/ list[v] \in Roles /\ Request(u, "remove_session_member", s, <<v, None>>, None)
       \/ \E role \in Roles : /\ list[v] \in Roles \ {role}
                              /\ Request(u, "update_session_member_role", s, <<v, role>>, None)
  /\ UNCHANGED <<users, tokens, sessions, members, connected, registrations, page, dialog,
                 secret, known>>

MemberAddedMutant(i) ==
  /\ AskedBy(i, {"add_session_member"}) /\ Finish(i)
  /\ UNCHANGED <<users, tokens, sessions, members, connected, registrations, page, dialog,
                 secret, known, clicks>>
MemberAdded(i) ==
  /\ AskedBy(i, {"add_session_member"})
  /\ IF requests[i].got = None THEN Finish(i) ELSE Refetch(i, "members")
  /\ UNCHANGED <<users, tokens, sessions, members, connected, registrations, page, dialog,
                 secret, known, clicks>>

(* A member that is not in the list is not added to it.                    *)
MemberChanged(i) ==
  LET r == requests[i] list == page[r.by]["members"] IN
  /\ AskedBy(i, {"remove_session_member", "update_session_member_role"})
  /\ page' = IF r.got = None \/ list[r.val[1]] = None THEN page
             ELSE [page EXCEPT ![r.by]["members"][r.val[1]] = r.val[2]]
  /\ Finish(i) /\ UNCHANGED dialog /\ UNCHANGED PageAnswered

-----------------------------------------------------------------------------
UsersTab(u) == "users" \in Shown /\ \E v \in Users, f \in Fields : on_toggle(u, v, f)
SessionsTab(u) ==
  "all" \in Shown /\ page[u]["all"] # None /\ \E s \in Sessions : on_delete_all(u, s)
SessionsPanel(u) ==
  "mine" \in Shown /\ page[u]["mine"] # None /\ \E s \in Sessions : on_delete_session(u, s)
TokensPanel(u) ==
  /\ "tokens" \in Shown /\ page[u]["tokens"] # None
  /\ \/ \E t \in DOMAIN tokens : on_revoke_token(u, t) \/ on_renew_token(u, t)
     \/ on_create_token(u)

ClickStep(u) ==
  \/ \E p \in Shown : OpenPage(u, p)
  \/ UsersTab(u) \/ SessionsTab(u) \/ SessionsPanel(u) \/ TokensPanel(u)
  \/ "members" \in Shown /\ ShareDialog(u)
  \/ Confirm(u) \/ Cancel(u)

AnswerStep(i) ==
  ListFetched(i) \/ UserUpdated(i) \/ SessionDeleted(i) \/ TokenRevoked(i) \/ TokenRenewed(i)
  \/ TokenCreated(i) \/ MemberAdded(i) \/ MemberChanged(i)

(* The handlers, and the proxies.                                          *)
Unseen == <<page, dialog, secret, known, clicks>>

AdminStep(i) == AdminHandlers(i) /\ UNCHANGED Unseen
MemberStep(i) == MemberHandlers(i) /\ UNCHANGED Unseen
SessionStep(i) == SessionHandlers(i) /\ UNCHANGED Unseen
TokenStep(i) == TokenHandlers(i) /\ UNCHANGED Unseen
RegistrationStep(i) == ProxyHandlers(i) /\ UNCHANGED Unseen
Proxy(s) == (Register(s) \/ ProxyEnds(s)) /\ UNCHANGED Unseen

PNext ==
  \/ \E u \in Actors : ClickStep(u)
  \/ \E i \in Slots : AnswerStep(i) \/ AdminStep(i) \/ MemberStep(i) \/ SessionStep(i)
                       \/ TokenStep(i) \/ RegistrationStep(i)
  \/ \E s \in Sessions : Proxy(s)

PSpec == PInit /\ [][PNext]_pvars

-----------------------------------------------------------------------------
\* A page shows what is in the tables, once no request is under way: a list of
\* users with their rights, of sessions, of tokens with those revoked, of members
\* with their roles.
PageIsTrue ==
  (\A i \in Slots : requests[i] = Idle) => \A u \in Actors :
    /\ page[u]["users"] \in {None, users}
    /\ page[u]["all"] \in {None, sessions}
    /\ page[u]["mine"] \in {None, {s \in sessions : members[s][u] # None}}
    /\ page[u]["tokens"] \in {None, [t \in TokensOf(u) |-> tokens[t].revoked]}
    /\ page[u]["members"] \in {None, members[Subject("members")]}

\* "Copy this token now": the token that a page shows is the one that is accepted
\* for its row, or that row is revoked.
SecretWorks ==
  (\A i \in Slots : requests[i] = Idle) => \A u \in Actors : secret[u] # None =>
    LET t == secret[u][1] IN tokens[t].revoked \/ tokens[t].hash = secret[u][2]
=============================================================================
