------------------------------ MODULE Records ------------------------------
(***************************************************************************)
(* The tables of accounts: users, their proxy tokens, sessions and their   *)
(* members, and the handlers that change them for a browser or for a proxy *)
(* that registers.  A handler is a sequence of statements on the database, *)
(* each atomic and none of them in a transaction with the next; several     *)
(* handlers run at a time.                                                 *)
(***************************************************************************)
EXTENDS Option, Naturals, Sequences, SequencesExt, FiniteSets

CONSTANTS
  Users,
  Administrators,  \* those of them that are administrators at the start
  Sessions,        \* ids of sessions, chosen by the proxies
  Owner,           \* Owner[s]: the user whose token the proxy of s holds
  Stored,          \* sessions that are in the table at the start
  MaxTokens,       \* bound: tokens, one for each user at the start included
  MaxRegistrations,  \* bound: registrations of proxies
  MaxInFlight,     \* bound: requests under way at a time
  RecordFaults     \* "db_error": a statement fails

Roles == {"editor", "viewer"}

ASSUME RecordsAssumption ==
  /\ IsFiniteSet(Users) /\ Administrators \subseteq Users
  /\ Stored \subseteq Sessions /\ \A s \in Sessions : Owner[s] \in Users
  /\ MaxInFlight \in Nat /\ None \notin Roles \cup {"owner"}

VARIABLES
  users, tokens, sessions, members,
  connected,       \* sessions in the session manager
  requests,        \* what the handlers under way hold, by slot
  registrations

rvars == <<users, tokens, sessions, members, connected, requests, registrations>>

Slots == DOMAIN requests
Idle == [op |-> None, pc |-> "idle"]

RInit ==
  /\ users = [u \in Users |->
                [admin |-> u \in Administrators, disabled |-> FALSE, voice |-> FALSE]]
  /\ tokens = SetToSeq({[user |-> u, revoked |-> FALSE, hash |-> 0] : u \in Users})
  /\ sessions = Stored /\ connected = {}
  /\ members = [s \in Sessions |-> [u \in Users |->
                  IF s \in Stored /\ u = Owner[s] THEN "owner" ELSE None]]
  /\ requests = [i \in 1 .. MaxInFlight |-> Idle] /\ registrations = 0

(* A request takes a free slot; `got' is its answer, None an error.         *)
Request(by, op, on, val, list) ==
  \E i \in Slots :
    /\ requests[i] = Idle /\ \A j \in Slots : j < i => requests[j] # Idle
    /\ requests' = [requests EXCEPT ![i] =
         [by |-> by, op |-> op, on |-> on, val |-> val, list |-> list,
          pc |-> "start", got |-> None, ids |-> {}]]

At(i, op, pc) == requests[i].op = op /\ requests[i].pc = pc
Goto(i, pc) == requests' = [requests EXCEPT ![i].pc = pc]
Answer(i, got) == requests' = [requests EXCEPT ![i].pc = "answered", ![i].got = got]
Finish(i) == requests' = [requests EXCEPT ![i] = Idle]

require_admin(u) == ~users[u].disabled /\ users[u].admin
OwnedBy(u) == {s \in sessions : Owner[s] = u}
TokensOf(u) == {t \in DOMAIN tokens : tokens[t].user = u}
WithoutMembers(S) == [s \in Sessions |-> IF s \in S THEN [u \in Users |-> None] ELSE members[s]]

-----------------------------------------------------------------------------
(* Administration *)

list_users(i) ==
  /\ At(i, "list_users", "start")
  /\ Answer(i, IF require_admin(requests[i].by) THEN users ELSE None)
  /\ UNCHANGED <<users, tokens, sessions, members, connected, registrations>>

(* Nobody demotes or bans herself.                                         *)
MayUpdate(r) ==
  require_admin(r.by) /\ ~(r.on = r.by /\ r.val \in {<<"disabled", TRUE>>, <<"admin", FALSE>>})

(* update_user for one field: val is <<field, value>>.                     *)
update_user(i) ==
  LET r == requests[i]
      field == r.val[1] value == r.val[2]
      ban == field = "disabled" /\ value
  IN /\ \/ /\ At(i, "update_user", "start")
           /\ IF MayUpdate(r) THEN Goto(i, "update") ELSE Answer(i, None)
           /\ UNCHANGED <<users, tokens>>
        \/ /\ At(i, "update_user", "update")
           /\ users' = [users EXCEPT ![r.on][field] = value]
           /\ IF ban THEN Goto(i, "revoke") ELSE Answer(i, "ok")
           /\ UNCHANGED tokens
        \/ /\ At(i, "update_user", "revoke")
           /\ tokens' = [t \in DOMAIN tokens |->
                [tokens[t] EXCEPT !.revoked = @ \/ tokens[t].user = r.on]]
           /\ Goto(i, "sessions") /\ UNCHANGED users
     /\ UNCHANGED <<sessions, members, connected, registrations>>

SessionsWithoutMutant(u) == {s \in sessions : members[s][u] # "owner"}
SessionsWithout(u) == sessions \ OwnedBy(u)

(* The rest of a ban: the sessions are read, their members are deleted, and *)
(* every session of the user.                                              *)
delete_user_sessions(i) ==
  LET r == requests[i] IN
  /\ \/ /\ At(i, "update_user", "sessions")
        /\ IF OwnedBy(r.on) = {} THEN Answer(i, "ok")
           ELSE requests' = [requests EXCEPT ![i].pc = "members", ![i].ids = OwnedBy(r.on)]
        /\ UNCHANGED <<sessions, members>>
     \/ /\ At(i, "update_user", "members")
        /\ members' = WithoutMembers(r.ids)
        /\ Goto(i, "delete") /\ UNCHANGED sessions
     \/ /\ At(i, "update_user", "delete")
        /\ sessions' = SessionsWithout(r.on)
        /\ members' = WithoutMembers(OwnedBy(r.on))
        /\ Answer(i, "ok")
  /\ UNCHANGED <<users, tokens, connected, registrations>>

list_all_sessions(i) ==
  /\ At(i, "list_all_sessions", "start")
  /\ Answer(i, IF require_admin(requests[i].by) THEN sessions ELSE None)
  /\ UNCHANGED <<users, tokens, sessions, members, connected, registrations>>

(* An administrator's deletion also takes the session out of the manager.  *)
admin_delete_session(i) ==
  LET r == requests[i] IN
  /\ At(i, "admin_delete_session", "start")
  /\ IF require_admin(r.by) /\ r.on \in sessions
     THEN Goto(i, "members") /\ connected' = connected \ {r.on}
     ELSE Answer(i, None) /\ UNCHANGED connected
  /\ UNCHANGED <<users, tokens, sessions, members, registrations>>

-----------------------------------------------------------------------------
(* Sessions and their members *)

list_sessions(i) ==
  /\ At(i, "list_sessions", "start")
  /\ Answer(i, {s \in sessions : members[s][requests[i].by] # None})
  /\ UNCHANGED <<users, tokens, sessions, members, connected, registrations>>

delete_session(i) ==
  LET r == requests[i] IN
  /\ At(i, "delete_session", "start")
  /\ IF r.on \in sessions /\ members[r.on][r.by] = "owner"
     THEN Goto(i, "members") ELSE Answer(i, None)
  /\ UNCHANGED <<users, tokens, sessions, members, connected, registrations>>

(* Messages, inputs and the permission request go with the members.        *)
delete_session_with_data(i) ==
  LET r == requests[i] IN
  /\ r.op \in {"delete_session", "admin_delete_session"}
  /\ \/ /\ r.pc = "members" /\ members' = WithoutMembers({r.on})
        /\ Goto(i, "delete") /\ UNCHANGED sessions
     \/ /\ r.pc = "delete" /\ members' = WithoutMembers({r.on})
        /\ sessions' = sessions \ {r.on} /\ Answer(i, "ok")
  /\ UNCHANGED <<users, tokens, connected, registrations>>

list_session_members(i) ==
  LET r == requests[i] IN
  /\ At(i, "list_session_members", "start")
  /\ Answer(i, IF members[r.on][r.by] = None THEN None ELSE members[r.on])
  /\ UNCHANGED <<users, tokens, sessions, members, connected, registrations>>

(* val is <<user, role>>.  A session that is gone has no members, and takes *)
(* none.                                                                   *)
add_session_member(i) ==
  LET r == requests[i] IN
  /\ \/ /\ At(i, "add_session_member", "start")
        /\ IF members[r.on][r.by] = "owner" /\ members[r.on][r.val[1]] = None
           THEN Goto(i, "insert") ELSE Answer(i, None)
        /\ UNCHANGED members
     \/ /\ At(i, "add_session_member", "insert")
        /\ IF r.on \in sessions /\ members[r.on][r.val[1]] = None
           THEN members' = [members EXCEPT ![r.on][r.val[1]] = r.val[2]] /\ Answer(i, "ok")
           ELSE Answer(i, None) /\ UNCHANGED members
  /\ UNCHANGED <<users, tokens, sessions, connected, registrations>>

remove_session_member(i) ==
  LET r == requests[i] role == members[r.on][r.by] IN
  /\ \/ /\ At(i, "remove_session_member", "start")
        /\ IF role # None /\ (role = "owner") # (r.by = r.val[1])
           THEN Goto(i, "delete") ELSE Answer(i, None)
        /\ UNCHANGED members
     \/ /\ At(i, "remove_session_member", "delete")
        /\ members' = [members EXCEPT ![r.on][r.val[1]] = None]
        /\ Answer(i, IF members[r.on][r.val[1]] = None THEN None ELSE "ok")
  /\ UNCHANGED <<users, tokens, sessions, connected, registrations>>

update_session_member_role(i) ==
  LET r == requests[i] IN
  /\ \/ /\ At(i, "update_session_member_role", "start")
        /\ IF members[r.on][r.by] = "owner" /\ r.by # r.val[1]
           THEN Goto(i, "update") ELSE Answer(i, None)
        /\ UNCHANGED members
     \/ /\ At(i, "update_session_member_role", "update")
        /\ IF members[r.on][r.val[1]] # None
           THEN members' = [members EXCEPT ![r.on][r.val[1]] = r.val[2]] /\ Answer(i, "ok")
           ELSE Answer(i, None) /\ UNCHANGED members
  /\ UNCHANGED <<users, tokens, sessions, connected, registrations>>

-----------------------------------------------------------------------------
(* Tokens: a token's hash stands for the JWT that was made last for its row *)

list_tokens_handler(i) ==
  /\ At(i, "list_tokens", "start")
  /\ Answer(i, [t \in TokensOf(requests[i].by) |-> tokens[t].revoked])
  /\ UNCHANGED <<users, tokens, sessions, members, connected, registrations>>

create_token_handler(i) ==
  /\ At(i, "create_token", "start") /\ Len(tokens) < MaxTokens
  /\ tokens' = Append(tokens, [user |-> requests[i].by, revoked |-> FALSE, hash |-> 0])
  /\ Answer(i, <<Len(tokens) + 1, 0>>)
  /\ UNCHANGED <<users, sessions, members, connected, registrations>>

revoke_token_handler(i) ==
  /\ At(i, "revoke_token", "start")
  /\ tokens' = [tokens EXCEPT ![requests[i].on].revoked = TRUE]
  /\ Answer(i, "ok")
  /\ UNCHANGED <<users, sessions, members, connected, registrations>>

renew_token_handler(i) ==
  LET r == requests[i] IN
  /\ \/ /\ At(i, "renew_token", "start")
        /\ IF tokens[r.on].revoked THEN Answer(i, None) ELSE Goto(i, "update")
        /\ UNCHANGED tokens
     \/ /\ At(i, "renew_token", "update")
        /\ tokens' = [tokens EXCEPT ![r.on].hash = @ + 1]
        /\ Answer(i, <<r.on, tokens[r.on].hash + 1>>)
  /\ UNCHANGED <<users, sessions, members, connected, registrations>>

verify_and_get_user(t, hash) ==
  /\ tokens[t].hash = hash /\ ~tokens[t].revoked
  /\ ~users[tokens[t].user].disabled

-----------------------------------------------------------------------------
(* Registration of the proxy of session s with a token of its owner *)

Register(s) ==
  /\ registrations < MaxRegistrations /\ registrations' = registrations + 1
  /\ s \notin connected
  /\ \A i \in Slots : requests[i].op = "register" => requests[i].on # s
  /\ \E t \in TokensOf(Owner[s]) : Request(Owner[s], "register", s, <<t, tokens[t].hash>>, None)
  /\ UNCHANGED <<users, tokens, sessions, members, connected>>

register_session(i) ==
  LET r == requests[i] s == r.on IN
  /\ \/ /\ At(i, "register", "start")
        /\ Goto(i, IF s \in sessions THEN "reactivate" ELSE "verify")
        /\ UNCHANGED connected
     \/ /\ At(i, "register", "reactivate")
        /\ Finish(i) /\ connected' = connected \cup {s}
  /\ UNCHANGED <<users, tokens, sessions, members, registrations>>

(* A failure to add the owner is only logged: a session that is gone takes  *)
(* no member.                                                              *)
WithOwnerMutant(s) == [members EXCEPT ![s][Owner[s]] = "owner"]
WithOwner(s) == IF s \in sessions THEN [members EXCEPT ![s][Owner[s]] = "owner"] ELSE members

create_new_session(i) ==
  LET r == requests[i] s == r.on IN
  /\ \/ /\ At(i, "register", "verify")
        /\ IF verify_and_get_user(r.val[1], r.val[2]) THEN Goto(i, "insert") ELSE Finish(i)
        /\ UNCHANGED <<sessions, members, connected>>
     \/ /\ At(i, "register", "insert")
        /\ sessions' = sessions \cup {s} /\ Goto(i, "owner")
        /\ UNCHANGED <<members, connected>>
     \/ /\ At(i, "register", "owner")
        /\ members' = WithOwner(s)
        /\ connected' = connected \cup {s} /\ Finish(i) /\ UNCHANGED sessions
  /\ UNCHANGED <<users, tokens, registrations>>

(* A statement fails: the handler answers with an error, and what it did    *)
(* before stays.                                                           *)
StatementFails(i) ==
  /\ "db_error" \in RecordFaults /\ requests[i].pc \notin {"idle", "answered"}
  /\ IF requests[i].op = "register" THEN Finish(i) ELSE Answer(i, None)
  /\ connected' = IF requests[i].op = "register" /\ requests[i].pc = "owner"
                  THEN connected \cup {requests[i].on} ELSE connected
  /\ UNCHANGED <<users, tokens, sessions, members, registrations>>

ProxyEnds(s) ==
  /\ s \in connected /\ connected' = connected \ {s}
  /\ UNCHANGED <<users, tokens, sessions, members, requests, registrations>>

AdminHandlers(i) ==
  list_users(i) \/ update_user(i) \/ delete_user_sessions(i)
  \/ list_all_sessions(i) \/ admin_delete_session(i)
MemberHandlers(i) ==
  list_session_members(i) \/ add_session_member(i) \/ remove_session_member(i)
  \/ update_session_member_role(i)
SessionHandlers(i) == list_sessions(i) \/ delete_session(i) \/ delete_session_with_data(i)
TokenHandlers(i) ==
  list_tokens_handler(i) \/ create_token_handler(i) \/ revoke_token_handler(i)
  \/ renew_token_handler(i)
ProxyHandlers(i) == register_session(i) \/ create_new_session(i) \/ StatementFails(i)

-----------------------------------------------------------------------------
Answered(i) == requests[i].pc = "answered"
Quiet == \A i \in Slots : requests[i] = Idle \/ Answered(i)

\* However administrators change each other's accounts, somebody can still
\* administer: an enabled administrator remains.
AnAdminRemains == \E u \in DOMAIN users : require_admin(u)

\* "This will disable the user account and revoke all their access tokens": when
\* no handler is at work, a disabled user has no token that is accepted and no
\* session in the table.
BannedHasNothing ==
  Quiet => \A u \in DOMAIN users : users[u].disabled =>
    /\ OwnedBy(u) = {}
    /\ \A t \in TokensOf(u) : tokens[t].revoked

\* Both, where requests and registrations are handled one at a time.
SerialAccountsAreWhole == Slots = {1} => AnAdminRemains /\ BannedHasNothing

\* When no handler is at work, the owner of every session in the table is among
\* its members, as its owner, and nobody else is; a session that is gone has none.
SessionHasOwner ==
  Quiet => \A s \in DOMAIN members : \A u \in DOMAIN members[s] :
    /\ (members[s][u] = "owner") <=> (s \in sessions /\ u = Owner[s])
    /\ members[s][u] # None => s \in sessions

\* The session of a connected proxy is in the table: what its agent says can be
\* stored.
ConnectedIsStored == Quiet => connected \subseteq sessions
=============================================================================
