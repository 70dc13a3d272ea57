------------------------- MODULE LauncherLinkProofs -------------------------
(***************************************************************************)
(* Theorems about LauncherLink, for any number of processes, connections,  *)
(* renewals and requests; about LaunchDialog, for any launchers and         *)
(* directories; and about LauncherSessions, for any directories, limits and *)
(* mishaps.                                                                 *)
(***************************************************************************)
EXTENDS LauncherLink, LaunchDialog, LauncherSessions, SequenceTheorems, FiniteSetTheorems,
        WellFoundedInduction, TLAPS

-----------------------------------------------------------------------------
(* The strengthening.                                                       *)

\* A process that was started has a token; a connection it has is open, and the
\* backend has a task for it.
Processes ==
  \A p \in Procs :
    /\ p > started => proc[p] = "unstarted"
    /\ proc[p] # "unstarted" => token[p] # 0
    /\ proc[p] \in {"registering", "serving"} <=> conn[p] # 0
    /\ conn[p] # 0 =>
         conn[p] \notin cut /\ sock[conn[p]].at # "none" /\ sock[conn[p]].id = p

Sockets ==
  /\ \A c \in Conns : sock[c].at # "none" =>
       c <= conns /\ sock[c].id # 0 /\ proc[sock[c].id] # "unstarted"
  /\ cut \subseteq 1..conns

\* An entry is that of a connection whose end is not noticed yet.
Entries ==
  \A p \in Procs : entry[p].conn # 0 =>
    sock[entry[p].conn].at = "registered" /\ sock[entry[p].conn].id = p

\* A renewal is for a connection that was registered, and replaces an older token.
Renewals ==
  \A r \in Renewers :
    /\ renewal[r].at # "idle" =>
         /\ renewal[r].id # 0 /\ renewal[r].conn # 0 /\ renewal[r].old # 0
         /\ sock[renewal[r].conn].at \in {"registered", "ended"}
    /\ renewal[r].at \notin {"idle", "mint"} =>
         renewal[r].old < renewal[r].new /\ renewal[r].new <= minted

\* The acknowledgment of a registration comes first, and tokens after it.
Messages ==
  /\ \A c \in Conns :
       /\ sock[c].at \in {"none", "open", "verified"} => inbox[c] = <<>>
       /\ \A i \in 1..Len(inbox[c]) :
            /\ i > 1 => inbox[c][i].kind = "renewed"
            /\ inbox[c][i].kind = "renewed" => inbox[c][i].token \in 1..minted
  /\ \A p \in Procs :
       /\ proc[p] = "registering" /\ sock[conn[p]].at \notin {"open", "verified"} =>
            inbox[conn[p]] # <<>> /\ inbox[conn[p]][1].kind # "renewed"
       /\ proc[p] = "serving" =>
            /\ sock[conn[p]].at \notin {"open", "verified"}
            /\ \A i \in 1..Len(inbox[conn[p]]) : inbox[conn[p]][i].kind = "renewed"

\* No token in use is newer than the one minted last, and that one is valid: it is
\* not the old one of any renewal.
Newest ==
  /\ minted \in valid
  /\ config <= minted
  /\ \A p \in Procs : token[p] <= minted /\ entry[p].token <= minted
  /\ \A r \in Renewers : renewal[r].old <= minted

Shape == Processes /\ Sockets /\ Entries /\ Renewals /\ Messages /\ Newest

\* Without registrations that cross: one connection is registered or about to be,
\* and it has the entry.
SoleRegistration ==
  /\ \A c, d \in Conns :
       {sock[c].at, sock[d].at} \subseteq {"checked", "registered"} => c = d
  /\ \A c \in Conns : sock[c].at = "registered" => entry[sock[c].id].conn = c

\* Without a second launcher and half-open connections: one process runs, and the
\* backend has noticed the end of every connection but the last one: no entry is in
\* the way of a registration.
SoleConnection ==
  /\ \A p, q \in Procs : Running(p) /\ Running(q) => p = q
  /\ \A c \in 1..conns : c \notin cut => conn[sock[c].id] = c
  /\ \A c \in 1..conns : sock[c].at # "none" /\ (c < conns => sock[c].at = "ended")
  /\ NotRefusedForItself

-----------------------------------------------------------------------------
(* The types of the variables, by name.                                     *)

ProcStates == {"unstarted", "down", "registering", "serving", "exited"}
Steps == {"none", "open", "verified", "checked", "registered", "ended"}
SockState == [at : Steps, id : {0} \union Procs]
Message == [kind : {"ok", "failed", "fatal", "renewed"}, token : {0} \union Tokens]
EntryState == [conn : {0} \union Conns, token : Tokens]
RenewalState ==
  [at : {"idle", "mint", "revoke", "update", "push"},
   id : {0} \union Procs, conn : {0} \union Conns,
   old : {0} \union Tokens, new : {0} \union Tokens]
Refusals == {"not", "token", "query", "itself", "another"}

Typed ==
  /\ proc \in [Procs -> ProcStates] /\ started \in 0..MaxProc
  /\ token \in [Procs -> {0} \union Tokens] /\ config \in Tokens
  /\ conn \in [Procs -> {0} \union Conns] /\ conns \in 0..MaxConn
  /\ sock \in [Conns -> SockState] /\ cut \subseteq Conns
  /\ inbox \in [Conns -> Seq(Message)]
  /\ entry \in [Procs -> EntryState]
  /\ valid \subseteq Tokens /\ minted \in Tokens
  /\ renewal \in [Renewers -> RenewalState]
  /\ refused \in [Procs -> Refusals]

LEMMA TypedIsTypeOK == TypeOK <=> Typed
BY DEF Typed, TypeOK, ProcStates, Steps, SockState, Message, EntryState, RenewalState,
       Refusals, Tokens

\* What the parts of typed variables are.
LEMMA TypedParts ==
  ASSUME Typed
  PROVE  /\ Conns \subseteq Nat \ {0} /\ Procs \subseteq Nat \ {0} /\ Tokens \subseteq Nat \ {0}
         /\ Conns \subseteq Renewers /\ Requests \subseteq Renewers
         /\ \A p \in Procs :
              /\ proc[p] \in ProcStates /\ conn[p] \in {0} \union Conns
              /\ token[p] \in {0} \union Tokens
              /\ entry[p] \in EntryState
              /\ entry[p].conn \in {0} \union Conns /\ entry[p].token \in Tokens
         /\ \A c \in Conns :
              /\ sock[c] \in SockState
              /\ sock[c].at \in Steps /\ sock[c].id \in {0} \union Procs
              /\ inbox[c] \in Seq(Message)
         /\ \A r \in Renewers :
              /\ renewal[r] \in RenewalState
              /\ renewal[r].id \in {0} \union Procs /\ renewal[r].conn \in {0} \union Conns
              /\ renewal[r].old \in {0} \union Tokens /\ renewal[r].new \in {0} \union Tokens
<1>1. Conns \subseteq Nat \ {0} /\ Procs \subseteq Nat \ {0} /\ Tokens \subseteq Nat \ {0}
      /\ Conns \subseteq Renewers /\ Requests \subseteq Renewers
  BY LauncherLinkAssumption DEF Conns, Procs, Tokens, Renewers
<1>2. ASSUME NEW p \in Procs
      PROVE  /\ proc[p] \in ProcStates /\ conn[p] \in {0} \union Conns
             /\ token[p] \in {0} \union Tokens
             /\ entry[p] \in EntryState
             /\ entry[p].conn \in {0} \union Conns /\ entry[p].token \in Tokens
  BY DEF Typed, EntryState
<1>3. ASSUME NEW c \in Conns
      PROVE  /\ sock[c] \in SockState
             /\ sock[c].at \in Steps /\ sock[c].id \in {0} \union Procs
             /\ inbox[c] \in Seq(Message)
  BY DEF Typed, SockState
<1>4. ASSUME NEW r \in Renewers
      PROVE  /\ renewal[r] \in RenewalState
             /\ renewal[r].id \in {0} \union Procs /\ renewal[r].conn \in {0} \union Conns
             /\ renewal[r].old \in {0} \union Tokens /\ renewal[r].new \in {0} \union Tokens
  BY DEF Typed, RenewalState
<1> QED BY <1>1, <1>2, <1>3, <1>4

-----------------------------------------------------------------------------
(* Operators of the model.                                                  *)

\* A message that is sent comes last, unless its connection is lost.
LEMMA SendShape ==
  ASSUME Typed, NEW c \in Conns, NEW m \in Message, Send(c, m)
  PROVE  /\ inbox' \in [Conns -> Seq(Message)]
         /\ \A d \in Conns \ {c} : inbox'[d] = inbox[d]
         /\ c \in cut => inbox' = inbox
         /\ c \notin cut =>
              /\ inbox'[c] # <<>>
              /\ Len(inbox'[c]) = Len(inbox[c]) + 1
              /\ \A i \in 1..Len(inbox[c]) : inbox'[c][i] = inbox[c][i]
              /\ inbox'[c][Len(inbox[c]) + 1] = m
<1>1. inbox \in [Conns -> Seq(Message)]
  BY DEF Typed
<1>2. CASE c \in cut
  BY <1>1, <1>2 DEF Send
<1>3. CASE c \notin cut
  <2>1. inbox' = [inbox EXCEPT ![c] = Append(inbox[c], m)]
    BY <1>3 DEF Send
  <2>2. inbox[c] \in Seq(Message)
    BY <1>1
  <2>3. /\ Append(inbox[c], m) \in Seq(Message) /\ Append(inbox[c], m) # <<>>
        /\ Len(Append(inbox[c], m)) = Len(inbox[c]) + 1
        /\ \A i \in 1..Len(inbox[c]) : Append(inbox[c], m)[i] = inbox[c][i]
        /\ Append(inbox[c], m)[Len(inbox[c]) + 1] = m
    BY <2>2
  <2>4. inbox'[c] = Append(inbox[c], m) /\ \A d \in Conns \ {c} : inbox'[d] = inbox[d]
    BY <1>1, <2>1
  <2>5. inbox' \in [Conns -> Seq(Message)]
    BY <1>1, <2>1, <2>3
  <2> QED BY <1>3, <2>3, <2>4, <2>5
<1> QED BY <1>2, <1>3

\* A message that is read was the first.
LEMMA ReadShape ==
  ASSUME Typed, NEW c \in Conns, inbox[c] # <<>>,
         inbox' = [inbox EXCEPT ![c] = Tail(@)]
  PROVE  /\ inbox' \in [Conns -> Seq(Message)]
         /\ \A d \in Conns \ {c} : inbox'[d] = inbox[d]
         /\ Len(inbox[c]) \in Nat \ {0} /\ Head(inbox[c]) = inbox[c][1]
         /\ inbox[c][1] \in Message
         /\ Len(inbox'[c]) = Len(inbox[c]) - 1
         /\ \A i \in 1..Len(inbox'[c]) : inbox'[c][i] = inbox[c][i + 1]
<1>1. inbox \in [Conns -> Seq(Message)] /\ inbox[c] \in Seq(Message)
  BY DEF Typed
<1>2. Len(inbox[c]) \in Nat \ {0} /\ Head(inbox[c]) = inbox[c][1]
      /\ inbox[c][1] \in Message /\ Tail(inbox[c]) \in Seq(Message)
      /\ Len(Tail(inbox[c])) = Len(inbox[c]) - 1
      /\ \A i \in 1..Len(Tail(inbox[c])) : Tail(inbox[c])[i] = inbox[c][i + 1]
  BY <1>1
<1>3. inbox'[c] = Tail(inbox[c]) /\ \A d \in Conns \ {c} : inbox'[d] = inbox[d]
  BY <1>1
<1>4. inbox' \in [Conns -> Seq(Message)]
  BY <1>1, <1>2
<1> QED BY <1>2, <1>3, <1>4

\* A connection's task goes on; the others stay where they are.
LEMMA StepShape ==
  ASSUME Typed, NEW c \in Conns, NEW at \in Steps, Step(c, at)
  PROVE  /\ sock' \in [Conns -> SockState]
         /\ \A d \in Conns : sock'[d].id = sock[d].id
         /\ \A d \in Conns \ {c} : sock'[d].at = sock[d].at
         /\ sock'[c].at = at
<1>1. sock \in [Conns -> SockState] /\ sock' = [sock EXCEPT ![c].at = at]
  BY DEF Typed, Step
<1>2. \A d \in Conns : sock[d] \in SockState
  BY <1>1
<1>3. sock'[c] = [sock[c] EXCEPT !.at = at] /\ \A d \in Conns \ {c} : sock'[d] = sock[d]
  BY <1>1
<1>4. sock'[c] \in SockState /\ sock'[c].at = at /\ sock'[c].id = sock[c].id
  BY <1>2, <1>3 DEF SockState
<1>5. sock' \in [Conns -> SockState]
  <2>1. sock' = [d \in Conns |-> sock'[d]]
    BY <1>1
  <2> QED BY <1>2, <1>3, <1>4, <2>1
<1> QED BY <1>3, <1>4, <1>5

\* A renewal goes on; the others stay where they are.
LEMMA RenewalShape ==
  ASSUME Typed, NEW r \in Renewers, NEW x \in RenewalState,
         renewal' = [renewal EXCEPT ![r] = x]
  PROVE  /\ renewal' \in [Renewers -> RenewalState]
         /\ renewal'[r] = x
         /\ \A s \in Renewers \ {r} : renewal'[s] = renewal[s]
BY DEF Typed

\* An entry is replaced; the others stay as they are.
LEMMA EntryShape ==
  ASSUME Typed, NEW p \in Procs, NEW e \in EntryState,
         entry' = [entry EXCEPT ![p] = e]
  PROVE  /\ entry' \in [Procs -> EntryState]
         /\ entry'[p] = e
         /\ \A q \in Procs \ {p} : entry'[q] = entry[q]
BY DEF Typed

LEMMA Constants ==
  /\ Idle \in RenewalState /\ Idle.at = "idle" /\ Idle.old = 0
  /\ NoEntry \in EntryState /\ NoEntry.conn = 0 /\ NoEntry.token = 1
  /\ <<>> \in Seq(Message)
  /\ \A k \in {"ok", "failed", "fatal"} :
       Ack(k) \in Message /\ Ack(k).kind = k
  /\ \A t \in Tokens :
       /\ TokenRenewed(t) \in Message
       /\ TokenRenewed(t).kind = "renewed" /\ TokenRenewed(t).token = t
<1>1. Idle \in RenewalState /\ Idle.at = "idle" /\ Idle.old = 0
  BY DEF Idle, RenewalState
<1>2. NoEntry \in EntryState /\ NoEntry.conn = 0 /\ NoEntry.token = 1
  BY LauncherLinkAssumption DEF NoEntry, EntryState, Tokens
<1>3. \A k \in {"ok", "failed", "fatal"} : Ack(k) \in Message /\ Ack(k).kind = k
  BY DEF Ack, Message
<1>4. \A t \in Tokens :
       /\ TokenRenewed(t) \in Message
       /\ TokenRenewed(t).kind = "renewed" /\ TokenRenewed(t).token = t
  BY DEF TokenRenewed, Message
<1> QED BY <1>1, <1>2, <1>3, <1>4

-----------------------------------------------------------------------------
(* Initial states.                                                          *)

LEMMA InitShape == Init => Typed /\ Shape
<1> SUFFICES ASSUME Init PROVE Typed /\ Shape
  OBVIOUS
<1> USE LauncherLinkAssumption
<1>1. Typed
  BY Constants
     DEF Init, Typed, ProcStates, Steps, SockState, Refusals, Procs, Conns, Tokens
<1>2. Processes /\ Sockets /\ Entries
  BY <1>1, Constants DEF Init, Processes, Sockets, Entries, Procs
<1>3. Renewals
  BY Constants DEF Init, Renewals
<1>4. Messages
  <2>1. \A c \in Conns : inbox[c] = <<>>
    BY DEF Init
  <2>2. Len(<<>>) = 0
    OBVIOUS
  <2> QED BY <2>1, <2>2 DEF Init, Messages
<1>5. Newest
  BY Constants DEF Init, Newest
<1> QED BY <1>1, <1>2, <1>3, <1>4, <1>5 DEF Shape

-----------------------------------------------------------------------------
(* The launcher's steps.                                                    *)

LEMMA StartStep ==
  ASSUME Typed, Shape, Start
  PROVE  Typed' /\ Shape'
<1> USE DEF launcher, link, tokens
<1> DEFINE q == started + 1
<1>1. q \in Procs /\ proc[q] = "unstarted" /\ conn[q] = 0
  <2>1. MaxProc \in Nat
    BY LauncherLinkAssumption
  <2>2. started < MaxProc /\ started \in 0..MaxProc /\ conn \in [Procs -> {0} \union Conns]
    BY DEF Start, Typed
  <2>3. q \in Procs /\ q > started
    BY <2>1, <2>2 DEF Procs
  <2>4. proc[q] = "unstarted" /\ (proc[q] \in {"registering", "serving"} <=> conn[q] # 0)
    BY <2>3 DEF Shape, Processes
  <2> QED BY <2>3, <2>4
<1>2. /\ proc' \in [Procs -> ProcStates]
      /\ proc'[q] = "down" /\ \A p \in Procs \ {q} : proc'[p] = proc[p]
  BY <1>1 DEF Start, Typed, ProcStates
<1>3. /\ token' \in [Procs -> {0} \union Tokens]
      /\ token'[q] = config /\ \A p \in Procs \ {q} : token'[p] = token[p]
  BY <1>1 DEF Start, Typed
<1>4. started' = q /\ q \in 0..MaxProc
  BY LauncherLinkAssumption DEF Start, Typed
<1>5. UNCHANGED <<config, conn, conns, sock, cut, inbox, entry, valid, minted, renewal, refused>>
  BY DEF Start
<1> HIDE DEF q
<1>6. Typed'
  BY <1>2, <1>3, <1>4, <1>5 DEF Typed
<1>7. Processes'
  BY <1>1, <1>2, <1>3, <1>4, <1>5, TypedParts DEF Shape, Processes, Typed, q
<1>8. Sockets'
  BY <1>2, <1>5, TypedParts DEF Shape, Sockets
<1>9. Entries' /\ Renewals'
  BY <1>5 DEF Shape, Entries, Renewals
<1>10. Messages'
  BY <1>2, <1>5 DEF Shape, Messages
<1>11. Newest'
  BY <1>3, <1>5 DEF Shape, Newest
<1> QED BY <1>6, <1>7, <1>8, <1>9, <1>10, <1>11 DEF Shape

LEMMA ConnectStep ==
  ASSUME Typed, Shape, NEW p \in Procs, Connect(p)
  PROVE  Typed' /\ Shape'
<1> USE DEF launcher, link, tokens
<1> DEFINE c == conns + 1
<1>1. /\ c \in Conns /\ sock[c].at = "none" /\ c \notin cut /\ inbox[c] = <<>>
      /\ proc[p] = "down" /\ conn[p] = 0
  <2>1. c \in Conns /\ ~(c <= conns)
    BY LauncherLinkAssumption DEF Connect, Typed, Conns
  <2>2. sock[c].at = "none" /\ c \notin cut
    BY <2>1 DEF Shape, Sockets, Typed
  <2> QED BY <2>1, <2>2 DEF Connect, Shape, Messages, Processes
<1>2. /\ sock' \in [Conns -> SockState]
      /\ sock'[c].at = "open" /\ sock'[c].id = p
      /\ \A d \in Conns \ {c} : sock'[d] = sock[d]
  BY <1>1 DEF Connect, Typed, SockState, Steps
<1>3. /\ proc' \in [Procs -> ProcStates]
      /\ proc'[p] = "registering" /\ \A q \in Procs \ {p} : proc'[q] = proc[q]
  BY DEF Connect, Typed, ProcStates
<1>4. /\ conn' \in [Procs -> {0} \union Conns]
      /\ conn'[p] = c /\ \A q \in Procs \ {p} : conn'[q] = conn[q]
  BY <1>1 DEF Connect, Typed
<1>5. conns' = c /\ c \in 0..MaxConn /\ conns < c
  BY LauncherLinkAssumption DEF Connect, Typed
<1>6. UNCHANGED <<started, token, config, cut, inbox, entry, valid, minted, renewal, refused>>
  BY DEF Connect
<1> HIDE DEF c
<1>7. Typed'
  BY <1>2, <1>3, <1>4, <1>5, <1>6 DEF Typed
<1>0. ASSUME NEW q \in Procs, q # p, conn[q] # 0
      PROVE  conn[q] \in Conns \ {c} /\ sock'[conn[q]] = sock[conn[q]]
  <2>1. conn[q] \in Conns /\ sock[conn[q]].at # "none"
    BY <1>0, TypedParts DEF Shape, Processes
  <2> QED BY <1>1, <1>2, <2>1
<1>8. Processes'
  <2> SUFFICES ASSUME NEW q \in Procs
      PROVE  /\ q > started => proc'[q] = "unstarted"
             /\ proc'[q] # "unstarted" => token[q] # 0
             /\ proc'[q] \in {"registering", "serving"} <=> conn'[q] # 0
             /\ conn'[q] # 0 =>
                  conn'[q] \notin cut /\ sock'[conn'[q]].at # "none" /\ sock'[conn'[q]].id = q
    BY <1>6 DEF Processes
  <2>1. CASE q = p
    BY <1>1, <1>2, <1>3, <1>4, <1>5, <2>1, TypedParts DEF Shape, Processes
  <2>2. CASE q # p
    BY <1>0, <1>3, <1>4, <2>2 DEF Shape, Processes
  <2> QED BY <2>1, <2>2
<1>9. Sockets'
  <2>1. \A d \in Conns : sock'[d].at # "none" =>
          d <= c /\ sock'[d].id # 0 /\ proc'[sock'[d].id] # "unstarted"
    BY <1>1, <1>2, <1>3, <1>5, TypedParts DEF Shape, Sockets, Typed, Conns, Procs
  <2>2. cut \subseteq 1..c
    BY <1>5 DEF Shape, Sockets, Typed, c
  <2> QED BY <1>5, <1>6, <2>1, <2>2 DEF Sockets
<1>10. Entries'
  BY <1>1, <1>2, <1>6, TypedParts DEF Shape, Entries
<1>11. Renewals'
  BY <1>1, <1>2, <1>6, TypedParts DEF Shape, Renewals
<1>12. Messages'
  <2>1. \A d \in Conns :
       /\ sock'[d].at \in {"none", "open", "verified"} => inbox[d] = <<>>
       /\ \A i \in 1..Len(inbox[d]) :
            /\ i > 1 => inbox[d][i].kind = "renewed"
            /\ inbox[d][i].kind = "renewed" => inbox[d][i].token \in 1..minted
    BY <1>1, <1>2 DEF Shape, Messages
  <2>2. \A q \in Procs :
       /\ proc'[q] = "registering" /\ sock'[conn'[q]].at \notin {"open", "verified"} =>
            inbox[conn'[q]] # <<>> /\ inbox[conn'[q]][1].kind # "renewed"
       /\ proc'[q] = "serving" =>
            /\ sock'[conn'[q]].at \notin {"open", "verified"}
            /\ \A i \in 1..Len(inbox[conn'[q]]) : inbox[conn'[q]][i].kind = "renewed"
    <3> SUFFICES ASSUME NEW q \in Procs
        PROVE  /\ proc'[q] = "registering" /\ sock'[conn'[q]].at \notin {"open", "verified"} =>
                    inbox[conn'[q]] # <<>> /\ inbox[conn'[q]][1].kind # "renewed"
               /\ proc'[q] = "serving" =>
                    /\ sock'[conn'[q]].at \notin {"open", "verified"}
                    /\ \A i \in 1..Len(inbox[conn'[q]]) : inbox[conn'[q]][i].kind = "renewed"
      OBVIOUS
    <3>1. CASE q = p
      BY <1>2, <1>3, <1>4, <3>1
    <3>2. CASE q # p
      <4>1. conn'[q] = conn[q] /\ proc'[q] = proc[q]
        BY <1>3, <1>4, <3>2
      <4>2. proc[q] \in {"registering", "serving"} => sock'[conn[q]] = sock[conn[q]]
        BY <1>0, <3>2 DEF Shape, Processes
      <4> QED BY <4>1, <4>2 DEF Shape, Messages
    <3> QED BY <3>1, <3>2
  <2> QED BY <1>6, <2>1, <2>2 DEF Messages
<1>13. Newest'
  BY <1>6 DEF Shape, Newest
<1> QED BY <1>7, <1>8, <1>9, <1>10, <1>11, <1>12, <1>13 DEF Shape

LEMMA ReadAckStep ==
  ASSUME Typed, Shape, NEW p \in Procs, ReadAck(p)
  PROVE  Typed' /\ Shape'
<1> USE DEF launcher, link, tokens
<1> DEFINE c == conn[p]
<1>1. /\ c \in Conns /\ inbox[c] # <<>> /\ c \notin cut /\ sock[c].id = p
      /\ sock[c].at \notin {"none", "open", "verified"} /\ proc[p] = "registering"
  BY TypedParts DEF ReadAck, Shape, Processes, Messages
<1>2. /\ inbox' \in [Conns -> Seq(Message)]
      /\ \A d \in Conns \ {c} : inbox'[d] = inbox[d]
      /\ Len(inbox[c]) \in Nat \ {0} /\ Head(inbox[c]) = inbox[c][1]
      /\ inbox[c][1] \in Message
      /\ Len(inbox'[c]) = Len(inbox[c]) - 1
      /\ \A i \in 1..Len(inbox'[c]) : inbox'[c][i] = inbox[c][i + 1]
  BY <1>1, ReadShape DEF ReadAck
<1>3. inbox[c][1].kind \in {"ok", "failed", "fatal"}
  <2>1. inbox[c][1].kind # "renewed"
    BY <1>1 DEF Shape, Messages
  <2> QED BY <1>2, <2>1 DEF Message
<1>4. \A i \in 1..Len(inbox'[c]) : inbox'[c][i].kind = "renewed" /\ inbox'[c][i].token \in 1..minted
  <2> SUFFICES ASSUME NEW i \in 1..Len(inbox'[c])
               PROVE  inbox'[c][i].kind = "renewed" /\ inbox'[c][i].token \in 1..minted
    OBVIOUS
  <2>1. i + 1 \in 1..Len(inbox[c]) /\ i + 1 > 1 /\ inbox'[c][i] = inbox[c][i + 1]
    BY <1>2
  <2> QED BY <1>1, <2>1 DEF Shape, Messages
<1>5. /\ proc' \in [Procs -> ProcStates]
      /\ proc'[p] \in {"serving", "down", "exited"}
      /\ proc'[p] = "serving" <=> inbox[c][1].kind = "ok"
      /\ \A q \in Procs \ {p} : proc'[q] = proc[q]
  BY <1>2, <1>3 DEF ReadAck, Typed, ProcStates
<1>6. /\ conn' \in [Procs -> {0} \union Conns] /\ cut' \subseteq Conns
      /\ proc'[p] = "serving" => conn' = conn /\ cut' = cut
      /\ proc'[p] # "serving" => conn'[p] = 0 /\ cut' = cut \union {c}
      /\ \A q \in Procs \ {p} : conn'[q] = conn[q]
  <2>0. conn \in [Procs -> {0} \union Conns] /\ cut \subseteq Conns
    BY DEF Typed
  <2>1. CASE Head(inbox[c]).kind = "ok"
    <3>1. UNCHANGED <<conn, cut>>
      BY <2>1 DEF ReadAck
    <3> QED BY <1>2, <1>5, <2>0, <2>1, <3>1
  <2>2. CASE Head(inbox[c]).kind # "ok"
    <3>1. conn' = [conn EXCEPT ![p] = 0] /\ cut' = cut \union {c}
      BY <2>2 DEF ReadAck
    <3> QED BY <1>1, <1>2, <1>5, <2>0, <2>2, <3>1
  <2> QED BY <2>1, <2>2
<1>7. UNCHANGED <<started, token, config, conns, sock, entry, valid, minted, renewal, refused>>
  BY DEF ReadAck
<1>8. \A q \in Procs \ {p} : conn[q] # 0 => conn[q] \in Conns \ {c}
  BY <1>1, TypedParts DEF Shape, Processes
<1> HIDE DEF c
<1>9. Typed'
  BY <1>2, <1>5, <1>6, <1>7 DEF Typed
<1>10. Processes'
  <2> SUFFICES ASSUME NEW q \in Procs
      PROVE  /\ q > started => proc'[q] = "unstarted"
             /\ proc'[q] # "unstarted" => token[q] # 0
             /\ proc'[q] \in {"registering", "serving"} <=> conn'[q] # 0
             /\ conn'[q] # 0 =>
                  conn'[q] \notin cut' /\ sock[conn'[q]].at # "none" /\ sock[conn'[q]].id = q
    BY <1>7 DEF Processes
  <2>1. CASE q = p
    BY <1>1, <1>5, <1>6, <2>1 DEF Shape, Processes, c
  <2>2. CASE q # p
    BY <1>5, <1>6, <1>8, <2>2 DEF Shape, Processes
  <2> QED BY <2>1, <2>2
<1>11. Sockets'
  <2>1. c \in 1..conns
    BY <1>1, TypedParts DEF Shape, Sockets, Typed
  <2>2. \A d \in Conns : sock[d].at # "none" =>
           d <= conns /\ sock[d].id # 0 /\ proc'[sock[d].id] # "unstarted"
    BY <1>5, TypedParts DEF Shape, Sockets
  <2> QED BY <1>6, <1>7, <2>1, <2>2 DEF Shape, Sockets
<1>12. Entries' /\ Renewals' /\ Newest'
  BY <1>7 DEF Shape, Entries, Renewals, Newest
<1>13. Messages'
  <2>1. \A d \in Conns :
       /\ sock[d].at \in {"none", "open", "verified"} => inbox'[d] = <<>>
       /\ \A i \in 1..Len(inbox'[d]) :
            /\ i > 1 => inbox'[d][i].kind = "renewed"
            /\ inbox'[d][i].kind = "renewed" => inbox'[d][i].token \in 1..minted
    BY <1>1, <1>2, <1>4 DEF Shape, Messages
  <2>2. \A q \in Procs :
       /\ proc'[q] = "registering" /\ sock[conn'[q]].at \notin {"open", "verified"} =>
            inbox'[conn'[q]] # <<>> /\ inbox'[conn'[q]][1].kind # "renewed"
       /\ proc'[q] = "serving" =>
            /\ sock[conn'[q]].at \notin {"open", "verified"}
            /\ \A i \in 1..Len(inbox'[conn'[q]]) : inbox'[conn'[q]][i].kind = "renewed"
    <3> SUFFICES ASSUME NEW q \in Procs
        PROVE  /\ proc'[q] = "registering" /\ sock[conn'[q]].at \notin {"open", "verified"} =>
                    inbox'[conn'[q]] # <<>> /\ inbox'[conn'[q]][1].kind # "renewed"
               /\ proc'[q] = "serving" =>
                    /\ sock[conn'[q]].at \notin {"open", "verified"}
                    /\ \A i \in 1..Len(inbox'[conn'[q]]) : inbox'[conn'[q]][i].kind = "renewed"
      OBVIOUS
    <3>1. CASE q = p
      BY <1>1, <1>4, <1>5, <1>6, <3>1 DEF c
    <3>2. CASE q # p /\ conn[q] # 0
      <4>1. proc'[q] = proc[q] /\ conn'[q] = conn[q] /\ inbox'[conn[q]] = inbox[conn[q]]
        BY <1>2, <1>5, <1>6, <1>8, <3>2
      <4>2. /\ proc[q] = "registering" /\ sock[conn[q]].at \notin {"open", "verified"} =>
                 inbox[conn[q]] # <<>> /\ inbox[conn[q]][1].kind # "renewed"
            /\ proc[q] = "serving" =>
                 /\ sock[conn[q]].at \notin {"open", "verified"}
                 /\ \A i \in 1..Len(inbox[conn[q]]) : inbox[conn[q]][i].kind = "renewed"
        BY DEF Shape, Messages
      <4> QED BY <4>1, <4>2
    <3>3. CASE q # p /\ conn[q] = 0
      BY <1>5, <3>3 DEF Shape, Processes
    <3> QED BY <3>1, <3>2, <3>3
  <2> QED BY <1>7, <2>1, <2>2 DEF Messages
<1> QED BY <1>9, <1>10, <1>11, <1>12, <1>13 DEF Shape

LEMMA ReceiveTokenStep ==
  ASSUME Typed, Shape, NEW p \in Procs, ReceiveToken(p)
  PROVE  Typed' /\ Shape'
<1> USE DEF launcher, link, tokens
<1> DEFINE c == conn[p]
<1>1. /\ c \in Conns /\ inbox[c] # <<>> /\ sock[c].id = p
      /\ sock[c].at \notin {"none", "open", "verified"} /\ proc[p] = "serving"
  BY TypedParts DEF ReceiveToken, Shape, Processes, Messages
<1>2. /\ inbox' \in [Conns -> Seq(Message)]
      /\ \A d \in Conns \ {c} : inbox'[d] = inbox[d]
      /\ Len(inbox[c]) \in Nat \ {0} /\ Head(inbox[c]) = inbox[c][1]
      /\ Len(inbox'[c]) = Len(inbox[c]) - 1
      /\ \A i \in 1..Len(inbox'[c]) : inbox'[c][i] = inbox[c][i + 1]
  BY <1>1, ReadShape DEF ReceiveToken
<1>3. \A i \in 1..Len(inbox[c]) : inbox[c][i].kind = "renewed" /\ inbox[c][i].token \in 1..minted
  BY <1>1 DEF Shape, Messages
<1>4. \A i \in 1..Len(inbox'[c]) : inbox'[c][i].kind = "renewed" /\ inbox'[c][i].token \in 1..minted
  <2> SUFFICES ASSUME NEW i \in 1..Len(inbox'[c])
               PROVE  inbox'[c][i].kind = "renewed" /\ inbox'[c][i].token \in 1..minted
    OBVIOUS
  <2>1. i + 1 \in 1..Len(inbox[c]) /\ inbox'[c][i] = inbox[c][i + 1]
    BY <1>2
  <2> QED BY <1>3, <2>1
<1>5. config' \in Tokens /\ config' <= minted
  <2>1. inbox[c][1].token \in 1..minted
    BY <1>2, <1>3
  <2>2. config' \in {config, inbox[c][1].token}
    BY <1>2 DEF ReceiveToken
  <2> QED BY <2>1, <2>2, LauncherLinkAssumption DEF Typed, Tokens, Shape, Newest
<1>6. UNCHANGED <<proc, started, token, conn, conns, sock, cut, entry, valid, minted,
                  renewal, refused>>
  BY DEF ReceiveToken
<1>7. \A q \in Procs \ {p} : conn[q] # 0 => conn[q] \in Conns \ {c}
  BY <1>1, TypedParts DEF Shape, Processes
<1> HIDE DEF c
<1>8. Typed'
  BY <1>2, <1>5, <1>6 DEF Typed
<1>9. Processes' /\ Sockets' /\ Entries' /\ Renewals'
  BY <1>6 DEF Shape, Processes, Sockets, Entries, Renewals
<1>10. Newest'
  BY <1>5, <1>6 DEF Shape, Newest
<1>11. Messages'
  <2>1. \A d \in Conns :
       /\ sock[d].at \in {"none", "open", "verified"} => inbox'[d] = <<>>
       /\ \A i \in 1..Len(inbox'[d]) :
            /\ i > 1 => inbox'[d][i].kind = "renewed"
            /\ inbox'[d][i].kind = "renewed" => inbox'[d][i].token \in 1..minted
    BY <1>1, <1>2, <1>4 DEF Shape, Messages
  <2>2. \A q \in Procs :
       /\ proc[q] = "registering" /\ sock[conn[q]].at \notin {"open", "verified"} =>
            inbox'[conn[q]] # <<>> /\ inbox'[conn[q]][1].kind # "renewed"
       /\ proc[q] = "serving" =>
            /\ sock[conn[q]].at \notin {"open", "verified"}
            /\ \A i \in 1..Len(inbox'[conn[q]]) : inbox'[conn[q]][i].kind = "renewed"
    <3> SUFFICES ASSUME NEW q \in Procs, proc[q] \in {"registering", "serving"}
        PROVE  /\ proc[q] = "registering" /\ sock[conn[q]].at \notin {"open", "verified"} =>
                    inbox'[conn[q]] # <<>> /\ inbox'[conn[q]][1].kind # "renewed"
               /\ proc[q] = "serving" =>
                    /\ sock[conn[q]].at \notin {"open", "verified"}
                    /\ \A i \in 1..Len(inbox'[conn[q]]) : inbox'[conn[q]][i].kind = "renewed"
      OBVIOUS
    <3>1. CASE q = p
      BY <1>1, <1>4, <3>1 DEF c
    <3>2. CASE q # p
      <4>1. conn[q] \in Conns \ {c}
        BY <1>7, <3>2 DEF Shape, Processes
      <4> QED BY <1>2, <4>1 DEF Shape, Messages
    <3> QED BY <3>1, <3>2
  <2> QED BY <1>6, <2>1, <2>2 DEF Messages
<1> QED BY <1>8, <1>9, <1>10, <1>11 DEF Shape

\* A connection is lost, or the process that has it ends.
LEMMA LostShape ==
  ASSUME Typed, Shape, NEW p \in Procs, NEW s \in {"down", "exited"},
         proc[p] # "unstarted",
         proc' = [proc EXCEPT ![p] = s], conn' = [conn EXCEPT ![p] = 0],
         cut' = cut \union ({conn[p]} \ {0}),
         inbox' \in [Conns -> Seq(Message)],
         \A d \in Conns : inbox'[d] = IF d = conn[p] THEN <<>> ELSE inbox[d],
         UNCHANGED <<started, token, config, conns, sock, entry, valid, minted, renewal, refused>>
  PROVE  Typed' /\ Shape'
<1>1. /\ proc' \in [Procs -> ProcStates] /\ proc'[p] = s
      /\ \A q \in Procs \ {p} : proc'[q] = proc[q]
  BY DEF Typed, ProcStates
<1>2. /\ conn' \in [Procs -> {0} \union Conns] /\ conn'[p] = 0
      /\ \A q \in Procs \ {p} : conn'[q] = conn[q]
  BY DEF Typed
<1>3. \A q \in Procs \ {p} : conn[q] # 0 => conn[q] \in Conns /\ conn[q] # conn[p]
  BY TypedParts DEF Shape, Processes
<1>4. cut' \subseteq Conns /\ cut' \subseteq 1..conns
  <2>1. CASE conn[p] = 0
    BY <2>1 DEF Typed, Shape, Sockets
  <2>2. CASE conn[p] # 0
    <3>1. conn[p] \in Conns /\ sock[conn[p]].at # "none"
      BY <2>2, TypedParts DEF Shape, Processes
    <3>2. conn[p] \in 1..conns
      <4>1. conn[p] \in Nat \ {0} /\ conn[p] <= conns
        BY <3>1, TypedParts DEF Shape, Sockets
      <4>2. conns \in Nat
        BY LauncherLinkAssumption DEF Typed
      <4> QED BY <4>1, <4>2
    <3> QED BY <3>1, <3>2 DEF Typed, Shape, Sockets
  <2> QED BY <2>1, <2>2
<1>5. Typed'
  BY <1>1, <1>2, <1>4 DEF Typed
<1>6. Processes'
  <2> SUFFICES ASSUME NEW q \in Procs
      PROVE  /\ q > started => proc'[q] = "unstarted"
             /\ proc'[q] # "unstarted" => token[q] # 0
             /\ proc'[q] \in {"registering", "serving"} <=> conn'[q] # 0
             /\ conn'[q] # 0 =>
                  conn'[q] \notin cut' /\ sock[conn'[q]].at # "none" /\ sock[conn'[q]].id = q
    BY DEF Processes
  <2>1. CASE q = p
    BY <1>1, <1>2, <2>1 DEF Shape, Processes
  <2>2. CASE q # p
    BY <1>1, <1>2, <1>3, <2>2 DEF Shape, Processes
  <2> QED BY <2>1, <2>2
<1>7. Sockets'
  <2>1. \A d \in Conns : sock[d].at # "none" =>
           d <= conns /\ sock[d].id # 0 /\ proc'[sock[d].id] # "unstarted"
    BY <1>1, TypedParts DEF Shape, Sockets
  <2> QED BY <1>4, <2>1 DEF Sockets
<1>8. Entries' /\ Renewals' /\ Newest'
  BY DEF Shape, Entries, Renewals, Newest
<1>9. Messages'
  <2>1. Len(<<>>) = 0
    OBVIOUS
  <2>2. \A d \in Conns :
       /\ sock[d].at \in {"none", "open", "verified"} => inbox'[d] = <<>>
       /\ \A i \in 1..Len(inbox'[d]) :
            /\ i > 1 => inbox'[d][i].kind = "renewed"
            /\ inbox'[d][i].kind = "renewed" => inbox'[d][i].token \in 1..minted
    BY <2>1 DEF Shape, Messages
  <2>3. \A q \in Procs :
       /\ proc'[q] = "registering" /\ sock[conn'[q]].at \notin {"open", "verified"} =>
            inbox'[conn'[q]] # <<>> /\ inbox'[conn'[q]][1].kind # "renewed"
       /\ proc'[q] = "serving" =>
            /\ sock[conn'[q]].at \notin {"open", "verified"}
            /\ \A i \in 1..Len(inbox'[conn'[q]]) : inbox'[conn'[q]][i].kind = "renewed"
    <3> SUFFICES ASSUME NEW q \in Procs, proc'[q] \in {"registering", "serving"}
        PROVE  /\ proc'[q] = "registering" /\ sock[conn'[q]].at \notin {"open", "verified"} =>
                    inbox'[conn'[q]] # <<>> /\ inbox'[conn'[q]][1].kind # "renewed"
               /\ proc'[q] = "serving" =>
                    /\ sock[conn'[q]].at \notin {"open", "verified"}
                    /\ \A i \in 1..Len(inbox'[conn'[q]]) : inbox'[conn'[q]][i].kind = "renewed"
      OBVIOUS
    <3>1. q # p /\ proc'[q] = proc[q] /\ conn'[q] = conn[q]
      BY <1>1, <1>2
    <3>2. conn[q] \in Conns /\ conn[q] # conn[p]
      BY <1>3, <3>1 DEF Shape, Processes
    <3>3. inbox'[conn[q]] = inbox[conn[q]]
      BY <3>2
    <3> QED BY <3>1, <3>3 DEF Shape, Messages
  <2> QED BY <2>2, <2>3 DEF Messages
<1> QED BY <1>5, <1>6, <1>7, <1>8, <1>9 DEF Shape

LEMMA LinkCutStep ==
  ASSUME Typed, Shape, NEW p \in Procs, LinkCut(p)
  PROVE  Typed' /\ Shape'
<1> USE DEF launcher, link, tokens
<1>1. conn[p] \in Conns /\ proc[p] # "unstarted"
  BY TypedParts DEF LinkCut, Shape, Processes
<1>2. inbox' \in [Conns -> Seq(Message)]
      /\ \A d \in Conns : inbox'[d] = IF d = conn[p] THEN <<>> ELSE inbox[d]
  BY <1>1, Constants DEF LinkCut, Typed
<1>3. cut' = cut \union ({conn[p]} \ {0})
  BY <1>1, TypedParts DEF LinkCut
<1> QED BY <1>1, <1>2, <1>3, LostShape DEF LinkCut

LEMMA StopStep ==
  ASSUME Typed, Shape, NEW p \in Procs, Stop(p)
  PROVE  Typed' /\ Shape'
<1> USE DEF launcher, link, tokens
<1>1. inbox' \in [Conns -> Seq(Message)]
      /\ \A d \in Conns : inbox'[d] = IF d = conn[p] THEN <<>> ELSE inbox[d]
  BY Constants DEF Stop, Typed
<1>2. proc[p] # "unstarted"
  BY DEF Stop, Running
<1> QED BY <1>1, <1>2, LostShape DEF Stop

LEMMA BackendRestartStep ==
  ASSUME Typed, Shape, BackendRestart
  PROVE  Typed' /\ Shape'
<1> USE DEF launcher, link, tokens
<1>1. /\ sock' \in [Conns -> SockState]
      /\ \A c \in Conns : /\ sock'[c].id = sock[c].id
                          /\ sock[c].at = "none" => sock'[c].at = "none"
                          /\ sock[c].at # "none" => sock'[c].at = "ended"
  <2>1. \A c \in Conns : sock'[c] = IF sock[c].at = "none" THEN sock[c]
                                    ELSE [sock[c] EXCEPT !.at = "ended"]
    BY DEF BackendRestart
  <2>2. \A c \in Conns : /\ sock'[c] \in SockState /\ sock'[c].id = sock[c].id
                         /\ sock[c].at = "none" => sock'[c].at = "none"
                         /\ sock[c].at # "none" => sock'[c].at = "ended"
    <3> TAKE c \in Conns
    <3>1. sock[c] \in SockState
      BY TypedParts
    <3>2. /\ [sock[c] EXCEPT !.at = "ended"] \in SockState
          /\ [sock[c] EXCEPT !.at = "ended"].id = sock[c].id
          /\ [sock[c] EXCEPT !.at = "ended"].at = "ended"
      BY <3>1 DEF SockState, Steps
    <3> QED BY <2>1, <3>1, <3>2
  <2>3. sock' = [c \in Conns |-> sock'[c]]
    BY DEF BackendRestart
  <2> QED BY <2>2, <2>3
<1>2. cut' \subseteq Conns /\ cut' \subseteq 1..conns
  BY TypedParts DEF BackendRestart, Typed, Shape, Sockets
<1>3. inbox' \in [Conns -> Seq(Message)] /\ \A c \in Conns : inbox'[c] = <<>>
  BY Constants DEF BackendRestart
<1>4. /\ proc' \in [Procs -> ProcStates]
      /\ \A p \in Procs : /\ conn[p] # 0 => proc'[p] = "down"
                          /\ conn[p] = 0 => proc'[p] = proc[p]
  BY DEF BackendRestart, Typed, ProcStates
<1>5. conn' \in [Procs -> {0} \union Conns] /\ \A p \in Procs : conn'[p] = 0
  BY DEF BackendRestart
<1>6. entry' \in [Procs -> EntryState] /\ \A p \in Procs : entry'[p] = NoEntry
  BY Constants DEF BackendRestart
<1>7. renewal' \in [Renewers -> RenewalState] /\ \A r \in Renewers : renewal'[r] = Idle
  BY Constants DEF BackendRestart
<1>8. UNCHANGED <<started, token, config, conns, valid, minted, refused>>
  BY DEF BackendRestart
<1>9. Typed'
  BY <1>1, <1>2, <1>3, <1>4, <1>5, <1>6, <1>7, <1>8 DEF Typed
<1>10. Processes'
  BY <1>4, <1>5, <1>8 DEF Shape, Processes
<1>11. Sockets'
  <2>1. \A p \in Procs : proc[p] # "unstarted" => proc'[p] # "unstarted"
    BY <1>4
  <2> QED BY <1>1, <1>2, <1>8, <2>1, TypedParts DEF Shape, Sockets
<1>12. Entries' /\ Renewals'
  BY <1>6, <1>7, Constants DEF Entries, Renewals
<1>13. Newest'
  BY <1>6, <1>7, <1>8, Constants DEF Shape, Newest, Typed, Tokens
<1>14. Messages'
  <2>1. Len(<<>>) = 0
    OBVIOUS
  <2>2. \A p \in Procs : proc'[p] \notin {"registering", "serving"}
    BY <1>4 DEF Shape, Processes
  <2> QED BY <1>3, <2>1, <2>2 DEF Messages
<1> QED BY <1>9, <1>10, <1>11, <1>12, <1>13, <1>14 DEF Shape

-----------------------------------------------------------------------------
(* The steps of the backend's task.                                         *)

\* A task refuses its connection or lets it go on, with a message or without.
LEMMA AnsweredShape ==
  ASSUME Typed, Shape, NEW c \in Conns, NEW at \in Steps,
         sock[c].at \in {"open", "verified"}, Step(c, at),
         \/ at = "verified" /\ UNCHANGED inbox
         \/ \E k \in {"ok", "failed", "fatal"} :
              at \in {"checked", "ended"} /\ Send(c, Ack(k)),
         refused' \in [Procs -> Refusals],
         UNCHANGED <<launcher, cut, entry, tokens>>
  PROVE  Typed' /\ Shape'
<1> USE DEF launcher, tokens
<1>1. /\ sock' \in [Conns -> SockState]
      /\ \A d \in Conns : sock'[d].id = sock[d].id
      /\ \A d \in Conns \ {c} : sock'[d].at = sock[d].at
      /\ sock'[c].at = at /\ at \in {"verified", "checked", "ended"}
  BY StepShape
<1>2. inbox[c] = <<>> /\ Len(inbox[c]) = 0
  BY DEF Shape, Messages
<1> DEFINE Answered ==
      /\ inbox' \in [Conns -> Seq(Message)]
      /\ \A d \in Conns \ {c} : inbox'[d] = inbox[d]
      /\ \A i \in 1..Len(inbox'[c]) : i = 1 /\ inbox'[c][i].kind # "renewed"
      /\ at = "verified" => inbox'[c] = <<>>
      /\ at # "verified" /\ c \notin cut => inbox'[c] # <<>> /\ Len(inbox'[c]) = 1
<1>3. Answered
  <2>1. CASE at = "verified" /\ UNCHANGED inbox
    BY <1>2, <2>1 DEF Typed
  <2>2. ASSUME NEW k \in {"ok", "failed", "fatal"},
               at \in {"checked", "ended"}, Send(c, Ack(k))
        PROVE  Answered
    <3>1. Ack(k) \in Message /\ Ack(k).kind = k
      BY Constants
    <3>2. /\ inbox' \in [Conns -> Seq(Message)]
          /\ \A d \in Conns \ {c} : inbox'[d] = inbox[d]
          /\ c \in cut => inbox' = inbox
          /\ c \notin cut =>
               /\ inbox'[c] # <<>>
               /\ Len(inbox'[c]) = Len(inbox[c]) + 1
               /\ inbox'[c][Len(inbox[c]) + 1] = Ack(k)
      BY <2>2, <3>1, SendShape
    <3>3. CASE c \in cut
      BY <1>2, <2>2, <3>2, <3>3
    <3>4. CASE c \notin cut
      <4>1. Len(inbox'[c]) = 1 /\ inbox'[c][1] = Ack(k)
        BY <1>2, <3>2, <3>4
      <4>2. \A i \in 1..Len(inbox'[c]) : i = 1
        BY <4>1
      <4> QED BY <2>2, <3>1, <3>2, <3>4, <4>1, <4>2
    <3> QED BY <3>3, <3>4
  <2> QED BY <2>1, <2>2
<1>4. Typed'
  BY <1>1, <1>3 DEF Typed
<1>5. Processes'
  BY <1>1, TypedParts DEF Shape, Processes
<1>6. Sockets'
  BY <1>1 DEF Shape, Sockets
<1>7. Entries'
  BY <1>1, TypedParts, SMTT(20) DEF Shape, Entries
<1>8. Renewals'
  BY <1>1, TypedParts DEF Shape, Renewals
<1>9. Newest'
  BY DEF Shape, Newest
<1>10. Messages'
  <2>1. \A d \in Conns :
       /\ sock'[d].at \in {"none", "open", "verified"} => inbox'[d] = <<>>
       /\ \A i \in 1..Len(inbox'[d]) :
            /\ i > 1 => inbox'[d][i].kind = "renewed"
            /\ inbox'[d][i].kind = "renewed" => inbox'[d][i].token \in 1..minted
    <3> SUFFICES ASSUME NEW d \in Conns
        PROVE  /\ sock'[d].at \in {"none", "open", "verified"} => inbox'[d] = <<>>
               /\ \A i \in 1..Len(inbox'[d]) :
                    /\ i > 1 => inbox'[d][i].kind = "renewed"
                    /\ inbox'[d][i].kind = "renewed" => inbox'[d][i].token \in 1..minted
      OBVIOUS
    <3>1. CASE d = c
      BY <1>1, <1>3, <3>1
    <3>2. CASE d # c
      BY <1>1, <1>3, <3>2 DEF Shape, Messages
    <3> QED BY <3>1, <3>2
  <2>2. \A q \in Procs :
       /\ proc[q] = "registering" /\ sock'[conn[q]].at \notin {"open", "verified"} =>
            inbox'[conn[q]] # <<>> /\ inbox'[conn[q]][1].kind # "renewed"
       /\ proc[q] = "serving" =>
            /\ sock'[conn[q]].at \notin {"open", "verified"}
            /\ \A i \in 1..Len(inbox'[conn[q]]) : inbox'[conn[q]][i].kind = "renewed"
    <3> SUFFICES ASSUME NEW q \in Procs, proc[q] \in {"registering", "serving"}
        PROVE  /\ proc[q] = "registering" /\ sock'[conn[q]].at \notin {"open", "verified"} =>
                    inbox'[conn[q]] # <<>> /\ inbox'[conn[q]][1].kind # "renewed"
               /\ proc[q] = "serving" =>
                    /\ sock'[conn[q]].at \notin {"open", "verified"}
                    /\ \A i \in 1..Len(inbox'[conn[q]]) : inbox'[conn[q]][i].kind = "renewed"
      OBVIOUS
    <3>1. conn[q] \in Conns /\ conn[q] \notin cut
      BY TypedParts DEF Shape, Processes
    <3>2. CASE conn[q] = c
      <4>1. proc[q] = "registering"
        BY <3>2 DEF Shape, Messages
      <4>2. at # "verified" => inbox'[c] # <<>> /\ inbox'[c][1].kind # "renewed"
        BY <1>3, <3>1, <3>2
      <4> QED BY <1>1, <3>2, <4>1, <4>2
    <3>3. CASE conn[q] # c
      <4>1. inbox'[conn[q]] = inbox[conn[q]] /\ sock'[conn[q]].at = sock[conn[q]].at
        BY <1>1, <1>3, <3>1, <3>3
      <4> QED BY <4>1 DEF Shape, Messages
    <3> QED BY <3>2, <3>3
  <2> QED BY <2>1, <2>2 DEF Messages
<1> QED BY <1>4, <1>5, <1>6, <1>7, <1>8, <1>9, <1>10 DEF Shape

LEMMA VerifyStep ==
  ASSUME Typed, Shape, NEW c \in Conns, Verify(c)
  PROVE  Typed' /\ Shape'
<1> DEFINE p == sock[c].id
<1>1. sock[c].at = "open" /\ UNCHANGED <<launcher, cut, entry, tokens>>
  BY DEF Verify
<1>2. refused' \in [Procs -> Refusals]
  <2>1. refused \in [Procs -> Refusals]
    BY DEF Typed
  <2>2. \/ UNCHANGED refused
        \/ refused' = [refused EXCEPT ![p] = "token"]
        \/ refused' = [refused EXCEPT ![p] = "query"]
    BY DEF Verify
  <2> QED BY <2>1, <2>2 DEF Refusals
<1>3. \/ Step(c, "verified") /\ UNCHANGED inbox
      \/ Step(c, "ended") /\ \E k \in {"ok", "failed", "fatal"} : Send(c, Ack(k))
  BY DEF Verify
<1> QED BY <1>1, <1>2, <1>3, AnsweredShape DEF Steps

LEMMA CheckDuplicateStep ==
  ASSUME Typed, Shape, NEW c \in Conns, CheckDuplicate(c)
  PROVE  Typed' /\ Shape'
<1> DEFINE p == sock[c].id
<1>1. sock[c].at = "verified" /\ UNCHANGED <<launcher, cut, entry, tokens>>
  BY DEF CheckDuplicate
<1>2. refused' \in [Procs -> Refusals]
  <2>1. refused \in [Procs -> Refusals]
    BY DEF Typed
  <2>2. \/ UNCHANGED refused
        \/ refused' = [refused EXCEPT ![p] = "another"]
        \/ refused' = [refused EXCEPT ![p] = "itself"]
    BY DEF CheckDuplicate
  <2> QED BY <2>1, <2>2 DEF Refusals
<1>3. \/ Step(c, "checked") /\ Send(c, Ack("ok"))
      \/ Step(c, "ended") /\ Send(c, Ack("fatal"))
  BY DEF CheckDuplicate
<1> QED BY <1>1, <1>2, <1>3, AnsweredShape DEF Steps

LEMMA RegisterLauncherStep ==
  ASSUME Typed, Shape, NEW c \in Conns, RegisterLauncher(c)
  PROVE  Typed' /\ Shape'
<1> USE DEF launcher, tokens
<1> DEFINE p == sock[c].id
           e == [conn |-> c, token |-> token[p]]
<1>1. sock[c].at = "checked" /\ Step(c, "registered") /\ entry' = [entry EXCEPT ![p] = e]
      /\ UNCHANGED <<launcher, cut, inbox, tokens, refused>>
  BY DEF RegisterLauncher
<1>2. p \in Procs /\ token[p] \in Tokens
  BY <1>1, TypedParts DEF Shape, Sockets, Processes
<1>3. e \in EntryState /\ e.conn = c /\ e.token = token[p]
  BY <1>2 DEF EntryState
<1> HIDE DEF e
<1>4. /\ entry' \in [Procs -> EntryState] /\ entry'[p] = e
      /\ \A q \in Procs \ {p} : entry'[q] = entry[q]
  BY <1>1, <1>2, <1>3, EntryShape
<1>5. /\ sock' \in [Conns -> SockState]
      /\ \A d \in Conns : sock'[d].id = sock[d].id
      /\ \A d \in Conns \ {c} : sock'[d].at = sock[d].at
      /\ sock'[c].at = "registered"
  BY <1>1, StepShape DEF Steps
<1>6. Typed'
  BY <1>1, <1>4, <1>5 DEF Typed
<1>7. Processes'
  BY <1>1, <1>5, TypedParts DEF Shape, Processes
<1>8. Sockets'
  BY <1>1, <1>5 DEF Shape, Sockets
<1>9. Entries'
  <2> SUFFICES ASSUME NEW q \in Procs, entry'[q].conn # 0
      PROVE  sock'[entry'[q].conn].at = "registered" /\ sock'[entry'[q].conn].id = q
    BY DEF Entries
  <2>1. CASE q = p
    BY <1>3, <1>4, <1>5, <2>1
  <2>2. CASE q # p
    <3>1. entry'[q] = entry[q] /\ entry[q].conn \in Conns
      BY <1>4, <2>2, TypedParts
    <3>2. sock[entry[q].conn].at = "registered" /\ sock[entry[q].conn].id = q
      BY <3>1 DEF Shape, Entries
    <3> QED BY <1>1, <1>5, <3>1, <3>2
  <2> QED BY <2>1, <2>2
<1>10. Renewals'
  BY <1>1, <1>5, TypedParts DEF Shape, Renewals
<1>11. Newest'
  BY <1>1, <1>2, <1>3, <1>4 DEF Shape, Newest
<1>12. Messages'
  BY <1>1, <1>5, TypedParts DEF Shape, Messages, Processes
<1> QED BY <1>6, <1>7, <1>8, <1>9, <1>10, <1>11, <1>12 DEF Shape

LEMMA SocketEndsStep ==
  ASSUME Typed, Shape, NEW c \in Conns, SocketEnds(c)
  PROVE  Typed' /\ Shape'
<1> USE DEF launcher, tokens
<1> DEFINE p == sock[c].id
<1>1. /\ sock[c].at \in {"open", "registered"} /\ c \in cut /\ Step(c, "ended")
      /\ UNCHANGED <<launcher, cut, inbox, tokens, refused>>
  BY DEF SocketEnds
<1>2. p \in Procs
  BY <1>1, TypedParts DEF Shape, Sockets
<1>3. /\ entry' \in [Procs -> EntryState]
      /\ \A q \in Procs : entry'[q] \in {entry[q], NoEntry}
      /\ sock[c].at = "registered" => entry'[p] = NoEntry
  <2>1. CASE sock[c].at = "registered"
    <3>1. entry' = [entry EXCEPT ![p] = NoEntry]
      BY <2>1 DEF SocketEnds
    <3> QED BY <1>2, <3>1, Constants, EntryShape
  <2>2. CASE sock[c].at # "registered"
    BY <2>2 DEF SocketEnds, Typed
  <2> QED BY <2>1, <2>2
<1>4. /\ sock' \in [Conns -> SockState]
      /\ \A d \in Conns : sock'[d].id = sock[d].id
      /\ \A d \in Conns \ {c} : sock'[d].at = sock[d].at
      /\ sock'[c].at = "ended"
  BY <1>1, StepShape DEF Steps
<1>5. Typed'
  BY <1>1, <1>3, <1>4 DEF Typed
<1>6. Processes'
  BY <1>1, <1>4, TypedParts DEF Shape, Processes
<1>7. Sockets'
  BY <1>1, <1>4 DEF Shape, Sockets
<1>8. Entries'
  <2> SUFFICES ASSUME NEW q \in Procs, entry'[q].conn # 0
      PROVE  sock'[entry'[q].conn].at = "registered" /\ sock'[entry'[q].conn].id = q
    BY DEF Entries
  <2>1. entry'[q] = entry[q] /\ entry[q].conn \in Conns
    BY <1>3, Constants, TypedParts
  <2>2. sock[entry[q].conn].at = "registered" /\ sock[entry[q].conn].id = q
    BY <2>1 DEF Shape, Entries
  <2>3. entry[q].conn # c
    BY <1>3, <2>1, <2>2, Constants
  <2> QED BY <1>4, <2>1, <2>2, <2>3
<1>9. Renewals'
  BY <1>1, <1>4, TypedParts DEF Shape, Renewals
<1>10. Newest'
  <2>1. 1 <= minted
    BY TypedParts DEF Typed
  <2>2. \A q \in Procs : entry'[q].token <= minted
    BY <1>3, <2>1, Constants DEF Shape, Newest
  <2> QED BY <1>1, <2>2 DEF Shape, Newest
<1>11. Messages'
  <2>1. \A q \in Procs : proc[q] \in {"registering", "serving"} =>
          conn[q] \in Conns \ {c}
    BY <1>1, TypedParts DEF Shape, Processes
  <2> QED BY <1>1, <1>4, <2>1 DEF Shape, Messages
<1> QED BY <1>5, <1>6, <1>7, <1>8, <1>9, <1>10, <1>11 DEF Shape

-----------------------------------------------------------------------------
(* The steps of a renewal.                                                  *)

\* A renewal begins with an entry: that of a connection that is registered.
LEMMA BegunShape ==
  ASSUME Typed, Shape, NEW r \in Renewers, NEW p \in Procs, entry[p].conn # 0,
         renewal' = [renewal EXCEPT ![r] =
           [at |-> "mint", id |-> p, conn |-> entry[p].conn,
            old |-> entry[p].token, new |-> 0]],
         UNCHANGED <<launcher, link, entry, valid, minted, refused>>
  PROVE  Typed' /\ Shape'
<1> USE DEF launcher, link
<1> DEFINE x == [at |-> "mint", id |-> p, conn |-> entry[p].conn,
                 old |-> entry[p].token, new |-> 0]
<1>1. entry[p].conn \in Conns /\ entry[p].token \in Tokens /\ entry[p].token # 0
      /\ entry[p].token <= minted
  BY TypedParts DEF Shape, Newest
<1>2. x \in RenewalState /\ x.at = "mint" /\ x.id = p /\ x.conn = entry[p].conn
      /\ x.old = entry[p].token
  BY <1>1 DEF RenewalState
<1> HIDE DEF x
<1>3. /\ renewal' \in [Renewers -> RenewalState] /\ renewal'[r] = x
      /\ \A s \in Renewers \ {r} : renewal'[s] = renewal[s]
  BY <1>2, RenewalShape DEF x
<1>4. Typed'
  BY <1>3 DEF Typed
<1>5. Processes' /\ Sockets' /\ Entries' /\ Messages'
  BY DEF Shape, Processes, Sockets, Entries, Messages
<1>6. Renewals'
  <2> SUFFICES ASSUME NEW s \in Renewers
      PROVE  /\ renewal'[s].at # "idle" =>
                  /\ renewal'[s].id # 0 /\ renewal'[s].conn # 0 /\ renewal'[s].old # 0
                  /\ sock[renewal'[s].conn].at \in {"registered", "ended"}
             /\ renewal'[s].at \notin {"idle", "mint"} =>
                  renewal'[s].old < renewal'[s].new /\ renewal'[s].new <= minted
    BY DEF Renewals
  <2>1. CASE s = r
    <3>1. sock[entry[p].conn].at = "registered" /\ p # 0
      BY TypedParts DEF Shape, Entries
    <3> QED BY <1>1, <1>2, <1>3, <2>1, <3>1
  <2>2. CASE s # r
    BY <1>3, <2>2 DEF Shape, Renewals
  <2> QED BY <2>1, <2>2
<1>7. Newest'
  BY <1>1, <1>2, <1>3 DEF Shape, Newest
<1> QED BY <1>4, <1>5, <1>6, <1>7 DEF Shape

LEMMA HeartbeatRenewsStep ==
  ASSUME Typed, Shape, NEW c \in Conns, HeartbeatRenews(c)
  PROVE  Typed' /\ Shape'
<1>1. sock[c].id \in Procs /\ c \in Renewers
  BY TypedParts DEF HeartbeatRenews, Shape, Sockets
<1> QED BY <1>1, BegunShape DEF HeartbeatRenews

LEMMA RequestRenewsStep ==
  ASSUME Typed, Shape, NEW r \in Requests, RequestRenews(r)
  PROVE  Typed' /\ Shape'
<1>1. r \in Renewers
  BY TypedParts
<1> QED BY <1>1, BegunShape DEF RequestRenews

LEMMA MintStep ==
  ASSUME Typed, Shape, NEW r \in Renewers, Mint(r)
  PROVE  Typed' /\ Shape'
<1> USE DEF launcher, link
<1>1. renewal[r].at = "mint" /\ UNCHANGED <<launcher, link, entry, refused>>
  BY DEF Mint
<1>2. \E x \in RenewalState :
        /\ renewal' = [renewal EXCEPT ![r] = x]
        /\ \/ /\ x = Idle /\ UNCHANGED <<valid, minted>>
           \/ /\ x.at = "revoke" /\ x.id = renewal[r].id /\ x.conn = renewal[r].conn
              /\ x.old = renewal[r].old /\ x.new = minted + 1
              /\ minted <= MaxRenewals
              /\ minted' = minted + 1 /\ valid' = valid \union {minted + 1}
  <2>1. CASE renewal' = [renewal EXCEPT ![r] = Idle] /\ UNCHANGED <<valid, minted>>
    BY <2>1, Constants
  <2>2. CASE /\ minted <= MaxRenewals
             /\ minted' = minted + 1
             /\ valid' = valid \union {minted + 1}
             /\ renewal' = [renewal EXCEPT ![r].at = "revoke", ![r].new = minted + 1]
    <3> DEFINE x == [renewal[r] EXCEPT !.at = "revoke", !.new = minted + 1]
    <3>1. minted + 1 \in Tokens
      BY <2>2, LauncherLinkAssumption DEF Typed, Tokens
    <3>2. /\ x \in RenewalState /\ x.at = "revoke" /\ x.id = renewal[r].id
          /\ x.conn = renewal[r].conn /\ x.old = renewal[r].old /\ x.new = minted + 1
      <4>1. renewal[r] \in RenewalState
        BY TypedParts
      <4> QED BY <3>1, <4>1 DEF RenewalState
    <3>3. renewal' = [renewal EXCEPT ![r] = x]
      <4>1. renewal \in [Renewers -> RenewalState]
        BY DEF Typed
      <4> QED BY <2>2, <4>1
    <3> QED BY <2>2, <3>2, <3>3
  <2> QED BY <2>1, <2>2 DEF Mint
<1>3. PICK x \in RenewalState :
        /\ renewal' = [renewal EXCEPT ![r] = x]
        /\ \/ /\ x = Idle /\ UNCHANGED <<valid, minted>>
           \/ /\ x.at = "revoke" /\ x.id = renewal[r].id /\ x.conn = renewal[r].conn
              /\ x.old = renewal[r].old /\ x.new = minted + 1
              /\ minted <= MaxRenewals
              /\ minted' = minted + 1 /\ valid' = valid \union {minted + 1}
  BY <1>2
<1>4. /\ renewal' \in [Renewers -> RenewalState] /\ renewal'[r] = x
      /\ \A s \in Renewers \ {r} : renewal'[s] = renewal[s]
  BY <1>3, RenewalShape
<1>5. /\ minted \in Nat /\ minted' \in Tokens /\ minted <= minted' /\ minted' \in valid'
      /\ valid' \subseteq Tokens
  <2>1. minted \in Nat /\ minted \in valid /\ minted \in Tokens /\ valid \subseteq Tokens
    BY TypedParts DEF Typed, Shape, Newest
  <2>2. minted <= MaxRenewals => minted + 1 \in Tokens
    BY <2>1, LauncherLinkAssumption DEF Tokens
  <2>3. CASE UNCHANGED <<valid, minted>>
    BY <2>1, <2>3
  <2>4. CASE /\ minted <= MaxRenewals
             /\ minted' = minted + 1 /\ valid' = valid \union {minted + 1}
    BY <2>1, <2>2, <2>4
  <2> QED BY <1>3, <2>3, <2>4
<1>6. Typed'
  BY <1>1, <1>4, <1>5 DEF Typed
<1>7. Processes' /\ Sockets' /\ Entries'
  BY <1>1 DEF Shape, Processes, Sockets, Entries
<1>8. Renewals'
  <2> SUFFICES ASSUME NEW s \in Renewers
      PROVE  /\ renewal'[s].at # "idle" =>
                  /\ renewal'[s].id # 0 /\ renewal'[s].conn # 0 /\ renewal'[s].old # 0
                  /\ sock[renewal'[s].conn].at \in {"registered", "ended"}
             /\ renewal'[s].at \notin {"idle", "mint"} =>
                  renewal'[s].old < renewal'[s].new /\ renewal'[s].new <= minted'
    BY <1>1 DEF Renewals
  <2>1. CASE s = r
    <3>1. renewal[r].id # 0 /\ renewal[r].conn # 0 /\ renewal[r].old # 0
          /\ sock[renewal[r].conn].at \in {"registered", "ended"}
      BY <1>1 DEF Shape, Renewals
    <3>2. renewal[r].old <= minted /\ renewal[r].old \in Nat
      BY TypedParts DEF Shape, Newest
    <3> QED BY <1>3, <1>4, <1>5, <2>1, <3>1, <3>2, Constants
  <2>2. CASE s # r
    <3>1. renewal'[s] = renewal[s] /\ renewal[s].new \in Nat
      BY <1>4, <2>2, TypedParts
    <3>2. minted' \in Nat
      BY <1>5, TypedParts
    <3> QED BY <1>5, <3>1, <3>2 DEF Shape, Renewals
  <2> QED BY <2>1, <2>2
<1>9. Newest'
  <2>1. minted' \in Nat
    BY <1>5, TypedParts
  <2>2. config <= minted' /\ \A p \in Procs : token[p] <= minted' /\ entry[p].token <= minted'
    <3>1. config \in Nat /\ \A p \in Procs : token[p] \in Nat /\ entry[p].token \in Nat
      BY TypedParts DEF Typed
    <3> QED BY <1>5, <2>1, <3>1 DEF Shape, Newest
  <2>3. \A s \in Renewers : renewal'[s].old <= minted'
    <3>1. \A s \in Renewers : renewal[s].old <= minted /\ renewal[s].old \in Nat
      BY TypedParts DEF Shape, Newest
    <3>2. \A s \in Renewers : renewal'[s].old \in {0, renewal[s].old}
      BY <1>3, <1>4, Constants
    <3> QED BY <1>5, <2>1, <3>1, <3>2
  <2> QED BY <1>1, <1>5, <2>2, <2>3 DEF Newest
<1>10. Messages'
  <2>1. minted' \in Nat
    BY <1>5, TypedParts
  <2>2. \A t \in 1..minted : t \in 1..minted'
    BY <1>5, <2>1
  <2> QED BY <1>1, <2>2 DEF Shape, Messages
<1> QED BY <1>6, <1>7, <1>8, <1>9, <1>10 DEF Shape

\* A renewal goes on with what it has.
LEMMA GoesOnShape ==
  ASSUME Typed, NEW r \in Renewers, NEW at \in {"revoke", "update", "push"},
         renewal' = [renewal EXCEPT ![r].at = at]
  PROVE  /\ renewal' \in [Renewers -> RenewalState]
         /\ renewal'[r].at = at
         /\ \A s \in Renewers :
              /\ renewal'[s].id = renewal[s].id /\ renewal'[s].conn = renewal[s].conn
              /\ renewal'[s].old = renewal[s].old /\ renewal'[s].new = renewal[s].new
              /\ s # r => renewal'[s].at = renewal[s].at
<1> DEFINE x == [renewal[r] EXCEPT !.at = at]
<1>1. /\ x \in RenewalState /\ x.at = at
      /\ x.id = renewal[r].id /\ x.conn = renewal[r].conn
      /\ x.old = renewal[r].old /\ x.new = renewal[r].new
  BY TypedParts DEF RenewalState
<1>2. renewal' = [renewal EXCEPT ![r] = x]
  BY DEF Typed
<1> HIDE DEF x
<1> QED BY <1>1, <1>2, RenewalShape

LEMMA RevokeStep ==
  ASSUME Typed, Shape, NEW r \in Renewers, Revoke(r)
  PROVE  Typed' /\ Shape'
<1> USE DEF launcher, link
<1>1. /\ renewal[r].at = "revoke" /\ valid' = valid \ {renewal[r].old}
      /\ UNCHANGED <<launcher, link, entry, minted, refused>>
  BY DEF Revoke
<1>2. /\ renewal' \in [Renewers -> RenewalState]
      /\ renewal'[r].at = "update"
      /\ \A s \in Renewers :
           /\ renewal'[s].id = renewal[s].id /\ renewal'[s].conn = renewal[s].conn
           /\ renewal'[s].old = renewal[s].old /\ renewal'[s].new = renewal[s].new
           /\ s # r => renewal'[s].at = renewal[s].at
  BY GoesOnShape DEF Revoke
<1>3. Typed'
  BY <1>1, <1>2 DEF Typed
<1>4. Processes' /\ Sockets' /\ Entries' /\ Messages'
  BY <1>1 DEF Shape, Processes, Sockets, Entries, Messages
<1>5. Renewals'
  BY <1>1, <1>2 DEF Shape, Renewals
<1>6. Newest'
  <2>1. minted # renewal[r].old
    <3>1. renewal[r].old < renewal[r].new /\ renewal[r].new <= minted
      BY <1>1 DEF Shape, Renewals
    <3>2. renewal[r].old \in Nat /\ renewal[r].new \in Nat /\ minted \in Nat
      BY TypedParts DEF Typed
    <3> QED BY <3>1, <3>2
  <2> QED BY <1>1, <1>2, <2>1 DEF Shape, Newest
<1> QED BY <1>3, <1>4, <1>5, <1>6 DEF Shape

LEMMA UpdateEntryStep ==
  ASSUME Typed, Shape, NEW r \in Renewers, UpdateEntry(r)
  PROVE  Typed' /\ Shape'
<1> USE DEF launcher, link
<1> DEFINE p == renewal[r].id
<1>1. /\ renewal[r].at = "update"
      /\ entry' = IF entry[p].conn = 0 THEN entry
                  ELSE [entry EXCEPT ![p].token = renewal[r].new]
      /\ UNCHANGED <<launcher, link, valid, minted, refused>>
  BY DEF UpdateEntry
<1>2. /\ renewal' \in [Renewers -> RenewalState]
      /\ renewal'[r].at = "push"
      /\ \A s \in Renewers :
           /\ renewal'[s].id = renewal[s].id /\ renewal'[s].conn = renewal[s].conn
           /\ renewal'[s].old = renewal[s].old /\ renewal'[s].new = renewal[s].new
           /\ s # r => renewal'[s].at = renewal[s].at
  BY GoesOnShape DEF UpdateEntry
<1>3. p \in Procs /\ renewal[r].new \in Tokens /\ renewal[r].new <= minted
  <2>1. p # 0 /\ renewal[r].old < renewal[r].new /\ renewal[r].new <= minted
    BY <1>1 DEF Shape, Renewals
  <2>2. renewal[r].old \in Nat
    BY TypedParts
  <2> QED BY <2>1, <2>2, TypedParts
<1>4. /\ entry' \in [Procs -> EntryState]
      /\ \A q \in Procs : entry'[q].conn = entry[q].conn
      /\ \A q \in Procs : entry'[q].token \in {entry[q].token, renewal[r].new}
  <2>1. CASE entry[p].conn = 0
    BY <1>1, <2>1 DEF Typed
  <2>2. CASE entry[p].conn # 0
    <3> DEFINE e == [entry[p] EXCEPT !.token = renewal[r].new]
    <3>1. e \in EntryState /\ e.conn = entry[p].conn /\ e.token = renewal[r].new
      BY <1>3, TypedParts DEF EntryState
    <3>2. entry' = [entry EXCEPT ![p] = e]
      BY <1>1, <2>2 DEF Typed
    <3> HIDE DEF e
    <3> QED BY <1>3, <3>1, <3>2, EntryShape
  <2> QED BY <2>1, <2>2
<1>5. Typed'
  BY <1>1, <1>2, <1>4 DEF Typed
<1>6. Processes' /\ Sockets' /\ Messages'
  BY <1>1 DEF Shape, Processes, Sockets, Messages
<1>7. Entries'
  BY <1>1, <1>4 DEF Shape, Entries
<1>8. Renewals'
  BY <1>1, <1>2 DEF Shape, Renewals
<1>9. Newest'
  BY <1>1, <1>2, <1>3, <1>4 DEF Shape, Newest
<1> QED BY <1>5, <1>6, <1>7, <1>8, <1>9 DEF Shape

LEMMA PushStep ==
  ASSUME Typed, Shape, NEW r \in Renewers, Push(r)
  PROVE  Typed' /\ Shape'
<1> USE DEF launcher
<1> DEFINE c == renewal[r].conn
           m == TokenRenewed(renewal[r].new)
<1>1. /\ renewal[r].at = "push" /\ Send(c, m)
      /\ renewal' = [renewal EXCEPT ![r] = Idle]
      /\ UNCHANGED <<launcher, sock, cut, entry, valid, minted, refused>>
  BY DEF Push
<1>2. /\ c \in Conns /\ sock[c].at \in {"registered", "ended"}
      /\ renewal[r].new \in Tokens /\ renewal[r].new \in 1..minted
  <2>1. /\ c # 0 /\ sock[c].at \in {"registered", "ended"}
        /\ renewal[r].old < renewal[r].new /\ renewal[r].new <= minted
    BY <1>1 DEF Shape, Renewals
  <2>2. renewal[r].old \in Nat /\ minted \in Nat
    BY TypedParts DEF Typed
  <2> QED BY <2>1, <2>2, TypedParts
<1>3. m \in Message /\ m.kind = "renewed" /\ m.token = renewal[r].new
  BY <1>2, Constants
<1>4. /\ renewal' \in [Renewers -> RenewalState] /\ renewal'[r] = Idle
      /\ \A s \in Renewers \ {r} : renewal'[s] = renewal[s]
  BY <1>1, Constants, RenewalShape
<1> HIDE DEF m, c
<1>5. /\ inbox' \in [Conns -> Seq(Message)]
      /\ \A d \in Conns \ {c} : inbox'[d] = inbox[d]
      /\ c \in cut => inbox' = inbox
      /\ c \notin cut =>
           /\ inbox'[c] # <<>>
           /\ Len(inbox'[c]) = Len(inbox[c]) + 1
           /\ \A i \in 1..Len(inbox[c]) : inbox'[c][i] = inbox[c][i]
           /\ inbox'[c][Len(inbox[c]) + 1] = m
  BY <1>1, <1>2, <1>3, SendShape
<1>6. Typed'
  BY <1>1, <1>4, <1>5 DEF Typed
<1>7. Processes' /\ Sockets' /\ Entries'
  BY <1>1 DEF Shape, Processes, Sockets, Entries
<1>8. Renewals'
  BY <1>1, <1>4, Constants DEF Shape, Renewals
<1>9. Newest'
  BY <1>1, <1>4, Constants DEF Shape, Newest, Typed, Tokens
<1>10. \A d \in Conns :
         /\ Len(inbox[d]) \in Nat
         /\ \A i \in 1..Len(inbox'[d]) :
              \/ i \in 1..Len(inbox[d]) /\ inbox'[d][i] = inbox[d][i]
              \/ i = Len(inbox[d]) + 1 /\ inbox'[d][i] = m
         /\ inbox[d] # <<>> => inbox'[d] # <<>> /\ inbox'[d][1] = inbox[d][1]
  <2> TAKE d \in Conns
  <2>1. inbox[d] \in Seq(Message) /\ Len(inbox[d]) \in Nat
        /\ (inbox[d] # <<>> => 1 \in 1..Len(inbox[d]))
    BY TypedParts
  <2>2. CASE inbox'[d] = inbox[d]
    BY <2>1, <2>2
  <2>3. CASE d = c /\ c \notin cut
    BY <1>5, <2>1, <2>3
  <2> QED BY <1>5, <2>2, <2>3
<1>11. Messages'
  <2>1. \A d \in Conns :
       /\ sock[d].at \in {"none", "open", "verified"} => inbox'[d] = <<>>
       /\ \A i \in 1..Len(inbox'[d]) :
            /\ i > 1 => inbox'[d][i].kind = "renewed"
            /\ inbox'[d][i].kind = "renewed" => inbox'[d][i].token \in 1..minted
    <3> TAKE d \in Conns
    <3>1. sock[d].at \in {"none", "open", "verified"} => inbox'[d] = <<>>
      BY <1>2, <1>5 DEF Shape, Messages
    <3>2. ASSUME NEW i \in 1..Len(inbox'[d])
          PROVE  /\ i > 1 => inbox'[d][i].kind = "renewed"
                 /\ inbox'[d][i].kind = "renewed" => inbox'[d][i].token \in 1..minted
      <4>1. CASE i \in 1..Len(inbox[d]) /\ inbox'[d][i] = inbox[d][i]
        BY <4>1 DEF Shape, Messages
      <4>2. CASE inbox'[d][i] = m
        BY <1>2, <1>3, <4>2
      <4> QED BY <1>10, <4>1, <4>2
    <3> QED BY <3>1, <3>2
  <2>2. \A q \in Procs :
       /\ proc[q] = "registering" /\ sock[conn[q]].at \notin {"open", "verified"} =>
            inbox'[conn[q]] # <<>> /\ inbox'[conn[q]][1].kind # "renewed"
       /\ proc[q] = "serving" =>
            /\ sock[conn[q]].at \notin {"open", "verified"}
            /\ \A i \in 1..Len(inbox'[conn[q]]) : inbox'[conn[q]][i].kind = "renewed"
    <3> TAKE q \in Procs
    <3>1. proc[q] \in {"registering", "serving"} => conn[q] \in Conns
      BY TypedParts DEF Shape, Processes
    <3>2. proc[q] = "registering" /\ sock[conn[q]].at \notin {"open", "verified"} =>
            inbox'[conn[q]] # <<>> /\ inbox'[conn[q]][1].kind # "renewed"
      BY <1>10, <3>1 DEF Shape, Messages
    <3>3. ASSUME proc[q] = "serving"
          PROVE  /\ sock[conn[q]].at \notin {"open", "verified"}
                 /\ \A i \in 1..Len(inbox'[conn[q]]) : inbox'[conn[q]][i].kind = "renewed"
      <4>1. /\ sock[conn[q]].at \notin {"open", "verified"}
            /\ \A i \in 1..Len(inbox[conn[q]]) : inbox[conn[q]][i].kind = "renewed"
        BY <3>3 DEF Shape, Messages
      <4> QED BY <1>3, <1>10, <3>1, <3>3, <4>1
    <3> QED BY <3>2, <3>3
  <2> QED BY <1>1, <2>1, <2>2 DEF Messages
<1> QED BY <1>6, <1>7, <1>8, <1>9, <1>11 DEF Shape

-----------------------------------------------------------------------------
(* Theorems.                                                                *)

LEMMA ShapeStep == Typed /\ Shape /\ [Next]_vars => Typed' /\ Shape'
<1> SUFFICES ASSUME Typed, Shape, [Next]_vars PROVE Typed' /\ Shape'
  OBVIOUS
<1>1. CASE Start
  BY <1>1, StartStep
<1>2. CASE BackendRestart
  BY <1>2, BackendRestartStep
<1>3. ASSUME NEW p \in Procs, LauncherStep(p) \/ LinkCut(p) \/ Stop(p)
      PROVE  Typed' /\ Shape'
  BY <1>3, ConnectStep, ReadAckStep, ReceiveTokenStep, LinkCutStep, StopStep DEF LauncherStep
<1>4. ASSUME NEW c \in Conns, BackendStep(c) \/ HeartbeatRenews(c)
      PROVE  Typed' /\ Shape'
  BY <1>4, VerifyStep, CheckDuplicateStep, RegisterLauncherStep, SocketEndsStep,
     HeartbeatRenewsStep DEF BackendStep
<1>5. ASSUME NEW r \in Renewers, RenewalStep(r)
      PROVE  Typed' /\ Shape'
  BY <1>5, MintStep, RevokeStep, UpdateEntryStep, PushStep DEF RenewalStep
<1>6. ASSUME NEW r \in Requests, RequestRenews(r)
      PROVE  Typed' /\ Shape'
  BY <1>6, RequestRenewsStep
<1>7. CASE UNCHANGED vars
  BY <1>7 DEF vars, launcher, link, tokens, Typed, Shape, Processes, Sockets, Entries,
              Renewals, Messages, Newest
<1> QED BY <1>1, <1>2, <1>3, <1>4, <1>5, <1>6, <1>7 DEF Next

\* What may go wrong stays the same.
LEMMA SpecStep == [Next /\ UNCHANGED faults]_<<vars, faults>> => [Next]_vars /\ UNCHANGED faults
OBVIOUS

\* The invariant the theorems follow from, whatever may go wrong.
THEOREM ShapeInvariant == Spec => [](Typed /\ Shape)
<1>1. Init => Typed /\ Shape
  BY InitShape
<1>2. Typed /\ Shape /\ [Next]_vars => (Typed /\ Shape)'
  BY ShapeStep
<1> QED BY <1>1, <1>2, SpecStep, PTL DEF Spec

\* The variables keep their types: an acknowledgment is read before any token, and
\* a renewal is for a connection that was registered.
THEOREM TypeCorrect == Spec => []TypeOK
<1>1. Typed /\ Shape => TypeOK
  BY TypedIsTypeOK
<1> QED BY <1>1, ShapeInvariant, PTL

\* mint_launcher_token and the revocation in token renewal (launcher_socket.rs,
\* launchers.rs): whatever renewals of a launcher's token overlap, fail or are
\* lost with the backend, the token minted last is not revoked.
THEOREM TokenStaysValid == Spec => []ATokenIsValid
<1>1. Typed /\ Shape => ATokenIsValid
  BY DEF Shape, Newest, ATokenIsValid
<1> QED BY <1>1, ShapeInvariant, PTL

LEMMA SoleRegistrationStep ==
  ASSUME "crossing" \notin faults, Typed, Shape, SoleRegistration, [Next]_vars
  PROVE  SoleRegistration'
<1> USE DEF launcher, link, tokens
<1>1. CASE UNCHANGED <<sock, entry>>
  BY <1>1 DEF SoleRegistration
<1>2. ASSUME NEW p \in Procs, Connect(p) PROVE SoleRegistration'
  <2> DEFINE c == conns + 1
  <2>1. c \in Conns
    BY <1>2, LauncherLinkAssumption DEF Connect, Typed, Conns
  <2>2. sock'[c].at = "open" /\ \A d \in Conns \ {c} : sock'[d] = sock[d]
    BY <1>2, <2>1 DEF Connect, Typed
  <2> HIDE DEF c
  <2> QED BY <1>2, <2>2 DEF Connect, SoleRegistration
<1>3. ASSUME NEW c \in Conns, NEW at \in Steps, Step(c, at), UNCHANGED entry,
             at \in {"checked", "registered"} =>
               \A d \in Conns \ {c} : sock[d].at \notin {"checked", "registered"},
             at # "registered"
      PROVE  SoleRegistration'
  <2>1. /\ \A d \in Conns : sock'[d].id = sock[d].id
        /\ \A d \in Conns \ {c} : sock'[d].at = sock[d].at
        /\ sock'[c].at = at
    BY <1>3, StepShape
  <2> QED BY <1>3, <2>1 DEF SoleRegistration
<1>4. ASSUME NEW c \in Conns, Verify(c) PROVE SoleRegistration'
  <2>1. UNCHANGED entry /\ (Step(c, "verified") \/ Step(c, "ended"))
    BY <1>4 DEF Verify
  <2> QED BY <1>3, <2>1 DEF Steps
<1>5. ASSUME NEW c \in Conns, CheckDuplicate(c) PROVE SoleRegistration'
  <2>1. CASE Duplicates = {}
    <3>1. UNCHANGED entry /\ Step(c, "checked")
      BY <1>5, <2>1 DEF CheckDuplicate
    <3>2. \A d \in Conns : sock[d].at # "checked"
      BY <1>5 DEF CheckDuplicate
    <3>3. \A d \in Conns : sock[d].at # "registered"
      <4>1. ASSUME NEW d \in Conns, sock[d].at = "registered" PROVE FALSE
        <5>1. entry[sock[d].id].conn = d /\ d # 0 /\ sock[d].id \in Procs
          BY <4>1, TypedParts DEF SoleRegistration, Shape, Sockets
        <5> QED BY <2>1, <5>1 DEF Duplicates
      <4> QED BY <4>1
    <3> QED BY <1>3, <3>1, <3>2, <3>3 DEF Steps
  <2>2. CASE Duplicates # {}
    BY <1>3, <1>5, <2>2 DEF CheckDuplicate, Steps
  <2> QED BY <2>1, <2>2
<1>6. ASSUME NEW c \in Conns, RegisterLauncher(c) PROVE SoleRegistration'
  <2> DEFINE p == sock[c].id
             e == [conn |-> c, token |-> token[p]]
  <2>1. /\ sock[c].at = "checked" /\ Step(c, "registered")
        /\ entry' = [entry EXCEPT ![p] = e]
    BY <1>6 DEF RegisterLauncher
  <2>2. p \in Procs
    BY <2>1, TypedParts DEF Shape, Sockets
  <2>3. entry'[p].conn = c
    BY <2>1, <2>2 DEF Typed
  <2>4. /\ \A d \in Conns : sock'[d].id = sock[d].id
        /\ \A d \in Conns \ {c} : sock'[d].at = sock[d].at
        /\ sock'[c].at = "registered"
    BY <2>1, StepShape DEF Steps
  <2>5. \A d \in Conns \ {c} : sock'[d].at \notin {"checked", "registered"}
    BY <2>1, <2>4 DEF SoleRegistration
  <2> QED BY <2>3, <2>4, <2>5 DEF SoleRegistration
<1>7. ASSUME NEW c \in Conns, SocketEnds(c) PROVE SoleRegistration'
  <2>1. Step(c, "ended")
    BY <1>7 DEF SocketEnds
  <2>2. /\ \A d \in Conns : sock'[d].id = sock[d].id
        /\ \A d \in Conns \ {c} : sock'[d].at = sock[d].at
        /\ sock'[c].at = "ended"
    BY <2>1, StepShape DEF Steps
  <2>3. CASE sock[c].at = "registered"
    BY <2>2, <2>3 DEF SoleRegistration
  <2>4. CASE sock[c].at = "open"
    <3>1. UNCHANGED entry
      BY <1>7, <2>4 DEF SocketEnds
    <3> QED BY <2>2, <3>1 DEF SoleRegistration
  <2> QED BY <1>7, <2>3, <2>4 DEF SocketEnds
<1>8. CASE BackendRestart
  <2>1. \A c \in Conns : sock'[c].at \in {"none", "ended"}
    <3> TAKE c \in Conns
    <3>1. sock[c] \in SockState
      BY TypedParts
    <3>2. sock'[c] = IF sock[c].at = "none" THEN sock[c] ELSE [sock[c] EXCEPT !.at = "ended"]
      BY <1>8 DEF BackendRestart
    <3> QED BY <3>1, <3>2 DEF SockState
  <2> QED BY <2>1 DEF SoleRegistration
<1>9. ASSUME NEW r \in Renewers, UpdateEntry(r) PROVE SoleRegistration'
  <2>1. UNCHANGED sock /\ \A p \in Procs : entry'[p].conn = entry[p].conn
    <3> DEFINE p == renewal[r].id
    <3>1. CASE entry[p].conn = 0
      BY <1>9, <3>1 DEF UpdateEntry
    <3>2. CASE entry[p].conn # 0
      <4>1. entry' = [entry EXCEPT ![p].token = renewal[r].new] /\ UNCHANGED sock
        BY <1>9, <3>2 DEF UpdateEntry
      <4>2. \A q \in Procs : entry'[q] \in {entry[q], [entry[q] EXCEPT !.token = renewal[r].new]}
        BY <4>1 DEF Typed
      <4>3. \A q \in Procs : [entry[q] EXCEPT !.token = renewal[r].new].conn = entry[q].conn
        <5> TAKE q \in Procs
        <5>1. entry[q] \in EntryState
          BY TypedParts
        <5> QED BY <5>1 DEF EntryState
      <4> QED BY <4>1, <4>2, <4>3
    <3> QED BY <3>1, <3>2
  <2>2. \A c \in Conns : sock[c].at = "registered" => sock[c].id \in Procs
    BY TypedParts DEF Shape, Sockets
  <2> QED BY <2>1, <2>2 DEF SoleRegistration
<1>10. \/ UNCHANGED <<sock, entry>>
       \/ \E p \in Procs : Connect(p)
       \/ \E c \in Conns : BackendStep(c)
       \/ BackendRestart
       \/ \E r \in Renewers : UpdateEntry(r)
  BY DEF Next, vars, LauncherStep, RenewalStep, Start, ReadAck, ReceiveToken, LinkCut, Stop,
         HeartbeatRenews, RequestRenews, Mint, Revoke, Push
<1> QED BY <1>1, <1>2, <1>4, <1>5, <1>6, <1>7, <1>8, <1>9, <1>10 DEF BackendStep

\* "only one launcher per (hostname, user) is allowed" (launcher_socket.rs), and the
\* one that serves is reached through its entry: unless two registrations cross
\* between find_duplicate_launcher and register_launcher, whatever else goes wrong.
THEOREM SoleLauncher == Spec => []OneReachableLauncher
<1> DEFINE I == "crossing" \notin faults => SoleRegistration
<1>1. Init => I
  BY DEF Init, SoleRegistration
<1>2. Typed /\ Shape /\ I /\ [Next]_vars /\ UNCHANGED faults => I'
  BY SoleRegistrationStep
<1>3. Typed /\ Shape /\ I => OneReachableLauncher
  <2> SUFFICES ASSUME Typed, Shape, SoleRegistration PROVE OneLauncher /\ ServingIsRegistered
    BY DEF OneReachableLauncher
  <2>1. DOMAIN entry = Procs /\ DOMAIN proc = Procs
    BY DEF Typed
  <2>2. OneLauncher
    BY <2>1, TypedParts DEF OneLauncher, Shape, Entries, SoleRegistration
  <2>3. ServingIsRegistered
    BY <2>1, TypedParts DEF ServingIsRegistered, Shape, Processes, SoleRegistration
  <2> QED BY <2>2, <2>3
<1> HIDE DEF I
<1> QED BY <1>1, <1>2, <1>3, ShapeInvariant, SpecStep, PTL DEF Spec

LEMMA SoleConnectionStep ==
  ASSUME {"second", "half_open"} \intersect faults = {},
         Typed, Shape, SoleConnection, [Next]_vars
  PROVE  SoleConnection'
<1> USE DEF launcher, link, tokens
<1>1. CASE UNCHANGED <<proc, conn, conns, sock, cut, refused>>
  BY <1>1 DEF SoleConnection, Running, NotRefusedForItself
<1>2. conns \in Nat /\ 1..conns \subseteq Conns
  BY LauncherLinkAssumption DEF Typed, Conns
<1>3. CASE Start
  <2>1. started + 1 \in Procs /\ \A p \in Procs : ~Running(p)
    BY <1>3, LauncherLinkAssumption DEF Start, Typed, Procs
  <2>2. \A p \in Procs : p # started + 1 => proc'[p] = proc[p]
    BY <1>3, <2>1 DEF Start, Typed
  <2>3. \A p, q \in Procs : Running(p)' /\ Running(q)' => p = q
    BY <2>1, <2>2 DEF Running
  <2> QED BY <1>3, <2>3 DEF Start, SoleConnection, NotRefusedForItself
<1>4. ASSUME NEW p \in Procs, Connect(p) PROVE SoleConnection'
  <2> DEFINE c == conns + 1
  <2>1. c \in Conns /\ proc[p] = "down"
    BY <1>4, LauncherLinkAssumption DEF Connect, Typed, Conns
  <2>2. /\ sock'[c].at = "open" /\ sock'[c].id = p
        /\ \A d \in Conns \ {c} : sock'[d] = sock[d]
        /\ conns' = c /\ cut' = cut /\ refused' = refused
        /\ conn'[p] = c /\ proc'[p] = "registering"
        /\ \A q \in Procs \ {p} : conn'[q] = conn[q] /\ proc'[q] = proc[q]
    BY <1>4, <2>1 DEF Connect, Typed
  <2>3. \A d \in 1..conns : d \in cut
    <3> SUFFICES ASSUME NEW d \in 1..conns, d \notin cut PROVE FALSE
      OBVIOUS
    <3>1. conn[sock[d].id] = d /\ d # 0 /\ sock[d].id \in Procs
      BY <1>2, TypedParts DEF SoleConnection, Shape, Sockets
    <3>2. Running(sock[d].id) /\ proc[sock[d].id] # "down"
      BY <3>1 DEF Shape, Processes, Running
    <3> QED BY <2>1, <3>1, <3>2 DEF SoleConnection, Running
  <2>4. \A d \in 1..conns : sock[d].at = "ended"
    BY <1>4, <2>3 DEF Connect
  <2>5. \A d \in 1..c : d \in 1..conns \/ d = c
    BY <1>2
  <2>6. \A d \in 1..conns : d # c /\ sock'[d] = sock[d]
    BY <1>2, <2>2
  <2>7. \A q \in Procs : Running(q)' => Running(q)
    BY <2>1, <2>2 DEF Running
  <2> HIDE DEF c
  <2>8. \A d \in 1..c : /\ d \notin cut' => conn'[sock'[d].id] = d
                        /\ sock'[d].at # "none" /\ (d < c => sock'[d].at = "ended")
    BY <1>2, <2>2, <2>3, <2>4, <2>5, <2>6
  <2> QED BY <2>2, <2>7, <2>8 DEF SoleConnection, NotRefusedForItself
<1>5. ASSUME NEW p \in Procs, NEW s \in {"down", "exited"}, Running(p),
             proc' = [proc EXCEPT ![p] = s], conn' = [conn EXCEPT ![p] = 0],
             cut' = cut \union ({conn[p]} \ {0}), UNCHANGED <<conns, sock, refused>>
      PROVE  SoleConnection'
  <2>1. \A q \in Procs : Running(q)' => Running(q)
    BY <1>5 DEF Running, Typed
  <2>2. \A q \in Procs : conn'[q] = IF q = p THEN 0 ELSE conn[q]
    BY <1>5 DEF Typed
  <2>3. \A c \in 1..conns : c # 0 /\ sock[c].id \in Procs
    BY <1>2, TypedParts DEF SoleConnection, Shape, Sockets
  <2>4. \A c \in 1..conns : c \notin cut' => conn'[sock[c].id] = c
    BY <1>5, <2>2, <2>3 DEF SoleConnection
  <2> QED BY <1>5, <2>1, <2>4 DEF SoleConnection, NotRefusedForItself
<1>6. ASSUME NEW p \in Procs, ReadAck(p) PROVE SoleConnection'
  <2>1. Running(p) /\ conn[p] # 0
    BY <1>6 DEF ReadAck, Running, Shape, Processes
  <2>2. Head(inbox[conn[p]]).kind \in {"ok", "failed", "fatal"}
    <3>1. conn[p] \in Conns /\ inbox[conn[p]] # <<>>
          /\ inbox' = [inbox EXCEPT ![conn[p]] = Tail(@)]
      BY <1>6, <2>1, TypedParts DEF ReadAck
    <3>2. Head(inbox[conn[p]]) = inbox[conn[p]][1] /\ inbox[conn[p]][1] \in Message
      BY <3>1, ReadShape
    <3>3. inbox[conn[p]][1].kind # "renewed"
      BY <1>6, <3>1 DEF ReadAck, Shape, Messages
    <3> QED BY <3>2, <3>3 DEF Message
  <2>3. CASE Head(inbox[conn[p]]).kind = "ok"
    <3>1. UNCHANGED <<conn, cut, conns, sock, refused>> /\ proc' = [proc EXCEPT ![p] = "serving"]
      BY <1>6, <2>3 DEF ReadAck
    <3>2. \A q \in Procs : Running(q)' => Running(q)
      BY <2>1, <3>1 DEF Running, Typed
    <3> QED BY <3>1, <3>2 DEF SoleConnection, NotRefusedForItself
  <2>4. CASE Head(inbox[conn[p]]).kind # "ok"
    <3>1. /\ conn' = [conn EXCEPT ![p] = 0] /\ cut' = cut \union {conn[p]}
          /\ UNCHANGED <<conns, sock, refused>>
          /\ \/ proc' = [proc EXCEPT ![p] = "down"]
             \/ proc' = [proc EXCEPT ![p] = "exited"]
      BY <1>6, <2>2, <2>4 DEF ReadAck
    <3>2. cut' = cut \union ({conn[p]} \ {0})
      BY <2>1, <3>1
    <3> QED BY <1>5, <2>1, <3>1, <3>2
  <2> QED BY <2>3, <2>4
<1>7. ASSUME NEW p \in Procs, LinkCut(p) PROVE SoleConnection'
  <2>1. Running(p) /\ cut' = cut \union ({conn[p]} \ {0})
    BY <1>7 DEF LinkCut, Running, Shape, Processes
  <2> QED BY <1>5, <1>7, <2>1 DEF LinkCut
<1>8. ASSUME NEW p \in Procs, Stop(p) PROVE SoleConnection'
  BY <1>5, <1>8 DEF Stop
<1>9. ASSUME NEW c \in Conns, NEW at \in Steps \ {"none"}, Step(c, at),
             sock[c].at \notin {"none", "ended"},
             UNCHANGED <<proc, conn, conns, cut>>, NotRefusedForItself'
      PROVE  SoleConnection'
  <2>1. /\ \A d \in Conns : sock'[d].id = sock[d].id
        /\ \A d \in Conns \ {c} : sock'[d].at = sock[d].at
        /\ sock'[c].at = at
    BY <1>9, StepShape
  <2>2. c \in 1..conns /\ ~(c < conns)
    BY <1>2, <1>9, TypedParts DEF Shape, Sockets, SoleConnection
  <2>3. \A d \in 1..conns : /\ d \notin cut => conn[sock'[d].id] = d
                            /\ sock'[d].at # "none" /\ (d < conns => sock'[d].at = "ended")
    BY <1>2, <1>9, <2>1, <2>2 DEF SoleConnection
  <2> QED BY <1>9, <2>3 DEF SoleConnection, Running
<1>10. ASSUME NEW c \in Conns, Verify(c) PROVE SoleConnection'
  <2>1. NotRefusedForItself'
    BY <1>10 DEF Verify, NotRefusedForItself, SoleConnection, Typed
  <2>2. Step(c, "verified") \/ Step(c, "ended")
    BY <1>10 DEF Verify
  <2> QED BY <1>9, <1>10, <2>1, <2>2 DEF Verify, Steps
<1>11. ASSUME NEW c \in Conns, CheckDuplicate(c) PROVE SoleConnection'
  <2>1. \A d \in Conns : sock[d].at # "registered"
    <3>1. c \in 1..conns /\ ~(c < conns)
      BY <1>2, <1>11, TypedParts DEF CheckDuplicate, Shape, Sockets, SoleConnection
    <3>2. \A d \in Conns : d < conns \/ d = c \/ d > conns
      BY <1>2, <3>1, TypedParts
    <3>3. \A d \in Conns : d < conns => d \in 1..conns
      BY <1>2, TypedParts
    <3>4. \A d \in Conns : d > conns => sock[d].at = "none"
      BY <1>2, TypedParts DEF Shape, Sockets
    <3> QED BY <1>11, <3>2, <3>3, <3>4 DEF CheckDuplicate, SoleConnection
  <2>2. Duplicates = {}
    BY <2>1, TypedParts DEF Duplicates, Shape, Entries
  <2>3. Step(c, "checked") /\ UNCHANGED refused
    BY <1>11, <2>2 DEF CheckDuplicate
  <2>4. NotRefusedForItself'
    BY <2>3 DEF NotRefusedForItself, SoleConnection
  <2> QED BY <1>9, <1>11, <2>3, <2>4 DEF CheckDuplicate, Steps
<1>12. ASSUME NEW c \in Conns, RegisterLauncher(c) PROVE SoleConnection'
  <2>1. NotRefusedForItself'
    BY <1>12 DEF RegisterLauncher, NotRefusedForItself, SoleConnection
  <2> QED BY <1>9, <1>12, <2>1 DEF RegisterLauncher, Steps
<1>13. ASSUME NEW c \in Conns, SocketEnds(c) PROVE SoleConnection'
  <2>1. NotRefusedForItself'
    BY <1>13 DEF SocketEnds, NotRefusedForItself, SoleConnection
  <2> QED BY <1>9, <1>13, <2>1 DEF SocketEnds, Steps
<1>14. CASE BackendRestart
  <2>1. \A c \in 1..conns : c \in cut' /\ sock'[c].at = "ended"
    <3> TAKE c \in 1..conns
    <3>1. sock[c].at # "none" /\ c \in Conns
      BY <1>2 DEF SoleConnection
    <3>2. sock[c] \in SockState
      BY <3>1, TypedParts
    <3>3. sock'[c] = [sock[c] EXCEPT !.at = "ended"] /\ c \in cut'
      BY <1>14, <3>1 DEF BackendRestart
    <3> QED BY <3>2, <3>3 DEF SockState
  <2>2. \A p \in Procs : Running(p)' => Running(p)
    BY <1>14 DEF BackendRestart, Running, Shape, Processes
  <2> QED BY <1>14, <2>1, <2>2 DEF BackendRestart, SoleConnection, NotRefusedForItself
<1>15. \/ UNCHANGED <<proc, conn, conns, sock, cut, refused>>
       \/ Start \/ BackendRestart
       \/ \E p \in Procs : Connect(p) \/ ReadAck(p) \/ LinkCut(p) \/ Stop(p)
       \/ \E c \in Conns : BackendStep(c)
  BY DEF Next, vars, LauncherStep, RenewalStep, ReceiveToken,
         HeartbeatRenews, RequestRenews, Mint, Revoke, UpdateEntry, Push
<1> QED BY <1>1, <1>3, <1>4, <1>6, <1>7, <1>8, <1>10, <1>11, <1>12, <1>13, <1>14, <1>15
        DEF BackendStep

\* find_duplicate_launcher (launcher_socket.rs) and the reconnects of connection.rs:
\* a launcher that is alone on its host, and whose backend notices the end of a
\* connection before the next one, is never refused for an entry of its own or of
\* a process that is gone, whatever else fails or restarts.
THEOREM OwnEntryNoObstacle == Spec => []OwnEntryIsNoObstacle
<1> DEFINE I == {"second", "half_open"} \intersect faults = {} => SoleConnection
<1>1. Init => I
  BY DEF Init, SoleConnection, Running, NotRefusedForItself
<1>2. Typed /\ Shape /\ I /\ [Next]_vars /\ UNCHANGED faults => I'
  BY SoleConnectionStep
<1>3. I => OwnEntryIsNoObstacle
  BY DEF SoleConnection, OwnEntryIsNoObstacle
<1> HIDE DEF I
<1> QED BY <1>1, <1>2, <1>3, ShapeInvariant, SpecStep, PTL DEF Spec

-----------------------------------------------------------------------------
(* The launch dialog.                                                       *)

FetchStates == {"asked", "waiting", "lost", "listed", "failed", "done"}
FetchState == [at : FetchStates, launcher : Launchers, path : Paths, update : BOOLEAN]
Listings == [launcher : Launchers, dir : Seq(STRING), names : SUBSET STRING]

BrowserState ==
  [path : Paths, entries : Listings \cup {Nothing}, loading : BOOLEAN, error : BOOLEAN]

DialogTypes ==
  /\ connected \subseteq Launchers /\ offered \subseteq Launchers
  /\ dialog \in {"opening", "launch", "install", "closed"}
  /\ selected \in Launchers \cup {0} /\ (dialog = "launch" => selected # 0)
  /\ browser \in BrowserState
  /\ debounce = NoTimer \/ debounce \in [set : {TRUE}, launcher : Launchers, path : Paths]
  /\ fetches \in Seq(FetchState)
  /\ launching \in [asked : BOOLEAN, launcher : Nat, path : Paths]

AllDone == \A i \in 1..Len(fetches) : fetches[i].at = "done"

\* One thing at a time is awaited, and it is what the form shows that was asked for.
OneAtATime ==
  /\ \A i \in 1..Len(fetches) : fetches[i].at # "done" =>
       /\ i = Len(fetches) /\ ~debounce.set /\ ~launching.asked
       /\ fetches[i].launcher = selected
       /\ fetches[i].update => fetches[i].path.rest \in {"", "~"}
       /\ ~fetches[i].update => fetches[i].path = browser.path
  /\ debounce.set =>
       debounce.launcher = selected /\ debounce.path = browser.path /\ ~launching.asked
  /\ dialog = "opening" => fetches = <<>> /\ ~debounce.set /\ ~launching.asked

\* What was listed is there.
Answers ==
  /\ \A i \in 1..Len(fetches) : fetches[i].at = "listed" =>
       Found(fetches[i].launcher, fetches[i].path)
  /\ browser.entries # Nothing => browser.entries.dir \in Tree[browser.entries.launcher]

\* What is shown is what the path names; what is launched, or about to be, is there.
AreThere ==
  /\ dialog = "launch" /\ ~browser.loading /\ ~browser.error /\ browser.entries # Nothing
     /\ ~debounce.set /\ AllDone => browser.entries = list_directory(selected, browser.path)
  /\ launching.asked =>
       /\ launching.launcher \in Launchers
       /\ launching.path.rest = "" /\ launching.path.dir \in Tree[launching.launcher]
  /\ LaunchedIsThere

DialogInv == DialogTypes /\ Answers /\ (Patient => OneAtATime /\ AreThere)

-----------------------------------------------------------------------------
\* The lowest of some numbers is one of them.
LEMMA LowestIsMember ==
  ASSUME NEW S, S \subseteq Nat, S # {}
  PROVE  Lowest(S) \in S
<1>1. IsWellFoundedOn(OpToRel(<, Nat), Nat)
  BY NatLessThanWellFounded
<1>2. PICK l \in S : \A m \in S : ~(<<m, l>> \in OpToRel(<, Nat))
  <2> DEFINE R == OpToRel(<, Nat)
  <2>1. IsWellFoundedOn(R, Nat)
    BY <1>1
  <2> HIDE DEF R
  <2>2. \E l \in S : \A m \in S : ~(<<m, l>> \in R)
    BY <2>1, WFMin
  <2> QED BY <2>2 DEF R
<1>3. \A m \in S : l <= m
  <2> SUFFICES ASSUME NEW m \in S, m < l PROVE FALSE
    OBVIOUS
  <2>1. OpToRel(<, Nat) = {ss \in Nat \X Nat : ss[1] < ss[2]}
    BY Zenon DEF OpToRel
  <2>2. <<m, l>> \in {ss \in Nat \X Nat : ss[1] < ss[2]}
    OBVIOUS
  <2> QED BY <1>2, <2>1, <2>2, Zenon
<1> QED BY <1>3 DEF Lowest

LEMMA Texts ==
  /\ Tilde \in Paths
  /\ \A d \in Seq(STRING), r \in {"", "~"} \union STRING :
       Text(d, r) \in Paths /\ Text(d, r).dir = d /\ Text(d, r).rest = r
  /\ \A d \in Seq(STRING) : Text(d, "") # Tilde
  /\ \A p \in Paths : p.dir \in Seq(STRING)
<1>1. <<>> \in Seq(STRING)
  BY EmptySeq
<1> QED BY <1>1 DEF Tilde, Text, Paths

\* A listing is of the launcher and the directory that it was asked for, and the same as
\* that of the directory it names.
LEMMA ListingIs ==
  ASSUME NEW l \in Launchers, NEW p \in Paths
  PROVE  LET listing == list_directory(l, p) IN
         /\ listing \in Listings /\ listing.launcher = l
         /\ listing.dir = Resolved(l, p) /\ listing # Nothing
         /\ p.rest \in {"", "~"} =>
              list_directory(l, Text(listing.dir, "")) = listing
<1> DEFINE dir == Resolved(l, p)
<1>1. dir \in Seq(STRING)
  BY Texts, LaunchDialogAssumption DEF Resolved
<1>2. Names(l, dir) \subseteq STRING
  <2> SUFFICES ASSUME NEW d \in Tree[l], d # <<>> PROVE Last(d) \in STRING
    BY DEF Names
  <2>1. d \in Seq(STRING)
    BY LaunchDialogAssumption
  <2>2. Len(d) \in 1..Len(d)
    BY <2>1, EmptySeq
  <2> QED BY <2>1, <2>2, ElementOfSeq DEF Last
<1>3. 0 \notin Launchers
  BY LaunchDialogAssumption
<1> DEFINE found == {n \in Names(l, dir) : p.rest \in {"", "~", n}}
<1>3a. found \subseteq STRING
  BY <1>2
<1>5. list_directory(l, p) = [launcher |-> l, dir |-> dir, names |-> found]
  BY Zenon DEF list_directory
<1> HIDE DEF dir, found
<1>4. Resolved(l, Text(dir, "")) = dir /\ Text(dir, "").rest = ""
  <2>1. Text(dir, "").dir = dir /\ Text(dir, "").rest = "" /\ Text(dir, "") # Tilde
    BY <1>1, Texts
  <2> QED BY <2>1 DEF Resolved
<1>6. ASSUME p.rest \in {"", "~"}
      PROVE  list_directory(l, Text(dir, "")) = list_directory(l, p)
  <2> DEFINE all == {n \in Names(l, dir) : Text(dir, "").rest \in {"", "~", n}}
  <2>1. found = Names(l, dir)
    BY <1>6 DEF found
  <2>2. all = Names(l, dir)
    BY <1>4
  <2>3. list_directory(l, Text(dir, "")) =
          [launcher |-> l, dir |-> Resolved(l, Text(dir, "")),
           names |-> {n \in Names(l, Resolved(l, Text(dir, ""))) :
                        Text(dir, "").rest \in {"", "~", n}}]
    BY Zenon DEF list_directory
  <2>4. list_directory(l, Text(dir, "")) = [launcher |-> l, dir |-> dir, names |-> all]
    BY <1>4, <2>3, Zenon
  <2> QED BY <2>1, <2>2, <2>4, <1>5, Zenon
<1>7. list_directory(l, p) \in Listings
  BY <1>1, <1>3a, <1>5 DEF Listings
<1>8. list_directory(l, p).launcher = l /\ list_directory(l, p).dir = dir
  BY <1>5
<1>9. list_directory(l, p) # Nothing
  BY <1>3, <1>8 DEF Nothing
<1> QED BY <1>6, <1>7, <1>8, <1>9 DEF dir

-----------------------------------------------------------------------------
LEMMA LInitKeeps == LInit => DialogInv
<1> SUFFICES ASSUME LInit PROVE DialogInv
  OBVIOUS
<1>1. Nothing \in Listings \cup {Nothing} /\ <<>> \in Seq(FetchState) /\ Len(<<>>) = 0
  BY EmptySeq
<1>2. DialogTypes
  BY <1>1, Texts DEF LInit, DialogTypes, BrowserState, NoLaunch
<1>3. OneAtATime /\ AreThere /\ Answers
  BY <1>1 DEF LInit, OneAtATime, AreThere, Answers, NoTimer, NoLaunch, LaunchedIsThere
<1> QED BY <1>2, <1>3 DEF DialogInv

LEMMA LastOrBefore ==
  ASSUME NEW n \in Nat, NEW i \in 1..(n + 1)
  PROVE  i \in 1..n \/ i = n + 1
OBVIOUS

LEMMA OneMore ==
  ASSUME NEW q \in Seq(FetchState), NEW f \in FetchState
  PROVE  /\ Append(q, f) \in Seq(FetchState) /\ Len(Append(q, f)) = Len(q) + 1
         /\ \A i \in 1..Len(q) : Append(q, f)[i] = q[i]
         /\ Append(q, f)[Len(q) + 1] = f
BY AppendProperties

\* A listing is asked for when nothing is waited for.
LEMMA FetchKeeps ==
  ASSUME DialogInv, NEW l \in Launchers, NEW path \in Paths, NEW update \in BOOLEAN,
         NEW b \in BrowserState, b.entries = browser.entries, Fetch(l, path, update, b),
         connected' \subseteq Launchers, offered' \subseteq Launchers,
         dialog' \in {"opening", "launch", "install", "closed"},
         selected' \in Launchers \cup {0}, dialog' = "launch" => selected' # 0,
         debounce' \in {debounce, NoTimer},
         launching' = launching, launched' = launched,
         Patient => /\ dialog' # "opening" /\ selected' = l
                    /\ ~debounce'.set /\ ~launching.asked /\ AllDone
                    /\ update = TRUE => path.rest \in {"", "~"}
                    /\ update = FALSE => path = b.path
  PROVE  DialogInv'
<1> DEFINE f == [at |-> "asked", launcher |-> l, path |-> path, update |-> update]
           c == [b EXCEPT !.loading = TRUE, !.error = FALSE]
           n == Len(fetches)
<1>1. f \in FetchState /\ f.at = "asked" /\ f.launcher = l /\ f.path = path /\ f.update = update
  BY DEF FetchState, FetchStates
<1>2. c \in BrowserState /\ c.path = b.path /\ c.entries = b.entries /\ c.loading = TRUE
  BY DEF BrowserState
<1>3. fetches' = Append(fetches, f) /\ browser' = c
  BY DEF Fetch
<1> HIDE DEF f, c
<1>4. /\ fetches' \in Seq(FetchState) /\ Len(fetches') = n + 1 /\ n \in Nat
      /\ fetches'[n + 1] = f
      /\ \A i \in 1..n : fetches'[i] = fetches[i]
  <2>1. fetches \in Seq(FetchState)
    BY DEF DialogInv, DialogTypes
  <2>2. /\ Append(fetches, f) \in Seq(FetchState)
        /\ Len(Append(fetches, f)) = Len(fetches) + 1
        /\ \A i \in 1..Len(fetches) : Append(fetches, f)[i] = fetches[i]
        /\ Append(fetches, f)[Len(fetches) + 1] = f
    BY <1>1, <2>1, OneMore
  <2>3. Len(fetches) \in Nat
    BY <2>1, LenProperties
  <2> QED BY <1>3, <2>2, <2>3
<1> HIDE DEF n
<1>5. DialogTypes'
  BY <1>2, <1>3, <1>4 DEF DialogInv, DialogTypes
<1>6. ASSUME NEW i \in 1..Len(fetches')
      PROVE  (i \in 1..n /\ fetches'[i] = fetches[i]) \/ (i = n + 1 /\ fetches'[i] = f)
  <2>1. n \in Nat /\ Len(fetches') = n + 1
    BY <1>4
  <2>2. i \in 1..(n + 1)
    BY <2>1, Zenon
  <2>3. i \in 1..n \/ i = n + 1
    BY <2>1, <2>2, LastOrBefore
  <2>4. fetches'[n + 1] = f /\ \A k \in 1..n : fetches'[k] = fetches[k]
    BY <1>4
  <2> QED BY <2>3, <2>4
<1>7. browser'.entries = browser.entries /\ browser'.loading = TRUE
  BY <1>2, <1>3
<1>8. Answers'
  <2>1. \A i \in 1..n : fetches[i].at = "listed" => Found(fetches[i].launcher, fetches[i].path)
    BY DEF DialogInv, Answers, n
  <2>2. \A i \in 1..Len(fetches') : fetches'[i].at = "listed" =>
          Found(fetches'[i].launcher, fetches'[i].path)
    BY <1>1, <1>6, <2>1
  <2> QED BY <1>7, <2>2 DEF DialogInv, Answers
<1>9. ASSUME Patient
      PROVE  OneAtATime' /\ AreThere'
  <2>1. AllDone /\ ~launching.asked
    BY <1>9
  <2>2. \A i \in 1..n : fetches[i].at = "done"
    BY <2>1 DEF AllDone, n
  <2>3. /\ f.update => f.path.rest \in {"", "~"}
        /\ ~f.update => f.path = c.path
    <3>1. CASE update = TRUE
      BY <1>1, <1>9, <3>1
    <3>2. CASE update = FALSE
      BY <1>1, <1>2, <1>9, <3>2
    <3> QED BY <3>1, <3>2
  <2>4. ASSUME NEW i \in 1..Len(fetches'), fetches'[i].at # "done"
        PROVE  /\ i = Len(fetches') /\ ~debounce'.set /\ ~launching'.asked
               /\ fetches'[i].launcher = selected'
               /\ fetches'[i].update => fetches'[i].path.rest \in {"", "~"}
               /\ ~fetches'[i].update => fetches'[i].path = browser'.path
    <3>1. i = Len(fetches') /\ fetches'[i] = f
      BY <1>4, <1>6, <2>2, <2>4
    <3>2. ~debounce'.set /\ ~launching'.asked
      BY <1>9, <2>1
    <3>3. f.launcher = selected' /\ browser' = c
      BY <1>1, <1>3, <1>9
    <3> QED BY <3>1, <3>2, <3>3, <2>3
  <2>5. ~debounce'.set /\ dialog' # "opening"
    BY <1>9
  <2>6. OneAtATime'
    BY <2>4, <2>5 DEF OneAtATime
  <2>7. AreThere /\ ~launching'.asked
    BY <1>9, <2>1 DEF DialogInv
  <2>8. AreThere'
    BY <1>7, <2>7 DEF AreThere, LaunchedIsThere
  <2> QED BY <2>6, <2>8
<1> QED BY <1>5, <1>8, <1>9 DEF DialogInv

\* Fetches go on, none of them to its end.
FetchGoesOn(i) ==
  /\ fetches'[i] = [fetches[i] EXCEPT !.at = fetches'[i].at]
  /\ fetches'[i].at \in FetchStates
  /\ fetches'[i].at = "listed" => Found(fetches[i].launcher, fetches[i].path)
  /\ fetches'[i].at = "done" <=> fetches[i].at = "done"

LEMMA GoesOnKeeps ==
  ASSUME DialogInv, fetches' = [i \in DOMAIN fetches |-> fetches'[i]],
         \A i \in DOMAIN fetches : FetchGoesOn(i),
         connected' \subseteq Launchers, UNCHANGED <<form, browser, debounce, launch>>
  PROVE  DialogInv'
<1>1. fetches \in Seq(FetchState)
  BY DEF DialogInv, DialogTypes
<1>2. /\ DOMAIN fetches = 1..Len(fetches) /\ Len(fetches) \in Nat
      /\ \A i \in 1..Len(fetches) : fetches[i] \in FetchState
  BY <1>1, LenProperties, ElementOfSeq
<1>3. ASSUME NEW i \in DOMAIN fetches
      PROVE  /\ fetches'[i] \in FetchState
             /\ fetches'[i].launcher = fetches[i].launcher
             /\ fetches'[i].path = fetches[i].path /\ fetches'[i].update = fetches[i].update
             /\ fetches'[i].at = "listed" => Found(fetches[i].launcher, fetches[i].path)
             /\ fetches'[i].at = "done" <=> fetches[i].at = "done"
  <2> DEFINE at == fetches'[i].at
  <2>1. /\ fetches'[i] = [fetches[i] EXCEPT !.at = at] /\ at \in FetchStates
        /\ at = "listed" => Found(fetches[i].launcher, fetches[i].path)
        /\ at = "done" <=> fetches[i].at = "done"
    BY DEF FetchGoesOn
  <2>2. fetches[i] \in FetchState
    BY <1>2
  <2> HIDE DEF at
  <2>3. fetches'[i].at = at
    BY DEF at
  <2> QED BY <2>1, <2>2, <2>3 DEF FetchState
<1>4. fetches' \in [1..Len(fetches) -> FetchState]
  BY <1>2, <1>3
<1>5. fetches' \in Seq(FetchState) /\ Len(fetches') = Len(fetches)
  <2>1. \A q \in [1..Len(fetches) -> FetchState] : q \in Seq(FetchState) /\ Len(q) = Len(fetches)
    BY <1>2
  <2> QED BY <1>4, <2>1
<1>6. DialogTypes'
  BY <1>5 DEF DialogInv, DialogTypes, form, launch
<1>7. AllDone' <=> AllDone
  BY <1>2, <1>3, <1>5 DEF AllDone
<1>a. Answers'
  BY <1>2, <1>3, <1>5 DEF DialogInv, Answers
<1>8. ASSUME Patient
      PROVE  OneAtATime' /\ AreThere'
  <2>1. OneAtATime /\ AreThere
    BY <1>8 DEF DialogInv
  <2>2. fetches = <<>> => fetches' = <<>>
    BY <1>1, <1>5, EmptySeq
  <2>3. OneAtATime'
    BY <1>2, <1>3, <1>5, <2>1, <2>2, ZenonT(40) DEF OneAtATime, form, launch
  <2>4. AreThere'
    BY <1>7, <2>1 DEF AreThere, LaunchedIsThere, form, launch
  <2> QED BY <2>3, <2>4
<1> QED BY <1>6, <1>a, <1>8 DEF DialogInv

LEMMA FetchAt ==
  ASSUME DialogInv, NEW i \in DOMAIN fetches, NEW at \in FetchStates,
         fetches' = [fetches EXCEPT ![i].at = at]
  PROVE  /\ fetches' = [k \in DOMAIN fetches |-> fetches'[k]]
         /\ fetches'[i] = [fetches[i] EXCEPT !.at = at] /\ fetches'[i].at = at
         /\ \A k \in DOMAIN fetches : k # i => fetches'[k] = fetches[k]
         /\ \A k \in DOMAIN fetches : fetches[k] \in FetchState
<1>1. fetches \in Seq(FetchState)
  BY DEF DialogInv, DialogTypes
<1>2. \A k \in DOMAIN fetches : fetches[k] \in FetchState
  BY <1>1, LenProperties, ElementOfSeq
<1> QED BY <1>2 DEF FetchState

LEMMA StaysSo ==
  ASSUME NEW k \in DOMAIN fetches, fetches[k] \in FetchState, DialogInv,
         fetches'[k] = fetches[k]
  PROVE  FetchGoesOn(k)
<1>1. fetches[k].at = "listed" => Found(fetches[k].launcher, fetches[k].path)
  <2>1. fetches \in Seq(FetchState)
    BY DEF DialogInv, DialogTypes
  <2>2. k \in 1..Len(fetches)
    BY <2>1, LenProperties
  <2> QED BY <2>2 DEF DialogInv, Answers
<1> QED BY <1>1 DEF FetchGoesOn, FetchState


LEMMA ConnectionKeeps ==
  ASSUME DialogInv, NEW l \in Launchers, Connection(l)
  PROVE  DialogInv'
<1>1. connected' \subseteq Launchers
  BY DEF DialogInv, DialogTypes, Connection
<1>2. ASSUME NEW i \in DOMAIN fetches
      PROVE  FetchGoesOn(i)
  <2>1. fetches \in Seq(FetchState)
    BY DEF DialogInv, DialogTypes
  <2>2. fetches[i] \in FetchState
    BY <2>1, LenProperties, ElementOfSeq
  <2>3. CASE fetches'[i] = fetches[i]
    BY <2>2, <2>3, StaysSo
  <2>4. CASE fetches[i].at = "waiting" /\ fetches'[i] = [fetches[i] EXCEPT !.at = "lost"]
    BY <2>2, <2>4 DEF FetchGoesOn, FetchState, FetchStates
  <2>5. fetches'[i] = IF fetches[i].launcher = l /\ fetches[i].at = "waiting"
                      THEN [fetches[i] EXCEPT !.at = "lost"] ELSE fetches[i]
    BY DEF Connection
  <2> QED BY <2>3, <2>4, <2>5
<1>3. fetches' = [i \in DOMAIN fetches |-> fetches'[i]]
  BY DEF Connection
<1> QED BY <1>1, <1>2, <1>3, GoesOnKeeps DEF Connection

\* A step of one fetch: it is asked of the launcher, answered or timed out.
LEMMA AtKeeps ==
  ASSUME DialogInv, NEW i \in DOMAIN fetches, fetches[i].at # "done",
         NEW at \in FetchStates \ {"done"}, fetches' = [fetches EXCEPT ![i].at = at],
         at = "listed" => Found(fetches[i].launcher, fetches[i].path),
         UNCHANGED <<network, form, browser, debounce, launch>>
  PROVE  DialogInv'
<1>1. \A k \in DOMAIN fetches : FetchGoesOn(k)
  <2>1. FetchGoesOn(i)
    BY FetchAt DEF FetchGoesOn
  <2>2. \A k \in DOMAIN fetches : k # i => FetchGoesOn(k)
    BY FetchAt, StaysSo
  <2> QED BY <2>1, <2>2
<1>2. fetches' = [k \in DOMAIN fetches |-> fetches'[k]]
  BY FetchAt
<1>3. connected' \subseteq Launchers
  BY DEF network, DialogInv, DialogTypes
<1> QED BY <1>1, <1>2, <1>3, GoesOnKeeps

LEMMA AnswerKeeps ==
  ASSUME DialogInv, NEW i \in Fetches, BackendAsks(i) \/ LauncherAnswers(i) \/ TimesOut(i)
  PROVE  DialogInv'
<1> USE DEF FetchStates
<1>1. CASE BackendAsks(i)
  <2>1. CASE fetches[i].launcher \in connected
    <3>1. fetches' = [fetches EXCEPT ![i].at = "waiting"]
      BY <1>1, <2>1 DEF BackendAsks
    <3> QED BY <1>1, <3>1, AtKeeps DEF BackendAsks
  <2>2. CASE fetches[i].launcher \notin connected
    <3>1. fetches' = [fetches EXCEPT ![i].at = "failed"]
      BY <1>1, <2>2 DEF BackendAsks
    <3> QED BY <1>1, <3>1, AtKeeps DEF BackendAsks
  <2> QED BY <2>1, <2>2
<1>2. CASE LauncherAnswers(i)
  <2>1. CASE Found(fetches[i].launcher, fetches[i].path)
    <3>1. fetches' = [fetches EXCEPT ![i].at = "listed"]
      BY <1>2, <2>1 DEF LauncherAnswers
    <3> QED BY <1>2, <2>1, <3>1, AtKeeps DEF LauncherAnswers
  <2>2. CASE ~Found(fetches[i].launcher, fetches[i].path)
    <3>1. fetches' = [fetches EXCEPT ![i].at = "failed"]
      BY <1>2, <2>2 DEF LauncherAnswers
    <3> QED BY <1>2, <3>1, AtKeeps DEF LauncherAnswers
  <2> QED BY <2>1, <2>2
<1>3. CASE TimesOut(i)
  BY <1>3, AtKeeps DEF TimesOut
<1> QED BY <1>1, <1>2, <1>3

-----------------------------------------------------------------------------
\* An answer is shown: as it is the last one asked for, it is of the path shown.
LEMMA ListingArrivesKeeps ==
  ASSUME DialogInv, NEW i \in Fetches, ListingArrives(i)
  PROVE  DialogInv'
<1> DEFINE f == fetches[i]
           listing == list_directory(f.launcher, f.path)
           n == Len(fetches)
<1>1. fetches \in Seq(FetchState) /\ n \in Nat /\ i \in 1..n
  <2>1. fetches \in Seq(FetchState)
    BY DEF DialogInv, DialogTypes
  <2> QED BY <2>1, LenProperties DEF ListingArrives
<1>2. f \in FetchState /\ f.launcher \in Launchers /\ f.path \in Paths
  <2>1. f \in FetchState
    BY <1>1, ElementOfSeq
  <2> HIDE DEF f
  <2> QED BY <2>1 DEF FetchState
<1>3. /\ listing \in Listings /\ listing # Nothing /\ listing.launcher = f.launcher
      /\ listing.dir = Resolved(f.launcher, f.path)
      /\ f.path.rest \in {"", "~"} =>
           list_directory(f.launcher, Text(listing.dir, "")) = listing
  <2> HIDE DEF f
  <2> QED BY <1>2, ListingIs
<1>4. /\ fetches' = [fetches EXCEPT ![i].at = "done"]
      /\ UNCHANGED <<network, form, debounce, launch>>
      /\ f.at \in {"listed", "failed"}
  BY DEF ListingArrives
<1>b. browser' = IF f.at = "failed" THEN [browser EXCEPT !.loading = FALSE, !.error = TRUE]
                 ELSE [browser EXCEPT !.loading = FALSE, !.entries = listing,
                                      !.path = IF f.update THEN Text(listing.dir, "") ELSE @]
  BY DEF ListingArrives
<1>5. /\ fetches' \in Seq(FetchState) /\ Len(fetches') = n
      /\ fetches'[i].at = "done" /\ \A k \in 1..n : k # i => fetches'[k] = fetches[k]
  <2>1. "done" \in FetchStates /\ DOMAIN fetches = 1..n
    BY <1>1, LenProperties DEF FetchStates
  <2>2. [f EXCEPT !.at = "done"] \in FetchState /\ [f EXCEPT !.at = "done"].at = "done"
    BY <1>2, <2>1 DEF FetchState
  <2> DEFINE g == [f EXCEPT !.at = "done"]
  <2>3. fetches' = [fetches EXCEPT ![i] = g]
    BY <1>4
  <2> HIDE DEF g
  <2>4. g \in FetchState /\ g.at = "done"
    BY <2>2 DEF g
  <2>5. Len(fetches') = n /\ fetches' \in Seq(FetchState) /\ fetches'[i] = g
        /\ \A k \in 1..n : k # i => fetches'[k] = fetches[k]
    BY <1>1, <2>1, <2>3, <2>4, ExceptSeq
  <2> QED BY <2>4, <2>5
<1> HIDE DEF f, listing, n
<1>6. browser \in BrowserState
  BY DEF DialogInv, DialogTypes
<1>7. f.update \in BOOLEAN /\ listing.dir \in Seq(STRING) /\ Text(listing.dir, "") \in Paths
      /\ Text(listing.dir, "").rest = ""
  <2>1. f.update \in BOOLEAN
    BY <1>2 DEF FetchState
  <2>2. listing.dir \in Seq(STRING)
    BY <1>3 DEF Listings
  <2>3. "" \in {"", "~"} \union STRING
    OBVIOUS
  <2> QED BY <2>1, <2>2, <2>3, Texts, Zenon
<1>c. ASSUME Patient
      PROVE  /\ f.launcher = selected
             /\ f.update => f.path.rest \in {"", "~"}
             /\ ~f.update => f.path = browser.path
             /\ OneAtATime'
  <2>1. OneAtATime /\ f.at # "done"
    BY <1>4, <1>c DEF DialogInv
  <2>2. f = fetches[i] /\ n = Len(fetches)
    BY DEF f, n
  <2>3. /\ i = n /\ ~debounce.set /\ ~launching.asked /\ f.launcher = selected
        /\ f.update => f.path.rest \in {"", "~"}
        /\ ~f.update => f.path = browser.path
    BY <1>1, <2>1, <2>2 DEF OneAtATime
  <2>4. \A k \in 1..n : fetches'[k].at = "done"
    BY <1>1, <1>5, <2>1, <2>2, <2>3 DEF OneAtATime
  <2>5. fetches # <<>>
    BY <1>1, <2>2, EmptySeq
  <2>6. dialog # "opening"
    BY <2>1, <2>5 DEF OneAtATime
  <2>7. dialog' = dialog /\ debounce' = debounce /\ Len(fetches') = n
    BY <1>4, <1>5 DEF form
  <2>8. OneAtATime'
    BY <2>3, <2>4, <2>6, <2>7 DEF OneAtATime
  <2> QED BY <2>3, <2>8
<1>8. CASE f.at = "failed"
  <2>1. browser' = [browser EXCEPT !.loading = FALSE, !.error = TRUE]
    BY <1>b, <1>8
  <2>2. /\ browser' \in BrowserState /\ browser'.path = browser.path
        /\ browser'.entries = browser.entries /\ browser'.error = TRUE
    BY <1>6, <2>1 DEF BrowserState
  <2>3. DialogTypes'
    BY <1>4, <1>5, <2>2 DEF DialogInv, DialogTypes, form, launch, network
  <2>4. Answers'
    BY <1>1, <1>5, <2>2 DEF DialogInv, Answers, n
  <2>5. ASSUME Patient PROVE AreThere'
    <3>1. AreThere
      BY <2>5 DEF DialogInv
    <3>2. browser'.error /\ launching' = launching /\ launched' = launched
      BY <1>4, <2>2 DEF launch
    <3> QED BY <3>1, <3>2 DEF AreThere, LaunchedIsThere
  <2> QED BY <1>c, <2>3, <2>4, <2>5 DEF DialogInv
<1>9. CASE f.at = "listed"
  <2> DEFINE path == IF f.update THEN Text(listing.dir, "") ELSE browser.path
  <2>0. path \in Paths
    BY <1>6, <1>7 DEF BrowserState
  <2>1. browser' = [browser EXCEPT !.loading = FALSE, !.entries = listing, !.path = path]
    BY <1>b, <1>9
  <2> HIDE DEF path
  <2>2. /\ browser' \in BrowserState /\ browser'.path = path
        /\ browser'.entries = listing
    BY <1>3, <1>6, <2>0, <2>1 DEF BrowserState
  <2>3. DialogTypes'
    BY <1>4, <1>5, <2>2 DEF DialogInv, DialogTypes, form, launch, network
  <2>4. Found(f.launcher, f.path)
    BY <1>1, <1>9 DEF DialogInv, Answers, f, n
  <2>5. listing.dir \in Tree[listing.launcher]
    BY <1>3, <2>4 DEF Found
  <2>6. Answers'
    BY <1>1, <1>5, <2>2, <2>5 DEF DialogInv, Answers, n
  <2>7. ASSUME Patient PROVE AreThere'
    <3>1. AreThere /\ selected' = selected /\ browser'.entries = listing
          /\ browser'.path = path /\ launching' = launching /\ launched' = launched
      BY <1>4, <2>2, <2>7 DEF DialogInv, form, launch
    <3>2. listing = list_directory(selected, path)
      <4>1. CASE f.update = TRUE
        BY <1>3, <1>c, <2>7, <4>1 DEF path
      <4>2. CASE f.update = FALSE
        BY <1>c, <2>7, <4>2 DEF path, listing
      <4> QED BY <1>7, <4>1, <4>2
    <3>3. browser'.entries = list_directory(selected', browser'.path)
      BY <3>1, <3>2
    <3> QED BY <3>1, <3>3 DEF AreThere, LaunchedIsThere
  <2> QED BY <1>c, <2>3, <2>6, <2>7 DEF DialogInv
<1> QED BY <1>4, <1>8, <1>9

-----------------------------------------------------------------------------
LEMMA LaunchersArriveKeeps ==
  ASSUME DialogInv, LaunchersArrive
  PROVE  DialogInv'
<1>1. /\ connected' = connected /\ offered' = connected /\ connected \subseteq Launchers
      /\ debounce' = debounce /\ launching' = launching /\ launched' = launched
      /\ dialog = "opening" /\ browser \in BrowserState
  BY DEF LaunchersArrive, DialogInv, DialogTypes, network, launch
<1>2. CASE connected = {}
  <2>1. /\ dialog' = "install"
        /\ selected' = selected /\ browser' = browser /\ fetches' = fetches
    BY <1>2 DEF LaunchersArrive
  <2>2. DialogTypes'
    BY <1>1, <2>1 DEF DialogInv, DialogTypes
  <2>3. Answers' /\ (Patient => OneAtATime' /\ AreThere')
    BY <1>1, <2>1
    DEF DialogInv, Answers, OneAtATime, AreThere, AllDone, LaunchedIsThere
  <2> QED BY <2>2, <2>3 DEF DialogInv
<1>3. CASE connected # {}
  <2> DEFINE l == Lowest(connected)
  <2>1. dialog' = "launch" /\ selected' = l /\ Fetch(l, Tilde, TRUE, browser)
    BY <1>3 DEF LaunchersArrive
  <2>2. l \in connected
    <3>1. connected \subseteq Nat
      BY <1>1, LaunchDialogAssumption
    <3> QED BY <1>3, <3>1, LowestIsMember
  <2> HIDE DEF l
  <2>3. l \in Launchers /\ l # 0
    BY <1>1, <2>2, LaunchDialogAssumption
  <2>4. Tilde \in Paths /\ Tilde.rest \in {"", "~"}
    BY Texts DEF Tilde, Text
  <2>5. Patient => ~debounce.set /\ ~launching.asked /\ AllDone
    <3> SUFFICES ASSUME Patient PROVE ~debounce.set /\ ~launching.asked /\ AllDone
      OBVIOUS
    <3>1. fetches = <<>> /\ ~debounce.set /\ ~launching.asked
      BY <1>1 DEF DialogInv, OneAtATime
    <3> QED BY <3>1, EmptySeq DEF AllDone
  <2> QED BY <1>1, <2>1, <2>3, <2>4, <2>5, FetchKeeps
<1> QED BY <1>2, <1>3

LEMMA DebounceFiresKeeps ==
  ASSUME DialogInv, DebounceFires
  PROVE  DialogInv'
<1> DEFINE l == debounce.launcher
           path == debounce.path
<1>1. /\ debounce.set /\ debounce' = NoTimer /\ Fetch(l, path, FALSE, browser)
      /\ UNCHANGED <<network, form, launch>>
  BY DEF DebounceFires
<1>2. debounce \in [set : {TRUE}, launcher : Launchers, path : Paths]
  <2>1. ~NoTimer.set
    BY DEF NoTimer
  <2> QED BY <1>1, <2>1, Zenon DEF DialogInv, DialogTypes
<1>3. l \in Launchers /\ path \in Paths
  BY <1>2
<1>4. Patient => /\ dialog # "opening" /\ selected = l /\ ~launching.asked /\ AllDone
                 /\ path = browser.path
  BY <1>1 DEF DialogInv, OneAtATime, AllDone
<1>5. /\ connected' = connected /\ offered' = offered /\ dialog' = dialog
      /\ selected' = selected /\ launching' = launching /\ launched' = launched
  BY <1>1 DEF network, form, launch
<1>6. /\ connected \subseteq Launchers /\ offered \subseteq Launchers
      /\ dialog \in {"opening", "launch", "install", "closed"} /\ browser \in BrowserState
      /\ selected \in Launchers \cup {0} /\ (dialog = "launch" => selected # 0)
  BY DEF DialogInv, DialogTypes
<1> HIDE DEF l, path
<1>7. ~debounce'.set
  BY <1>1 DEF NoTimer
<1> QED BY <1>1, <1>3, <1>4, <1>5, <1>6, <1>7, FetchKeeps

\* Who waits until nothing is waited for has nothing on its way.
LEMMA NothingAwaited ==
  ASSUME DialogInv, ~Waiting
  PROVE  ~debounce.set /\ ~launching.asked /\ AllDone
<1>1. fetches \in Seq(FetchState)
  BY DEF DialogInv, DialogTypes
<1>2. DOMAIN fetches = 1..Len(fetches)
  BY <1>1, LenProperties
<1> QED BY <1>2 DEF Waiting, AllDone

\* The form goes to a path that is not a name's beginning, of the launcher it selects.
LEMMA NavigateKeeps ==
  ASSUME DialogInv, NEW l \in Launchers, NEW path \in Paths, path.rest \in {"", "~"},
         navigate(l, path), Patient => ~Waiting,
         selected' = l, dialog' = "launch",
         UNCHANGED <<network, offered, debounce, launch>>
  PROVE  DialogInv'
<1>1. l # 0
  BY LaunchDialogAssumption
<1> DEFINE b == [browser EXCEPT !.path = path]
<1>2. Fetch(l, path, TRUE, b)
  BY <1>1 DEF navigate
<1>3. browser \in BrowserState
  BY DEF DialogInv, DialogTypes
<1>4. b \in BrowserState /\ b.entries = browser.entries
  BY <1>3 DEF BrowserState
<1> HIDE DEF b
<1>5. /\ connected' = connected /\ offered' = offered /\ debounce' = debounce
      /\ launching' = launching /\ launched' = launched
  BY DEF network, launch
<1>6. connected \subseteq Launchers /\ offered \subseteq Launchers
  BY DEF DialogInv, DialogTypes
<1>7. Patient => ~debounce.set /\ ~launching.asked /\ AllDone
  BY NothingAwaited
<1> QED BY <1>1, <1>2, <1>4, <1>5, <1>6, <1>7, FetchKeeps

LEMMA GoesKeeps ==
  ASSUME DialogInv, Form, NEW path \in Paths, path.rest \in {"", "~"}, Goes(path)
  PROVE  DialogInv'
<1>1. /\ navigate(selected, path) /\ (Patient => ~Waiting)
      /\ dialog' = dialog /\ selected' = selected /\ dialog = "launch"
      /\ UNCHANGED <<network, offered, debounce, launch>>
  BY Zenon DEF Goes, Form, form
<1>2. selected \in Launchers
  BY <1>1 DEF DialogInv, DialogTypes
<1> QED BY <1>1, <1>2, NavigateKeeps

-----------------------------------------------------------------------------
\* The paths that the user's clicks lead to are paths.
LEMMA Shorter ==
  ASSUME NEW d \in Seq(STRING), NEW n \in 0..Len(d)
  PROVE  SubSeq(d, 1, n) \in Seq(STRING)
<1>1. \A i \in 1..n : d[i] \in STRING
  <2> SUFFICES ASSUME NEW i \in 1..n PROVE d[i] \in STRING
    OBVIOUS
  <2>1. i \in 1..Len(d)
    BY LenProperties
  <2> QED BY <2>1, ElementOfSeq
<1> QED BY <1>1, LenProperties, SubSeqProperties

LEMMA ParentIsPath ==
  ASSUME NEW path \in Paths
  PROVE  /\ parent_path(path) \in Paths /\ parent_path(path).rest = ""
         /\ Base(path) \in Seq(STRING)
<1>1. path.dir \in Seq(STRING)
  BY Texts
<1>2. "" \in {"", "~"} \union STRING
  OBVIOUS
<1>3. ASSUME path.dir # <<>> PROVE Front(path.dir) \in Seq(STRING)
  <2> DEFINE d == path.dir
  <2>1. d \in Seq(STRING) /\ d # <<>>
    BY <1>1, <1>3
  <2> HIDE DEF d
  <2>2. Len(d) \in Nat /\ Len(d) # 0
    BY <2>1, LenProperties, EmptySeq
  <2>3. Len(d) - 1 \in 0..Len(d)
    BY <2>2
  <2>4. SubSeq(d, 1, Len(d) - 1) \in Seq(STRING)
    BY <2>1, <2>3, Shorter
  <2> QED BY <2>4 DEF Front, d
<1>4. /\ parent_path(path) \in Paths /\ parent_path(path).rest = ""
      /\ parent_path(path).dir \in Seq(STRING)
  <2>1. CASE path.rest = "" /\ path.dir # <<>>
    BY <1>2, <1>3, <2>1, Texts, Zenon DEF parent_path
  <2>2. CASE ~(path.rest = "" /\ path.dir # <<>>)
    BY <1>1, <1>2, <2>2, Texts, Zenon DEF parent_path
  <2> QED BY <2>1, <2>2
<1> QED BY <1>1, <1>4 DEF Base

LEMMA EntryIsPath ==
  ASSUME DialogInv, NEW name \in browser.entries.names
  PROVE  /\ Text(Append(Base(browser.path), name), "") \in Paths
         /\ Text(Append(Base(browser.path), name), "").rest = ""
<1>1. browser.entries \in Listings \cup {Nothing} /\ browser.path \in Paths
  BY DEF DialogInv, DialogTypes, BrowserState
<1>2. name \in STRING
  BY <1>1 DEF Listings, Nothing
<1>3. Base(browser.path) \in Seq(STRING)
  BY <1>1, ParentIsPath
<1>4. Append(Base(browser.path), name) \in Seq(STRING)
  BY <1>2, <1>3, AppendProperties
<1>5. "" \in {"", "~"} \union STRING
  OBVIOUS
<1> QED BY <1>4, <1>5, Texts, Zenon

LEMMA ClickKeeps ==
  ASSUME DialogInv,
         \/ \E name \in AllNames : ClickEntry(name)
         \/ ClickUp
         \/ \E n \in 0..3 : ClickBreadcrumb(n)
         \/ PressTab
  PROVE  DialogInv'
<1>1. browser.path \in Paths
  BY DEF DialogInv, DialogTypes, BrowserState
<1>2. "" \in {"", "~"}
  OBVIOUS
<1>3. CASE \E name \in AllNames : ClickEntry(name)
  <2>1. PICK name \in browser.entries.names :
          Form /\ Goes(Text(Append(Base(browser.path), name), ""))
    BY <1>3 DEF ClickEntry, Shown
  <2> QED BY <1>2, <2>1, EntryIsPath, GoesKeeps
<1>4. CASE ClickUp
  <2>1. Form /\ Goes(parent_path(browser.path))
    BY <1>4 DEF ClickUp, Shown
  <2> QED BY <1>1, <1>2, <2>1, ParentIsPath, GoesKeeps
<1>5. CASE \E n \in 0..3 : ClickBreadcrumb(n)
  <2>1. PICK n \in 0..Len(browser.path.dir) :
          Form /\ Goes(Text(SubSeq(browser.path.dir, 1, n), ""))
    BY <1>5 DEF ClickBreadcrumb
  <2>2. SubSeq(browser.path.dir, 1, n) \in Seq(STRING)
    BY <1>1, Texts, Shorter
  <2>3. "" \in {"", "~"} \union STRING
    OBVIOUS
  <2>4. /\ Text(SubSeq(browser.path.dir, 1, n), "") \in Paths
        /\ Text(SubSeq(browser.path.dir, 1, n), "").rest = ""
    BY <2>2, <2>3, Texts, Zenon
  <2> QED BY <1>2, <2>1, <2>4, GoesKeeps
<1>6. CASE PressTab
  <2>1. PICK name \in browser.entries.names :
          Form /\ Goes(Text(Append(Base(browser.path), name), ""))
    BY <1>6 DEF PressTab
  <2> QED BY <1>2, <2>1, EntryIsPath, GoesKeeps
<1> QED BY <1>3, <1>4, <1>5, <1>6

LEMMA TypePathKeeps ==
  ASSUME DialogInv, NEW path \in TypedTexts, TypePath(path)
  PROVE  DialogInv'
<1>1. path \in Paths /\ browser \in BrowserState
  BY LaunchDialogAssumption DEF DialogInv, DialogTypes
<1>2. selected \in Launchers /\ selected # 0
  BY LaunchDialogAssumption DEF DialogInv, DialogTypes, TypePath, Form
<1>3. /\ browser' = [browser EXCEPT !.path = path]
      /\ debounce' = [set |-> TRUE, launcher |-> selected, path |-> path]
      /\ UNCHANGED <<network, form, fetches, launch>>
      /\ dialog = "launch" /\ (Patient => ~Waiting)
  BY <1>2 DEF TypePath, Form
<1>4. /\ browser' \in BrowserState /\ browser'.path = path
      /\ browser'.entries = browser.entries
  BY <1>1, <1>3 DEF BrowserState
<1>5. /\ debounce' \in [set : {TRUE}, launcher : Launchers, path : Paths]
      /\ debounce'.set /\ debounce'.launcher = selected /\ debounce'.path = path
  BY <1>1, <1>2, <1>3
<1>6. DialogTypes' /\ Answers'
  BY <1>3, <1>4, <1>5 DEF DialogInv, DialogTypes, Answers, network, form, launch
<1>7. ASSUME Patient PROVE OneAtATime' /\ AreThere'
  <2>1. ~launching.asked /\ AllDone /\ AreThere
    BY <1>3, <1>7, NothingAwaited DEF DialogInv
  <2>2. /\ fetches' = fetches /\ launching' = launching /\ launched' = launched
        /\ selected' = selected /\ dialog' = "launch"
    BY <1>3 DEF form, launch
  <2>3. OneAtATime'
    BY <1>4, <1>5, <2>1, <2>2 DEF OneAtATime, AllDone
  <2>4. AreThere'
    BY <1>5, <2>1, <2>2 DEF AreThere, LaunchedIsThere
  <2> QED BY <2>3, <2>4
<1> QED BY <1>6, <1>7 DEF DialogInv

LEMMA SelectLauncherKeeps ==
  ASSUME DialogInv, NEW l \in Launchers, SelectLauncher(l)
  PROVE  DialogInv'
<1>1. Tilde \in Paths /\ Tilde.rest \in {"", "~"}
  BY Texts DEF Tilde, Text
<1> QED BY <1>1, NavigateKeeps DEF SelectLauncher

\* The dialog changes to one that shows no browser.
LEMMA AwayKeeps ==
  ASSUME DialogInv, ConnectNew \/ Close
  PROVE  DialogInv'
<1>1. /\ dialog' \in {"install", "closed"} /\ selected' \in {selected, 0}
      /\ UNCHANGED <<network, offered, browser, debounce, fetches, launch>>
      /\ (selected' = selected \/ (Patient => ~Waiting))
  BY DEF ConnectNew, Close
<1>2. DialogTypes' /\ Answers'
  BY <1>1 DEF DialogInv, DialogTypes, Answers, network, launch
<1>3. ASSUME Patient PROVE OneAtATime' /\ AreThere'
  <2>1. OneAtATime /\ AreThere
    BY <1>3 DEF DialogInv
  <2>2. AreThere'
    BY <1>1, <2>1 DEF AreThere, LaunchedIsThere, launch
  <2>3. CASE selected' = selected
    BY <1>1, <2>1, <2>2, <2>3 DEF OneAtATime, launch
  <2>4. CASE ~Waiting
    <3>1. ~debounce.set /\ ~launching.asked /\ AllDone
      BY <2>4, NothingAwaited
    <3> QED BY <1>1, <2>1, <2>2, <3>1 DEF OneAtATime, AllDone, launch
  <2> QED BY <1>1, <1>3, <2>2, <2>3, <2>4
<1> QED BY <1>2, <1>3 DEF DialogInv

\* What a patient user launches is shown, so it is there.
LEMMA on_launchKeeps ==
  ASSUME DialogInv, on_launch
  PROVE  DialogInv'
<1>1. /\ launching' = [asked |-> TRUE, launcher |-> selected, path |-> browser.path]
      /\ UNCHANGED <<network, form, browser, debounce, fetches, launched>>
      /\ Patient => Shown /\ browser.path.rest = ""
  BY DEF on_launch
<1>2. browser.path \in Paths /\ selected \in Nat
  BY LaunchDialogAssumption DEF DialogInv, DialogTypes, BrowserState
<1>3. /\ launching' \in [asked : BOOLEAN, launcher : Nat, path : Paths]
      /\ launching'.launcher = selected /\ launching'.path = browser.path
  BY <1>1, <1>2
<1>4. DialogTypes' /\ Answers'
  BY <1>1, <1>3 DEF DialogInv, DialogTypes, Answers, network, form
<1>5. ASSUME Patient PROVE OneAtATime' /\ AreThere'
  <2>1. OneAtATime /\ AreThere /\ Answers /\ Shown /\ browser.path.rest = ""
    BY <1>1, <1>5 DEF DialogInv
  <2>2. dialog = "launch" /\ ~debounce.set /\ AllDone
    BY <1>5, <2>1, NothingAwaited DEF Shown, Form
  <2>3. selected \in Launchers
    BY <2>2 DEF DialogInv, DialogTypes
  <2>4. browser.entries # Nothing /\ browser.entries = list_directory(selected, browser.path)
    BY <2>1, <2>2 DEF AreThere, Shown
  <2>5. /\ browser.entries.launcher = selected
        /\ browser.entries.dir = Resolved(selected, browser.path)
    BY <1>2, <2>3, <2>4, ListingIs, ZenonT(40)
  <2>6. Resolved(selected, browser.path) = browser.path.dir
    <3>1. Tilde.rest = "~"
      BY DEF Tilde, Text
    <3>2. browser.path # Tilde
      BY <2>1, <3>1
    <3> QED BY <3>2 DEF Resolved
  <2>7. browser.path.dir \in Tree[selected]
    <3>1. browser.entries.dir \in Tree[browser.entries.launcher]
      BY <2>1, <2>4 DEF Answers
    <3> QED BY <2>5, <2>6, <3>1
  <2>8. /\ dialog' = dialog /\ selected' = selected /\ browser' = browser
        /\ debounce' = debounce /\ fetches' = fetches /\ launched' = launched
    BY <1>1 DEF form
  <2>9. OneAtATime'
    BY <2>2, <2>8 DEF OneAtATime, AllDone
  <2>10. AreThere'
    BY <1>3, <2>1, <2>3, <2>7, <2>8 DEF AreThere, AllDone, LaunchedIsThere
  <2> QED BY <2>9, <2>10
<1> QED BY <1>4, <1>5 DEF DialogInv

LEMMA launch_sessionKeeps ==
  ASSUME DialogInv, launch_session
  PROVE  DialogInv'
<1>1. /\ launching.asked /\ launching' = NoLaunch
      /\ dialog' \in {dialog, "closed"}
      /\ UNCHANGED <<network, offered, selected, browser, debounce, fetches>>
  <2>1. dialog' \in {dialog, "closed"}
    BY DEF launch_session
  <2> QED BY <2>1 DEF launch_session
<1>2. /\ launching' \in [asked : BOOLEAN, launcher : Nat, path : Paths]
      /\ ~launching'.asked
  BY <1>1, Texts DEF NoLaunch
<1>3. DialogTypes' /\ Answers'
  BY <1>1, <1>2 DEF DialogInv, DialogTypes, Answers, network
<1>4. ASSUME Patient PROVE OneAtATime' /\ AreThere'
  <2>1. OneAtATime /\ AreThere
    BY <1>4 DEF DialogInv
  <2> DEFINE s == [launcher |-> launching.launcher, path |-> launching.path]
  <2>2. launching.launcher # 0
    BY <1>1, <2>1, LaunchDialogAssumption DEF AreThere
  <2>3. launched' \in {launched, launched \union {s}}
    BY <2>2, Zenon DEF launch_session
  <2>4. s.launcher = launching.launcher /\ s.path = launching.path
    OBVIOUS
  <2> HIDE DEF s
  <2>5. s.path.rest = "" /\ s.path.dir \in Tree[s.launcher]
    BY <1>1, <2>1, <2>4 DEF AreThere
  <2>6. LaunchedIsThere'
    BY <2>1, <2>3, <2>5 DEF AreThere, LaunchedIsThere
  <2>7. AreThere'
    BY <1>1, <1>2, <2>1, <2>6 DEF AreThere, AllDone
  <2>8. OneAtATime'
    BY <1>1, <1>2, <2>1 DEF OneAtATime
  <2> QED BY <2>7, <2>8
<1> QED BY <1>3, <1>4 DEF DialogInv

LEMMA LUnchanged == DialogInv /\ UNCHANGED lvars => DialogInv'
BY DEF DialogInv, DialogTypes, Answers, OneAtATime, AreThere, AllDone, LaunchedIsThere, lvars,
       network, form, launch

\* DialogInv is invariant: types, at most one question of the dialog that counts, and
\* what a patient user is shown, waits for or launches (launch_dialog.rs).
THEOREM DialogInvariance == LSpec => []DialogInv
<1>1. DialogInv /\ [LNext]_lvars => DialogInv'
  <2> SUFFICES ASSUME DialogInv, [LNext]_lvars PROVE DialogInv'
    OBVIOUS
  <2>1. CASE ListingStep
    BY <2>1, LaunchersArriveKeeps, DebounceFiresKeeps, AnswerKeeps, ListingArrivesKeeps
    DEF ListingStep
  <2>2. CASE BrowserStep
    BY <2>2, ClickKeeps, TypePathKeeps DEF BrowserStep
  <2>3. CASE FormStep
    BY <2>3, SelectLauncherKeeps, AwayKeeps, on_launchKeeps, launch_sessionKeeps DEF FormStep
  <2>4. CASE \E l \in Launchers : Connection(l)
    BY <2>4, ConnectionKeeps
  <2>5. CASE UNCHANGED lvars
    BY <2>5, LUnchanged
  <2> QED BY <2>1, <2>2, <2>3, <2>4, <2>5 DEF LNext
<1> QED BY <1>1, LInitKeeps, PTL DEF LSpec

\* What the launch dialog of a patient user shows without waiting is in the launcher's
\* directory it names, and what she launches is launched in a directory that is there.
THEOREM DialogIsTrue == LSpec => []PatientDialogIsTrue
<1>1. DialogInv => PatientDialogIsTrue
  <2> SUFFICES ASSUME DialogInv, Patient PROVE ShownIsThere /\ LaunchedIsThere
    BY DEF PatientDialogIsTrue
  <2>1. AreThere
    BY DEF DialogInv
  <2>2. ShownIsThere
    BY <2>1, NothingAwaited DEF ShownIsThere, AreThere, Shown
  <2> QED BY <2>1, <2>2 DEF AreThere
<1> QED BY <1>1, DialogInvariance, PTL

-----------------------------------------------------------------------------
(* The launcher's sessions: what is invariant.                              *)

PartialFunctions(A, B) == UNION {[D -> B] : D \in SUBSET A}
Books == PartialFunctions(Dirs, {0} \union Ids)
TaskState ==
  [at : {"none", "up", "told", "over"}, dir : {"none"} \union Dirs,
   id : {0} \union Ids, now : {0} \union Ids, resume : BOOLEAN, scheduled : BOOLEAN]
Command ==
  [kind : {"launch", "stop"}, dir : {"none"} \union Dirs, id : {0} \union Ids,
   scheduled : BOOLEAN]
Exit == [id : 1..MaxTasks, code : {0, 1}]

BookTypes ==
  /\ configured \in Books /\ expected_sessions \in Books
  /\ login \in [reading : BOOLEAN, sessions : Books]
TaskTypes ==
  /\ spawned \in 0..MaxTasks /\ task \in [TaskNumbers -> TaskState]
  /\ tasks \in PartialFunctions(1..spawned, 1..spawned)
\* What the launcher asks for, and what the backend sends.
Asked ==
  {m \in Command : m.kind = "launch" /\ m.dir \in Dirs /\ (m.scheduled => "scheduled" \in mishaps)}
Sent ==
  {m \in Command : (m.kind = "launch" => m.dir \in Dirs) /\ (m.scheduled => "scheduled" \in mishaps)}
LineTypes ==
  /\ daemon \in {"up", "down"} /\ socket \in {"down", "open", "cut"}
  /\ restart_counts \in [Dirs -> Nat] /\ delayed \in [Dirs -> Nat]
  /\ exit_rx \in Seq(Exit) /\ requests \in Seq(Asked) /\ commands \in Seq(Sent)
  /\ running_sessions \subseteq Ids

\* The session of a directory is named by the first task that had it.
NamedIn(d, id) ==
  id \in 1..spawned /\ task[id].id = id /\ task[id].dir = d /\ ~task[id].scheduled

NamesOf(f) == \A d \in DOMAIN f : f[d] # 0 => NamedIn(d, f[d])

\* A task has its own name, or that of an earlier one in its directory.
TasksNamed ==
  /\ \A n \in 1..spawned :
       /\ task[n].at # "none" /\ task[n].dir \in Dirs
       /\ task[n].id \in 1..n
       /\ task[n].scheduled => task[n].id = n /\ "scheduled" \in mishaps
       /\ task[task[n].id].id = task[n].id
       /\ task[task[n].id].dir = task[n].dir
       /\ task[task[n].id].scheduled <=> task[n].scheduled
  /\ \A n \in TaskNumbers : n > spawned => task[n].at = "none"
Tracked == \A id \in DOMAIN tasks : task[tasks[id]].id = id
BooksNamed ==
  /\ NamesOf(configured) /\ NamesOf(expected_sessions) /\ NamesOf(login.sessions)
  /\ login.reading => "login" \in mishaps
ExitsNamed ==
  \A i \in 1..Len(exit_rx) :
    /\ exit_rx[i].id \in 1..spawned /\ task[exit_rx[i].id].id = exit_rx[i].id
    /\ exit_rx[i].code # 0 => "fail" \in mishaps

\* What a launcher does without, that is down or has no connection.
OnTheWay ==
  /\ socket = "down" => \A d \in Dirs : delayed[d] = 0
  /\ socket # "open" => commands = <<>>
  /\ daemon = "down" =>
       /\ socket = "down" /\ requests = <<>> /\ exit_rx = <<>> /\ DOMAIN tasks = {}
       /\ \A n \in TaskNumbers : ~Alive(n)

\* An entry of a sequence is in a set; no two are.
Has(q, S) == \E i \in 1..Len(q) : q[i] \in S
Once(q, S) == \A i, j \in 1..Len(q) : q[i] \in S /\ q[j] \in S => i = j

\* What makes a session run in a directory: a task, or what leads to one.
RunsIn(d, n) == Alive(n) /\ task[n].dir = d /\ ~task[n].scheduled
LaunchesIn(d) == {m \in Command : m.kind = "launch" /\ m.dir = d /\ ~m.scheduled}
ExitsIn(d) == {e \in Exit : e.id \in DOMAIN tasks /\ NamedIn(d, e.id)}

HasTask(d) == \E n \in TaskNumbers : RunsIn(d, n)
HasRequest(d) == Has(requests, LaunchesIn(d))
HasCommand(d) == Has(commands, LaunchesIn(d))
HasExit(d) == Has(exit_rx, ExitsIn(d))
Waits(d) == delayed[d] # 0

\* One thing does, at a time.
OfEachOne(d) ==
  /\ \A m, n \in TaskNumbers : RunsIn(d, m) /\ RunsIn(d, n) => m = n
  /\ Once(requests, LaunchesIn(d)) /\ Once(commands, LaunchesIn(d))
  /\ Once(exit_rx, ExitsIn(d)) /\ delayed[d] <= 1
OfOneKind(d) ==
  /\ ~(HasTask(d) /\ HasRequest(d)) /\ ~(HasTask(d) /\ HasCommand(d))
  /\ ~(HasTask(d) /\ HasExit(d)) /\ ~(HasTask(d) /\ Waits(d))
  /\ ~(HasRequest(d) /\ HasCommand(d)) /\ ~(HasRequest(d) /\ HasExit(d))
  /\ ~(HasRequest(d) /\ Waits(d)) /\ ~(HasCommand(d) /\ HasExit(d))
  /\ ~(HasCommand(d) /\ Waits(d)) /\ ~(HasExit(d) /\ Waits(d))
OneThing == \A d \in Dirs : OfEachOne(d) /\ OfOneKind(d)

\* What is tracked runs, or its end is still to be reported. What is no longer
\* tracked is not expected, and a scheduled run that ended is over.
Reports ==
  /\ \A id \in DOMAIN tasks :
       Alive(tasks[id]) \/ \E i \in 1..Len(exit_rx) : exit_rx[i].id = id
  /\ \A i \in 1..Len(exit_rx) : exit_rx[i].id \notin DOMAIN tasks =>
       \A d \in DOMAIN expected_sessions : expected_sessions[d] # exit_rx[i].id
  /\ \A i \in 1..Len(exit_rx) : task[exit_rx[i].id].scheduled => ~Alive(exit_rx[i].id)

ExpectedRunning ==
  /\ daemon = "up" => configured = expected_sessions
  /\ \A n \in TaskNumbers : Alive(n) =>
       task[n].dir \in DOMAIN expected_sessions /\ expected_sessions[task[n].dir] = task[n].id

Named == TasksNamed /\ Tracked /\ BooksNamed /\ ExitsNamed
SessionTypes == BookTypes /\ TaskTypes /\ LineTypes
Always == SessionTypes /\ Named /\ OnTheWay
Kept == RunningIsTracked /\ Reports /\ OneThing
Undisturbed == {"scheduled", "login"} \cap mishaps = {}

SessionInv ==
  /\ Always
  /\ OneLaunchAtATime => Kept
  /\ OneLaunchAtATime /\ Undisturbed => ExpectedRunning

-----------------------------------------------------------------------------
(* Functions and sequences.                                                 *)

LEMMA PartialFunction ==
  ASSUME NEW A, NEW B, NEW f \in PartialFunctions(A, B)
  PROVE  DOMAIN f \subseteq A /\ \A x \in DOMAIN f : f[x] \in B
BY DEF PartialFunctions

LEMMA IsPartial ==
  ASSUME NEW A, NEW B, NEW D, D \subseteq A, NEW f \in [D -> B]
  PROVE  f \in PartialFunctions(A, B)
BY DEF PartialFunctions

LEMMA WithShape ==
  ASSUME NEW f, NEW x, NEW v
  PROVE  /\ DOMAIN With(f, x, v) = DOMAIN f \union {x} /\ With(f, x, v)[x] = v
         /\ \A y \in DOMAIN f : y # x => With(f, x, v)[y] = f[y]
BY DEF With

LEMMA WithIs ==
  ASSUME NEW A, NEW B, NEW f \in PartialFunctions(A, B), NEW x \in A, NEW v \in B
  PROVE  With(f, x, v) \in PartialFunctions(A, B)
<1>1. With(f, x, v) \in [DOMAIN f \union {x} -> B]
  BY PartialFunction DEF With
<1>2. DOMAIN f \union {x} \subseteq A
  BY PartialFunction
<1> QED BY <1>1, <1>2, IsPartial

LEMMA WithoutShape ==
  ASSUME NEW f, NEW x
  PROVE  /\ DOMAIN Without(f, x) = DOMAIN f \ {x}
         /\ \A y \in DOMAIN f : y # x => Without(f, x)[y] = f[y]
BY DEF Without, Restrict

LEMMA WithoutIs ==
  ASSUME NEW A, NEW B, NEW f \in PartialFunctions(A, B), NEW x
  PROVE  Without(f, x) \in PartialFunctions(A, B)
<1>1. Without(f, x) \in [DOMAIN f \ {x} -> B]
  BY PartialFunction DEF Without, Restrict
<1>2. DOMAIN f \ {x} \subseteq A
  BY PartialFunction
<1> QED BY <1>1, <1>2, IsPartial DEF Without, Restrict

LEMMA EmptyIs ==
  ASSUME NEW A, NEW B
  PROVE  Empty \in PartialFunctions(A, B) /\ DOMAIN Empty = {}
<1>1. Empty \in [{} -> B] /\ DOMAIN Empty = {}
  BY DEF Empty
<1> QED BY <1>1, IsPartial

LEMMA MorePartial ==
  ASSUME NEW A, NEW B, NEW C, NEW D, NEW f \in PartialFunctions(A, B), A \subseteq C, B \subseteq D
  PROVE  f \in PartialFunctions(C, D)
<1>1. f \in [DOMAIN f -> B] /\ DOMAIN f \subseteq A
  BY DEF PartialFunctions
<1>2. f \in [DOMAIN f -> D]
  BY <1>1
<1> QED BY <1>1, <1>2, IsPartial

LEMMA Appended ==
  ASSUME NEW T, NEW q \in Seq(T), NEW m \in T, NEW S
  PROVE  /\ Append(q, m) \in Seq(T) /\ Len(Append(q, m)) = Len(q) + 1
         /\ \A i \in 1..Len(q) : Append(q, m)[i] = q[i]
         /\ Append(q, m)[Len(q) + 1] = m
         /\ Has(Append(q, m), S) => Has(q, S) \/ m \in S
         /\ Once(q, S) /\ ~(Has(q, S) /\ m \in S) => Once(Append(q, m), S)
<1>1. /\ Append(q, m) \in Seq(T) /\ Len(Append(q, m)) = Len(q) + 1
      /\ \A i \in 1..Len(q) : Append(q, m)[i] = q[i]
      /\ Append(q, m)[Len(q) + 1] = m /\ Len(q) \in Nat
  BY AppendProperties
<1>2. \A i \in 1..(Len(q) + 1) : i \in 1..Len(q) \/ i = Len(q) + 1
  BY <1>1
<1>3. Has(Append(q, m), S) => Has(q, S) \/ m \in S
  BY <1>1, <1>2 DEF Has
<1>4. Once(q, S) /\ ~(Has(q, S) /\ m \in S) => Once(Append(q, m), S)
  BY <1>1, <1>2 DEF Has, Once
<1> QED BY <1>1, <1>3, <1>4

LEMMA Shortened ==
  ASSUME NEW T, NEW q \in Seq(T), q # <<>>, NEW S
  PROVE  /\ Head(q) \in T /\ Head(q) = q[1] /\ 1 \in 1..Len(q)
         /\ Tail(q) \in Seq(T) /\ Len(Tail(q)) = Len(q) - 1
         /\ \A i \in 1..Len(Tail(q)) : i + 1 \in 1..Len(q) /\ Tail(q)[i] = q[i + 1]
         /\ \A i \in 1..Len(q) : i # 1 => i - 1 \in 1..Len(Tail(q)) /\ Tail(q)[i - 1] = q[i]
         /\ Has(Tail(q), S) => Has(q, S)
         /\ Once(q, S) => Once(Tail(q), S)
         /\ Once(q, S) /\ Head(q) \in S => ~Has(Tail(q), S)
         /\ Head(q) \in S => Has(q, S)
<1>1. /\ Head(q) \in T /\ Head(q) = q[1] /\ Len(q) \in Nat /\ Len(q) > 0
      /\ Tail(q) \in Seq(T) /\ Len(Tail(q)) = Len(q) - 1
      /\ \A i \in 1..Len(Tail(q)) : Tail(q)[i] = q[i + 1]
  <2>1. Len(q) \in Nat /\ Len(q) > 0
    BY EmptySeq, LenProperties
  <2> QED BY <2>1, HeadTailProperties
<1>2. \A i \in 1..Len(Tail(q)) : i + 1 \in 1..Len(q) /\ i + 1 # 1 /\ Tail(q)[i] = q[i + 1]
  BY <1>1
<1>3. \A i, j \in 1..Len(Tail(q)) : i + 1 = j + 1 => i = j
  BY <1>1
<1>4. 1 \in 1..Len(q)
  BY <1>1
<1>5. \A i \in 1..Len(q) : i # 1 => i - 1 \in 1..Len(Tail(q)) /\ (i - 1) + 1 = i
  BY <1>1
<1>6. Has(Tail(q), S) => Has(q, S)
  BY <1>2 DEF Has
<1>7. Once(q, S) => Once(Tail(q), S)
  BY <1>2, <1>3 DEF Once
<1>8. Once(q, S) /\ Head(q) \in S => ~Has(Tail(q), S)
  BY <1>1, <1>2, <1>4 DEF Once, Has
<1>9. Head(q) \in S => Has(q, S)
  BY <1>1, <1>4 DEF Has
<1> QED BY <1>1, <1>2, <1>4, <1>5, <1>6, <1>7, <1>8, <1>9

LEMMA Truncated ==
  ASSUME NEW T, NEW q \in Seq(T), NEW k \in 0..Len(q), NEW S
  PROVE  /\ SubSeq(q, 1, k) \in Seq(T) /\ Len(SubSeq(q, 1, k)) = k
         /\ \A i \in 1..k : SubSeq(q, 1, k)[i] = q[i]
         /\ Has(SubSeq(q, 1, k), S) => Has(q, S)
         /\ Once(q, S) => Once(SubSeq(q, 1, k), S)
<1>1. /\ SubSeq(q, 1, k) \in Seq(T) /\ Len(SubSeq(q, 1, k)) = k
      /\ \A i \in 1..k : SubSeq(q, 1, k)[i] = q[i]
  <2>1. \A i \in 1..k : q[i] \in T /\ i \in 1..Len(q)
    BY ElementOfSeq, LenProperties
  <2>2. k \in Int /\ (k < 1 => k = 0)
    BY LenProperties
  <2> QED BY <2>1, <2>2, SubSeqProperties
<1>2. \A i \in 1..k : i \in 1..Len(q)
  BY LenProperties
<1> QED BY <1>1, <1>2 DEF Has, Once

LEMMA Emptied == \A S : ~Has(<<>>, S) /\ Once(<<>>, S) /\ \A T : <<>> \in Seq(T)
BY DEF Has, Once

LEMMA Fewer ==
  ASSUME NEW q, NEW R, NEW S, \A i \in 1..Len(q) : q[i] \in R => q[i] \in S
  PROVE  (Has(q, R) => Has(q, S)) /\ (Once(q, S) => Once(q, R))
BY DEF Has, Once

-----------------------------------------------------------------------------
(* Steps that spawn nothing.                                                *)

\* Tasks keep their names, and none begins to run.
OnlyEnds ==
  /\ spawned' = spawned /\ task' \in [TaskNumbers -> TaskState]
  /\ \A n \in TaskNumbers :
       /\ task'[n].id = task[n].id /\ task'[n].dir = task[n].dir
       /\ task'[n].scheduled <=> task[n].scheduled
       /\ task'[n].at = "none" <=> task[n].at = "none"
       /\ Alive(n)' => Alive(n)

Part(f, g) == DOMAIN f \subseteq DOMAIN g /\ \A x \in DOMAIN f : f[x] = g[x]

LEMMA Numbers ==
  ASSUME TaskTypes, TasksNamed
  PROVE  /\ DOMAIN task = TaskNumbers /\ spawned \in Nat /\ MaxTasks \in Nat
         /\ \A n \in 1..spawned : n \in TaskNumbers /\ task[n].id \in 1..spawned
         /\ \A n \in TaskNumbers : Alive(n) => n \in 1..spawned
         /\ 1..spawned \subseteq TaskNumbers /\ TaskNumbers \subseteq Ids
<1>1. MaxTasks \in Nat /\ spawned \in 0..MaxTasks /\ DOMAIN task = TaskNumbers
  BY LauncherSessionsAssumption DEF TaskTypes
<1>2. \A n \in TaskNumbers : Alive(n) => n \in 1..spawned
  BY <1>1 DEF TasksNamed, Alive, TaskNumbers
<1>3. \A n \in 1..spawned : task[n].id \in 1..n
  BY DEF TasksNamed
<1> QED BY <1>1, <1>2, <1>3 DEF TaskNumbers, Ids

LEMMA NamesStay ==
  ASSUME TaskTypes, TasksNamed, OnlyEnds, UNCHANGED mishaps
  PROVE  /\ TasksNamed'
         /\ \A d, id : NamedIn(d, id)' <=> NamedIn(d, id)
         /\ \A d : \A n \in TaskNumbers : RunsIn(d, n)' => RunsIn(d, n)
<1>1. \A n \in 1..spawned : n \in TaskNumbers /\ task[n].id \in 1..n /\ task[n].id \in TaskNumbers
  <2>1. \A n \in 1..spawned : task[n].id \in 1..n
    BY DEF TasksNamed
  <2> QED BY <2>1, Numbers
<1>2. TasksNamed'
  <2>1. \A n \in 1..spawned' :
           /\ task'[n].at # "none" /\ task'[n].dir \in Dirs
           /\ task'[n].id \in 1..n
           /\ task'[n].scheduled => task'[n].id = n /\ "scheduled" \in mishaps'
    BY <1>1 DEF TasksNamed, OnlyEnds
  <2>2. \A n \in 1..spawned' :
           /\ task'[task'[n].id].id = task'[n].id
           /\ task'[task'[n].id].dir = task'[n].dir
    BY <1>1 DEF TasksNamed, OnlyEnds
  <2>3. ASSUME NEW n \in 1..spawned'
        PROVE  task'[task'[n].id].scheduled <=> task'[n].scheduled
    <3>1. task'[n].id = task[n].id /\ (task'[n].scheduled <=> task[n].scheduled)
      BY <1>1 DEF OnlyEnds
    <3>2. task'[task[n].id].scheduled <=> task[task[n].id].scheduled
      BY <1>1 DEF OnlyEnds
    <3>3. task[task[n].id].scheduled <=> task[n].scheduled
      BY DEF TasksNamed, OnlyEnds
    <3> QED BY <3>1, <3>2, <3>3
  <2>4. \A n \in TaskNumbers : n > spawned' => task'[n].at = "none"
    BY DEF TasksNamed, OnlyEnds
  <2> QED BY <2>1, <2>2, <2>3, <2>4 DEF TasksNamed
<1>3. ASSUME NEW d, NEW id PROVE NamedIn(d, id)' <=> NamedIn(d, id)
  BY <1>1 DEF NamedIn, OnlyEnds
<1>4. ASSUME NEW d, NEW n \in TaskNumbers PROVE RunsIn(d, n)' => RunsIn(d, n)
  BY DEF RunsIn, OnlyEnds
<1> QED BY <1>2, <1>3, <1>4

LEMMA StepNamed ==
  ASSUME Always, OnlyEnds, UNCHANGED <<mishaps, login>>, Part(tasks', tasks),
         Part(expected_sessions', expected_sessions), Part(configured', configured),
         ExitsNamed'
  PROVE  Named'
<1>1. TasksNamed' /\ \A d, id : NamedIn(d, id)' <=> NamedIn(d, id)
  BY NamesStay DEF Always, Named, SessionTypes
<1>2. Tracked'
  <2> SUFFICES ASSUME NEW id \in DOMAIN tasks' PROVE task'[tasks'[id]].id = id
    BY DEF Tracked
  <2>1. id \in DOMAIN tasks /\ tasks'[id] = tasks[id] /\ task[tasks[id]].id = id
    BY DEF Part, Always, Named, Tracked
  <2>2. tasks[id] \in TaskNumbers
    BY <2>1, PartialFunction, Numbers DEF Always, Named, SessionTypes, TaskTypes
  <2> QED BY <2>1, <2>2 DEF OnlyEnds
<1>3. BooksNamed'
  BY <1>1 DEF BooksNamed, NamesOf, Part, Always, Named
<1> QED BY <1>1, <1>2, <1>3 DEF Named

LEMMA ExitsLess ==
  ASSUME Always, OnlyEnds, UNCHANGED mishaps, DOMAIN tasks' \subseteq DOMAIN tasks, NEW d
  PROVE  ExitsIn(d)' \subseteq ExitsIn(d)
<1>1. \A id : NamedIn(d, id)' <=> NamedIn(d, id)
  BY NamesStay DEF Always, Named, SessionTypes
<1> QED BY <1>1 DEF ExitsIn

LEMMA TasksLess ==
  ASSUME Always, OnlyEnds, UNCHANGED mishaps, NEW d, OfEachOne(d)
  PROVE  /\ \A m, n \in TaskNumbers : RunsIn(d, m)' /\ RunsIn(d, n)' => m = n
         /\ HasTask(d)' => HasTask(d)
<1>1. \A n \in TaskNumbers : RunsIn(d, n)' => RunsIn(d, n)
  BY NamesStay DEF Always, Named, SessionTypes
<1> QED BY <1>1 DEF OfEachOne, HasTask

\* As many run as before, and they are tracked, expected and reported as before.
SameTasks ==
  /\ OnlyEnds
  /\ \A n \in TaskNumbers : Alive(n)' <=> Alive(n)
  /\ UNCHANGED <<tasks, exit_rx, expected_sessions, configured, login, mishaps, daemon>>

LEMMA TasksStay ==
  ASSUME Always, SameTasks
  PROVE  /\ OnlyEnds /\ UNCHANGED mishaps /\ Named'
         /\ RunningIsTracked /\ Reports => RunningIsTracked' /\ Reports'
         /\ ExpectedRunning => ExpectedRunning'
         /\ \A d \in Dirs : HasExit(d)' <=> HasExit(d)
         /\ \A d \in Dirs : Once(exit_rx, ExitsIn(d)) => Once(exit_rx, ExitsIn(d))'
<1>0. OnlyEnds /\ UNCHANGED <<tasks, exit_rx, expected_sessions, configured, login, mishaps, daemon>>
  BY DEF SameTasks
<1>1. ExitsNamed'
  <2>1. \A i \in 1..Len(exit_rx) : exit_rx[i].id \in TaskNumbers
    BY Numbers DEF Always, Named, SessionTypes, ExitsNamed
  <2> QED BY <2>1, <1>0 DEF ExitsNamed, OnlyEnds, Always, Named
<1>2. Named'
  <2>1. Part(tasks', tasks) /\ Part(expected_sessions', expected_sessions)
        /\ Part(configured', configured)
    BY <1>0 DEF Part
  <2> QED BY <1>0, <1>1, <2>1, StepNamed
<1>3. DOMAIN task' = TaskNumbers /\ DOMAIN task = TaskNumbers
  BY <1>0, Numbers DEF OnlyEnds, Always, Named, SessionTypes
<1>4. RunningIsTracked => RunningIsTracked'
  BY <1>0, <1>3 DEF RunningIsTracked, SameTasks, OnlyEnds
<1>5. Reports => Reports'
  <2>1. \A id \in DOMAIN tasks : tasks[id] \in TaskNumbers
    BY PartialFunction, Numbers DEF Always, Named, SessionTypes, TaskTypes
  <2>2. \A i \in 1..Len(exit_rx) : exit_rx[i].id \in TaskNumbers
    BY Numbers DEF Always, Named, SessionTypes, ExitsNamed
  <2>3. Reports => \A id \in DOMAIN tasks' :
           Alive(tasks[id])' \/ \E i \in 1..Len(exit_rx') : exit_rx'[i].id = id
    BY <1>0, <2>1 DEF Reports, SameTasks
  <2>4. Reports => \A i \in 1..Len(exit_rx') : task'[exit_rx'[i].id].scheduled => ~Alive(exit_rx[i].id)'
    BY <1>0, <2>2 DEF Reports, SameTasks, OnlyEnds
  <2> QED BY <1>0, <2>3, <2>4 DEF Reports
<1>6. ExpectedRunning => ExpectedRunning'
  BY <1>0 DEF ExpectedRunning, SameTasks, OnlyEnds
<1>7. \A d, id : NamedIn(d, id)' <=> NamedIn(d, id)
  BY <1>0, NamesStay DEF Always, Named, SessionTypes
<1>8. \A d \in Dirs : ExitsIn(d)' = ExitsIn(d)
  BY <1>0, <1>7 DEF ExitsIn
<1>9. /\ \A d \in Dirs : HasExit(d)' <=> HasExit(d)
      /\ \A d \in Dirs : Once(exit_rx, ExitsIn(d)) => Once(exit_rx, ExitsIn(d))'
  BY <1>0, <1>8 DEF HasExit, Has, Once
<1> QED BY <1>0, <1>2, <1>4, <1>5, <1>6, <1>9

LEMMA Concluded ==
  ASSUME SessionInv, UNCHANGED mishaps, Always',
         OneLaunchAtATime /\ Kept => Kept',
         OneLaunchAtATime /\ Undisturbed /\ Kept /\ ExpectedRunning => ExpectedRunning'
  PROVE  SessionInv'
BY DEF SessionInv, OneLaunchAtATime, Undisturbed

LEMMA LineStep ==
  ASSUME SessionInv, SameTasks, SessionTypes', OnTheWay',
         OneLaunchAtATime /\ Kept => OneThing'
  PROVE  SessionInv'
<1>1. UNCHANGED mishaps /\ Always'
  BY TasksStay DEF SessionInv, Always
<1>2. OneLaunchAtATime /\ Kept => Kept'
  BY TasksStay DEF SessionInv, Kept
<1>3. ExpectedRunning => ExpectedRunning'
  BY TasksStay DEF SessionInv
<1> QED BY <1>1, <1>2, <1>3, Concluded

LEMMA ManagerSame ==
  ASSUME Always, UNCHANGED <<file, memory, manager, mishaps>>
  PROVE  SameTasks
<1>1. UNCHANGED <<tasks, task, spawned, exit_rx, expected_sessions, configured, login, mishaps,
                  daemon>>
  BY DEF file, memory, manager
<1> QED BY <1>1 DEF SameTasks, OnlyEnds, Alive, Always, SessionTypes, TaskTypes

\* The parts of the types.
LEMMA ManagerTypes ==
  ASSUME SessionTypes, UNCHANGED <<file, memory, manager, mishaps>>, LineTypes'
  PROVE  SessionTypes'
BY DEF SessionTypes, BookTypes, TaskTypes, file, memory, manager

LEMMA SentIs ==
  /\ \A d \in Dirs : Launch(d, FALSE) \in Asked /\ Launch(d, FALSE) \in Sent
  /\ \A d \in Dirs : "scheduled" \in mishaps => Launch(d, TRUE) \in Asked
  /\ \A id \in Ids : StopSession(id) \in Sent
  /\ \A m \in Asked : m \in Sent /\ m \in Command /\ m.dir \in Dirs
  /\ \A m \in Sent : m \in Command
<1>1. \A d \in Dirs : Launch(d, FALSE) \in Command /\ Launch(d, TRUE) \in Command
  BY DEF Launch, Command, Ids
<1>2. \A id \in Ids : StopSession(id) \in Command
  BY DEF StopSession, Command, Ids
<1> QED BY <1>1, <1>2 DEF Asked, Sent, Launch, StopSession

LEMMA SentStays == UNCHANGED mishaps => Asked' = Asked /\ Sent' = Sent
BY DEF Asked, Sent

LEMMA LaunchesAre ==
  /\ \A d \in Dirs : \A c \in Dirs : Launch(c, FALSE) \in LaunchesIn(d) <=> c = d
  /\ \A d \in Dirs : \A c \in Dirs : Launch(c, TRUE) \notin LaunchesIn(d)
  /\ \A d \in Dirs : \A id \in Ids : StopSession(id) \notin LaunchesIn(d)
<1>1. \A d \in Dirs : Launch(d, FALSE) \in Command /\ Launch(d, TRUE) \in Command
  BY DEF Launch, Command, Ids
<1> QED BY <1>1 DEF Launch, StopSession, LaunchesIn

LEMMA Things ==
  ASSUME Always, SameTasks, NEW d \in Dirs, OfEachOne(d),
         Once(requests, LaunchesIn(d))', Once(commands, LaunchesIn(d))', delayed'[d] <= 1
  PROVE  OfEachOne(d)' /\ (HasTask(d)' => HasTask(d)) /\ (HasExit(d)' => HasExit(d))
<1>1. OnlyEnds /\ UNCHANGED mishaps
  BY DEF SameTasks
<1>2. Once(exit_rx, ExitsIn(d))' /\ (HasExit(d)' => HasExit(d))
  BY TasksStay DEF OfEachOne
<1>3. \A m, n \in TaskNumbers : RunsIn(d, m)' /\ RunsIn(d, n)' => m = n
  BY <1>1, TasksLess
<1>4. HasTask(d)' => HasTask(d)
  BY <1>1, TasksLess
<1> QED BY <1>2, <1>3, <1>4 DEF OfEachOne

LEMMA NothingNew ==
  ASSUME Always, SameTasks, NEW d \in Dirs, OfEachOne(d), OfOneKind(d),
         Once(requests, LaunchesIn(d))', Once(commands, LaunchesIn(d))', delayed'[d] <= 1,
         HasRequest(d)' => HasRequest(d), HasCommand(d)' => HasCommand(d), Waits(d)' => Waits(d)
  PROVE  OfEachOne(d)' /\ OfOneKind(d)'
BY Things DEF OfOneKind

LEMMA WireCutStep == ASSUME SessionInv, WireCut, UNCHANGED mishaps PROVE SessionInv'
<1>1. Always /\ UNCHANGED <<file, memory, restarts, manager, mishaps, links>>
  BY DEF WireCut, SessionInv
<1>2. PICK k \in 0..Len(requests) : requests' = SubSeq(requests, 1, k)
  BY DEF WireCut
<1>3. /\ requests \in Seq(Asked) /\ requests' \in Seq(Asked) /\ Asked' = Asked
      /\ socket' = "cut" /\ commands' = <<>> /\ running_sessions' = {} /\ UNCHANGED delayed
      /\ socket = "open"
  BY <1>1, <1>2, Truncated DEF Always, SessionTypes, LineTypes, WireCut, Asked, restarts
<1>4. SameTasks
  BY <1>1, ManagerSame
<1>5. SessionTypes'
  <2>1. LineTypes'
    BY <1>1, <1>3, Emptied DEF Always, SessionTypes, LineTypes, memory, restarts, manager
  <2> QED BY <1>1, <2>1, ManagerTypes DEF Always
<1>6. OnTheWay'
  BY <1>1, <1>3 DEF Always, OnTheWay, memory
<1>7. ASSUME OneLaunchAtATime, Kept PROVE OneThing'
  <2> SUFFICES ASSUME NEW d \in Dirs PROVE OfEachOne(d)' /\ OfOneKind(d)'
    BY DEF OneThing
  <2>1. OfEachOne(d) /\ OfOneKind(d)
    BY <1>7 DEF Kept, OneThing
  <2>2. Once(requests, LaunchesIn(d))' /\ (HasRequest(d)' => HasRequest(d))
    BY <1>2, <1>3, <2>1, Truncated DEF HasRequest, OfEachOne
  <2>3. Once(commands, LaunchesIn(d))' /\ (HasCommand(d)' => HasCommand(d))
    BY <1>3, Emptied DEF HasCommand
  <2>4. delayed'[d] <= 1 /\ (Waits(d)' => Waits(d))
    BY <1>3, <2>1 DEF OfEachOne, Waits
  <2> QED BY <1>1, <1>4, <2>1, <2>2, <2>3, <2>4, NothingNew
<1> QED BY <1>4, <1>5, <1>6, <1>7, LineStep

LEMMA LoopEndsStep == ASSUME SessionInv, LoopEnds, UNCHANGED mishaps PROVE SessionInv'
<1>1. Always /\ UNCHANGED <<file, memory, manager, mishaps>>
  BY DEF LoopEnds, SessionInv
<1>3. /\ UNCHANGED <<requests, commands>> /\ Asked' = Asked /\ Sent' = Sent
      /\ socket = "cut" /\ socket' = "down" /\ delayed' = [d \in Dirs |-> 0]
      /\ UNCHANGED <<restart_counts, running_sessions, exit_rx, daemon>>
  BY <1>1, SentStays DEF LoopEnds, manager, memory
<1>4. SameTasks
  BY <1>1, ManagerSame
<1>5. SessionTypes'
  <2>1. LineTypes'
    BY <1>1, <1>3 DEF Always, SessionTypes, LineTypes
  <2> QED BY <1>1, <2>1, ManagerTypes DEF Always
<1>6. OnTheWay'
  BY <1>1, <1>3 DEF Always, OnTheWay
<1>7. ASSUME OneLaunchAtATime, Kept PROVE OneThing'
  <2> SUFFICES ASSUME NEW d \in Dirs PROVE OfEachOne(d)' /\ OfOneKind(d)'
    BY DEF OneThing
  <2>1. OfEachOne(d) /\ OfOneKind(d)
    BY <1>7 DEF Kept, OneThing
  <2>2. Once(requests, LaunchesIn(d))' /\ (HasRequest(d)' => HasRequest(d))
    BY <1>3, <2>1 DEF HasRequest, OfEachOne, Has, Once
  <2>3. Once(commands, LaunchesIn(d))' /\ (HasCommand(d)' => HasCommand(d))
    BY <1>3, <2>1 DEF HasCommand, OfEachOne, Has, Once
  <2>4. delayed'[d] <= 1 /\ (Waits(d)' => Waits(d))
    BY <1>3 DEF Waits
  <2> QED BY <1>1, <1>4, <2>1, <2>2, <2>3, <2>4, NothingNew
<1> QED BY <1>4, <1>5, <1>6, <1>7, LineStep

LEMMA HeartbeatStep == ASSUME SessionInv, Heartbeat, UNCHANGED mishaps PROVE SessionInv'
<1>1. Always /\ UNCHANGED <<file, memory, manager, mishaps>>
  BY DEF Heartbeat, SessionInv
<1>2. /\ UNCHANGED <<requests, commands, socket, delayed, restart_counts, exit_rx, daemon>>
      /\ Asked' = Asked /\ Sent' = Sent /\ socket = "open"
  BY <1>1, SentStays DEF Heartbeat, restarts, manager, memory
<1>3. running_sessions' \subseteq Ids
  <2>1. DOMAIN tasks \subseteq 1..spawned
    BY <1>1, PartialFunction DEF Always, SessionTypes, TaskTypes
  <2>2. 1..spawned \subseteq Ids
    BY <1>1, Numbers DEF Always, SessionTypes, Named
  <2> QED BY <2>1, <2>2 DEF Heartbeat
<1>4. SameTasks
  BY <1>1, ManagerSame
<1>5. SessionTypes'
  <2>1. LineTypes'
    BY <1>1, <1>2, <1>3 DEF Always, SessionTypes, LineTypes
  <2> QED BY <1>1, <2>1, ManagerTypes DEF Always
<1>6. OnTheWay'
  BY <1>1, <1>2 DEF Always, OnTheWay
<1>7. ASSUME OneLaunchAtATime, Kept PROVE OneThing'
  <2> SUFFICES ASSUME NEW d \in Dirs PROVE OfEachOne(d)' /\ OfOneKind(d)'
    BY DEF OneThing
  <2>1. OfEachOne(d) /\ OfOneKind(d)
    BY <1>7 DEF Kept, OneThing
  <2>2. Once(requests, LaunchesIn(d))' /\ (HasRequest(d)' => HasRequest(d))
    BY <1>2, <2>1 DEF HasRequest, OfEachOne, Has, Once
  <2>3. Once(commands, LaunchesIn(d))' /\ (HasCommand(d)' => HasCommand(d))
    BY <1>2, <2>1 DEF HasCommand, OfEachOne, Has, Once
  <2>4. delayed'[d] <= 1 /\ (Waits(d)' => Waits(d))
    BY <1>2, <2>1 DEF Waits, OfEachOne
  <2> QED BY <1>1, <1>4, <2>1, <2>2, <2>3, <2>4, NothingNew
<1> QED BY <1>4, <1>5, <1>6, <1>7, LineStep

\* SetToSeq lists a set of directories, each once.
LEMMA Listed ==
  ASSUME NEW S \in SUBSET Dirs
  PROVE  /\ Cardinality(S) \in Nat /\ SetToSeq(S) \in [1..Cardinality(S) -> S]
         /\ \A i, j \in 1..Cardinality(S) : SetToSeq(S)[i] = SetToSeq(S)[j] => i = j
<1>1. IsFiniteSet(S)
  BY LauncherSessionsAssumption, FS_Subset
<1>2. Cardinality(S) \in Nat /\ ExistsBijection(1..Cardinality(S), S)
  BY <1>1, FS_CardinalityType
<1>3. \E list \in [1..Cardinality(S) -> S] : IsInjective(list)
  BY <1>2 DEF ExistsBijection, Bijection, Injection
<1>4. SetToSeq(S) \in [1..Cardinality(S) -> S] /\ IsInjective(SetToSeq(S))
  BY <1>3 DEF SetToSeq
<1> QED BY <1>2, <1>4 DEF IsInjective

\* Nothing makes a session run in a directory where none is tracked, but what waits
\* or is on its way.
LEMMA NotThere ==
  ASSUME Always, RunningIsTracked, NEW d \in Dirs \ RunningDirectories
  PROVE  ~HasTask(d) /\ ~HasExit(d)
<1>1. ASSUME NEW n \in TaskNumbers, RunsIn(d, n) PROVE FALSE
  <2>1. task[n].id \in DOMAIN tasks /\ tasks[task[n].id] = n
    BY <1>1, Numbers DEF RunningIsTracked, RunsIn, Always, SessionTypes, Named
  <2> QED BY <1>1, <2>1 DEF RunsIn, RunningDirectories
<1>2. ASSUME NEW e \in ExitsIn(d) PROVE FALSE
  <2>1. e.id \in DOMAIN tasks /\ task[e.id].dir = d
    BY DEF ExitsIn, NamedIn
  <2>2. tasks[e.id] \in 1..spawned /\ task[tasks[e.id]].id = e.id
    BY <2>1, PartialFunction DEF Always, SessionTypes, TaskTypes, Named, Tracked
  <2>3. task[tasks[e.id]].dir = d
    BY <2>1, <2>2 DEF Always, Named, TasksNamed
  <2> QED BY <2>1, <2>3 DEF RunningDirectories
<1> QED BY <1>1, <1>2 DEF HasTask, HasExit, Has

LEMMA SameInterval == ASSUME NEW m \in Nat, NEW n \in Nat, 1..m = 1..n PROVE m = n
<1>1. m # 0 => m \in 1..n
  <2>1. m # 0 => m \in 1..m
    OBVIOUS
  <2> QED BY <2>1
<1>2. n # 0 => n \in 1..m
  <2>1. n # 0 => n \in 1..n
    OBVIOUS
  <2> QED BY <2>1
<1> QED BY <1>1, <1>2

LEMMA RegisterStep == ASSUME SessionInv, Register, UNCHANGED mishaps PROVE SessionInv'
<1> DEFINE f == SetToSeq(Missing)
           n == Cardinality(Missing)
           r == [i \in 1..n |-> Launch(f[i], FALSE)]
<1>1. Always /\ UNCHANGED <<file, memory, manager, mishaps>>
  BY DEF Register, SessionInv
<1>2. Missing \in SUBSET Dirs /\ \A d \in Missing : d \notin RunningDirectories
  BY <1>1, PartialFunction DEF Always, SessionTypes, BookTypes, Books, Missing
<1>3. n \in Nat /\ f \in [1..n -> Missing] /\ \A i, j \in 1..n : f[i] = f[j] => i = j
  BY <1>2, Listed
<1> HIDE DEF f, n
<1>4. r \in Seq(Asked) /\ Len(r) = n /\ \A i \in 1..n : r[i] = Launch(f[i], FALSE)
  <2>1. \A i \in 1..n : Launch(f[i], FALSE) \in Asked
    BY <1>2, <1>3, SentIs
  <2>2. r \in [1..n -> Asked] /\ DOMAIN r = 1..n /\ \A i \in 1..n : r[i] = Launch(f[i], FALSE)
    BY <2>1
  <2> HIDE DEF r
  <2>3. r \in Seq(Asked)
    <3>1. \E m \in Nat : r \in [1..m -> Asked]
      BY <1>3, <2>2
    <3> QED BY <3>1, SeqDef
  <2>4. DOMAIN r = 1..Len(r) /\ Len(r) \in Nat
    BY <2>3, LenProperties
  <2>5. n = Len(r)
    <3>1. 1..n = 1..Len(r)
      BY <2>2, <2>4
    <3> QED BY <1>3, <2>4, <3>1, SameInterval
  <2> QED BY <2>2, <2>3, <2>5
<1> HIDE DEF r
<1>5. /\ daemon = "up" /\ socket = "down" /\ socket' = "open"
      /\ "overlap" \in mishaps \/ requests = <<>>
      /\ requests' = requests \o r
      /\ commands' = <<>> /\ running_sessions' = {}
      /\ restart_counts' = [d \in Dirs |-> 0]
      /\ UNCHANGED <<delayed, exit_rx, daemon>>
      /\ Asked' = Asked /\ Sent' = Sent
  BY <1>1, SentStays DEF Register, manager, memory, f, n, r
<1>6. SameTasks
  BY <1>1, ManagerSame
<1>7. SessionTypes'
  <2>1. requests' \in Seq(Asked)
    BY <1>1, <1>4, <1>5, ConcatProperties DEF Always, SessionTypes, LineTypes
  <2>2. commands' \in Seq(Sent)
    BY <1>5, Emptied
  <2>3. restart_counts' \in [Dirs -> Nat]
    BY <1>5
  <2>4. LineTypes'
    BY <1>1, <1>5, <2>1, <2>2, <2>3 DEF Always, SessionTypes, LineTypes
  <2> QED BY <1>1, <2>4, ManagerTypes DEF Always
<1>8. OnTheWay'
  BY <1>1, <1>5 DEF Always, OnTheWay
<1>9. ASSUME OneLaunchAtATime, Kept PROVE OneThing'
  <2> SUFFICES ASSUME NEW d \in Dirs PROVE OfEachOne(d)' /\ OfOneKind(d)'
    BY DEF OneThing
  <2>1. OfEachOne(d) /\ OfOneKind(d) /\ RunningIsTracked
    BY <1>9 DEF Kept, OneThing
  <2>2. requests' = r
    <3>1. requests = <<>>
      BY <1>5, <1>9 DEF OneLaunchAtATime
    <3> QED BY <1>4, <1>5, <3>1, ConcatEmptySeq
  <2>3. ASSUME NEW i \in 1..n, r[i] \in LaunchesIn(d) PROVE f[i] = d /\ d \in Missing
    <3>1. f[i] \in Missing /\ f[i] \in Dirs /\ Launch(f[i], FALSE) \in LaunchesIn(d)
      BY <1>2, <1>3, <1>4, <2>3
    <3> QED BY <3>1, LaunchesAre
  <2>4. Once(requests, LaunchesIn(d))' /\ (HasRequest(d)' => d \in Missing)
    BY <1>3, <1>4, <2>2, <2>3 DEF Once, HasRequest, Has
  <2>5. Once(commands, LaunchesIn(d))' /\ ~HasCommand(d)'
    BY <1>5, Emptied DEF HasCommand
  <2>6. delayed'[d] <= 1 /\ ~Waits(d)'
    BY <1>1, <1>5 DEF Waits, Always, OnTheWay
  <2>7. OfEachOne(d)' /\ (HasTask(d)' => HasTask(d)) /\ (HasExit(d)' => HasExit(d))
    BY <1>1, <1>6, <2>1, <2>4, <2>5, <2>6, Things
  <2>8. HasRequest(d)' => ~HasTask(d) /\ ~HasExit(d)
    BY <1>1, <1>2, <2>1, <2>4, NotThere
  <2>9. ~(HasTask(d) /\ HasExit(d))
    BY <2>1 DEF OfOneKind
  <2> QED BY <2>5, <2>6, <2>7, <2>8, <2>9 DEF OfOneKind
<1> QED BY <1>6, <1>7, <1>8, <1>9, LineStep

LEMMA RequestIs ==
  ASSUME Always, NEW d \in Dirs, NEW scheduled \in BOOLEAN, Request(d, scheduled),
         scheduled => "scheduled" \in mishaps
  PROVE  /\ requests' \in Seq(Asked)
         /\ \A c \in Dirs : Has(requests', LaunchesIn(c)) =>
              Has(requests, LaunchesIn(c)) \/ (c = d /\ ~scheduled)
         /\ \A c \in Dirs : Once(requests, LaunchesIn(c))
              /\ ~(Has(requests, LaunchesIn(c)) /\ c = d /\ ~scheduled) =>
              Once(requests', LaunchesIn(c))
<1>1. requests \in Seq(Asked)
  BY DEF Always, SessionTypes, LineTypes
<1>2. Launch(d, scheduled) \in Asked
  <2>1. CASE scheduled
    <3>1. scheduled = TRUE
      BY <2>1
    <3> QED BY <3>1, <2>1, SentIs
  <2>2. CASE ~scheduled
    <3>1. scheduled = FALSE
      BY <2>2
    <3> QED BY <3>1, SentIs
  <2> QED BY <2>1, <2>2
<1>3. ASSUME NEW c \in Dirs, Launch(d, scheduled) \in LaunchesIn(c) PROVE c = d /\ ~scheduled
  <2>1. scheduled = TRUE \/ scheduled = FALSE
    OBVIOUS
  <2> QED BY <1>3, <2>1, LaunchesAre
<1>4. requests' = Append(requests, Launch(d, scheduled)) \/ requests' = requests
  BY DEF Request
<1>5. CASE requests' = requests
  BY <1>1, <1>5
<1>6. CASE requests' = Append(requests, Launch(d, scheduled))
  BY <1>1, <1>2, <1>3, <1>6, Appended
<1> QED BY <1>4, <1>5, <1>6

LEMMA DelayedRestartStep ==
  ASSUME SessionInv, NEW d \in Dirs, DelayedRestart(d), UNCHANGED mishaps PROVE SessionInv'
<1>1. Always /\ UNCHANGED <<file, memory, manager, mishaps>>
  BY DEF DelayedRestart, SessionInv
<1>2. /\ UNCHANGED <<commands, socket, running_sessions, restart_counts, exit_rx, daemon>>
      /\ Asked' = Asked /\ Sent' = Sent /\ socket # "down" /\ Request(d, FALSE)
      /\ delayed[d] > 0 /\ delayed' = [delayed EXCEPT ![d] = @ - 1]
      /\ delayed \in [Dirs -> Nat]
  BY <1>1, SentStays DEF DelayedRestart, manager, memory, Always, SessionTypes, LineTypes
<1>3. requests' \in Seq(Asked)
  BY <1>1, <1>2, RequestIs
<1>4. SameTasks
  BY <1>1, ManagerSame
<1>5. SessionTypes'
  <2>1. LineTypes'
    BY <1>1, <1>2, <1>3 DEF Always, SessionTypes, LineTypes
  <2> QED BY <1>1, <2>1, ManagerTypes DEF Always
<1>6. OnTheWay'
  BY <1>1, <1>2 DEF Always, OnTheWay
<1>7. ASSUME OneLaunchAtATime, Kept PROVE OneThing'
  <2> SUFFICES ASSUME NEW c \in Dirs PROVE OfEachOne(c)' /\ OfOneKind(c)'
    BY DEF OneThing
  <2>1. OfEachOne(c) /\ OfOneKind(c)
    BY <1>7 DEF Kept, OneThing
  <2>2. Once(commands, LaunchesIn(c))' /\ (HasCommand(c)' => HasCommand(c))
    BY <1>2, <2>1 DEF HasCommand, OfEachOne, Has, Once
  <2>3. /\ HasRequest(c)' => HasRequest(c) \/ c = d
        /\ ~(HasRequest(c) /\ c = d) => Once(requests, LaunchesIn(c))'
    BY <1>1, <1>2, <2>1, RequestIs DEF HasRequest, OfEachOne
  <2>4. CASE c # d
    <3>1. delayed'[c] <= 1 /\ (Waits(c)' => Waits(c))
      BY <1>2, <2>1, <2>4 DEF OfEachOne, Waits
    <3> QED BY <1>1, <1>4, <2>1, <2>2, <2>3, <2>4, <3>1, NothingNew
  <2>5. CASE c = d
    <3>1. Waits(c) /\ ~Waits(c)' /\ delayed'[c] <= 1
      BY <1>2, <2>1, <2>5 DEF OfEachOne, Waits
    <3>2. ~HasRequest(c) /\ ~HasCommand(c) /\ ~HasExit(c) /\ ~HasTask(c)
      BY <2>1, <3>1 DEF OfOneKind
    <3>3. OfEachOne(c)' /\ (HasTask(c)' => HasTask(c)) /\ (HasExit(c)' => HasExit(c))
      BY <1>1, <1>4, <2>1, <2>2, <2>3, <3>1, <3>2, Things
    <3> QED BY <2>2, <3>1, <3>2, <3>3 DEF OfOneKind
  <2> QED BY <2>4, <2>5
<1> QED BY <1>4, <1>5, <1>6, <1>7, LineStep

LEMMA ScheduledLaunchStep ==
  ASSUME SessionInv, NEW d \in Dirs, ScheduledLaunch(d), UNCHANGED mishaps PROVE SessionInv'
<1>1. Always /\ UNCHANGED <<file, memory, manager, mishaps>>
  BY DEF ScheduledLaunch, SessionInv
<1>2. /\ UNCHANGED <<commands, socket, running_sessions, restart_counts, delayed, exit_rx, daemon>>
      /\ Asked' = Asked /\ Sent' = Sent /\ socket # "down" /\ Request(d, TRUE)
      /\ "scheduled" \in mishaps
  BY <1>1, SentStays DEF ScheduledLaunch, restarts, manager, memory
<1>3. requests' \in Seq(Asked)
  BY <1>1, <1>2, RequestIs
<1>4. SameTasks
  BY <1>1, ManagerSame
<1>5. SessionTypes'
  <2>1. LineTypes'
    BY <1>1, <1>2, <1>3 DEF Always, SessionTypes, LineTypes
  <2> QED BY <1>1, <2>1, ManagerTypes DEF Always
<1>6. OnTheWay'
  BY <1>1, <1>2 DEF Always, OnTheWay
<1>7. ASSUME OneLaunchAtATime, Kept PROVE OneThing'
  <2> SUFFICES ASSUME NEW c \in Dirs PROVE OfEachOne(c)' /\ OfOneKind(c)'
    BY DEF OneThing
  <2>1. OfEachOne(c) /\ OfOneKind(c)
    BY <1>7 DEF Kept, OneThing
  <2>2. Once(commands, LaunchesIn(c))' /\ (HasCommand(c)' => HasCommand(c))
    BY <1>2, <2>1 DEF HasCommand, OfEachOne, Has, Once
  <2>3. Once(requests, LaunchesIn(c))' /\ (HasRequest(c)' => HasRequest(c))
    BY <1>1, <1>2, <2>1, RequestIs DEF HasRequest, OfEachOne
  <2>4. delayed'[c] <= 1 /\ (Waits(c)' => Waits(c))
    BY <1>2, <2>1 DEF OfEachOne, Waits
  <2> QED BY <1>1, <1>4, <2>1, <2>2, <2>3, <2>4, NothingNew
<1> QED BY <1>4, <1>5, <1>6, <1>7, LineStep

LEMMA ReceiveRequestStep ==
  ASSUME SessionInv, ReceiveRequest, UNCHANGED mishaps PROVE SessionInv'
<1>1. Always /\ UNCHANGED <<file, memory, manager, mishaps>>
  BY DEF ReceiveRequest, SessionInv
<1>2. /\ UNCHANGED <<socket, running_sessions, restart_counts, delayed, exit_rx, daemon>>
      /\ Asked' = Asked /\ Sent' = Sent
      /\ requests # <<>> /\ requests' = Tail(requests)
      /\ requests \in Seq(Asked) /\ commands \in Seq(Sent)
      /\ \/ commands' = commands
         \/ socket = "open" /\ commands' = Append(commands, Head(requests))
  BY <1>1, SentStays DEF ReceiveRequest, restarts, manager, memory, Always, SessionTypes, LineTypes
<1>3. /\ Tail(requests) \in Seq(Asked) /\ Head(requests) \in Sent
      /\ daemon = "down" => requests = <<>>
  BY <1>1, <1>2, Shortened, SentIs DEF Always, OnTheWay
<1>4. SameTasks
  BY <1>1, ManagerSame
<1>5. SessionTypes'
  <2>1. requests' \in Seq(Asked) /\ commands' \in Seq(Sent)
    BY <1>2, <1>3, AppendProperties, SMTT(20)
  <2>2. LineTypes'
    BY <1>1, <1>2, <2>1 DEF Always, SessionTypes, LineTypes
  <2> QED BY <1>1, <2>2, ManagerTypes DEF Always
<1>6. OnTheWay'
  BY <1>1, <1>2, <1>3 DEF Always, OnTheWay
<1>7. ASSUME OneLaunchAtATime, Kept PROVE OneThing'
  <2> SUFFICES ASSUME NEW d \in Dirs PROVE OfEachOne(d)' /\ OfOneKind(d)'
    BY DEF OneThing
  <2>1. OfEachOne(d) /\ OfOneKind(d)
    BY <1>7 DEF Kept, OneThing
  <2>2. /\ Once(requests, LaunchesIn(d))' /\ (HasRequest(d)' => HasRequest(d))
        /\ Head(requests) \in LaunchesIn(d) => HasRequest(d) /\ ~HasRequest(d)'
    BY <1>2, <2>1, Shortened DEF HasRequest, OfEachOne
  <2>3. /\ HasCommand(d)' => HasCommand(d) \/ Head(requests) \in LaunchesIn(d)
        /\ ~(HasCommand(d) /\ Head(requests) \in LaunchesIn(d)) => Once(commands, LaunchesIn(d))'
    <3>1. CASE commands' = commands
      BY <3>1, <2>1 DEF HasCommand, OfEachOne, Has, Once
    <3>2. CASE commands' = Append(commands, Head(requests))
      BY <1>2, <1>3, <2>1, <3>2, Appended DEF HasCommand, OfEachOne
    <3> QED BY <1>2, <3>1, <3>2
  <2>4. delayed'[d] <= 1 /\ (Waits(d)' => Waits(d))
    BY <1>2, <2>1 DEF OfEachOne, Waits
  <2>5. ~(HasCommand(d) /\ Head(requests) \in LaunchesIn(d))
    BY <2>1, <2>2 DEF OfOneKind
  <2>6. OfEachOne(d)' /\ (HasTask(d)' => HasTask(d)) /\ (HasExit(d)' => HasExit(d))
    BY <1>1, <1>4, <2>1, <2>2, <2>3, <2>4, <2>5, Things
  <2> QED BY <2>1, <2>2, <2>3, <2>4, <2>6 DEF OfOneKind
<1> QED BY <1>4, <1>5, <1>6, <1>7, LineStep

LEMMA UserLaunchesStep ==
  ASSUME SessionInv, NEW d \in Dirs, UserLaunches(d), UNCHANGED mishaps PROVE SessionInv'
<1>1. Always /\ UNCHANGED <<file, memory, manager, mishaps>>
  BY DEF UserLaunches, SessionInv
<1>2. /\ UNCHANGED <<requests, socket, running_sessions, restart_counts, delayed, exit_rx, daemon>>
      /\ Asked' = Asked /\ Sent' = Sent
      /\ socket = "open" /\ commands' = Append(commands, Launch(d, FALSE))
      /\ requests \in Seq(Asked) /\ commands \in Seq(Sent) /\ Launch(d, FALSE) \in Sent
      /\ "twice" \in mishaps \/ Quiet(d)
  BY <1>1, SentStays, SentIs DEF UserLaunches, restarts, manager, memory, Always, SessionTypes, LineTypes
<1>4. SameTasks
  BY <1>1, ManagerSame
<1>5. SessionTypes'
  <2>1. commands' \in Seq(Sent)
    BY <1>2, AppendProperties
  <2>2. LineTypes'
    BY <1>1, <1>2, <2>1 DEF Always, SessionTypes, LineTypes
  <2> QED BY <1>1, <2>2, ManagerTypes DEF Always
<1>6. OnTheWay'
  BY <1>1, <1>2 DEF Always, OnTheWay
<1>7. ASSUME OneLaunchAtATime, Kept PROVE OneThing'
  <2> SUFFICES ASSUME NEW c \in Dirs PROVE OfEachOne(c)' /\ OfOneKind(c)'
    BY DEF OneThing
  <2>1. OfEachOne(c) /\ OfOneKind(c)
    BY <1>7 DEF Kept, OneThing
  <2>2. Once(requests, LaunchesIn(c))' /\ (HasRequest(c)' => HasRequest(c))
    BY <1>2, <2>1 DEF HasRequest, OfEachOne, Has, Once
  <2>3. /\ HasCommand(c)' => HasCommand(c) \/ c = d
        /\ ~(HasCommand(c) /\ c = d) => Once(commands, LaunchesIn(c))'
    BY <1>2, <2>1, Appended, LaunchesAre DEF HasCommand, OfEachOne
  <2>4. delayed'[c] <= 1 /\ (Waits(c)' => Waits(c))
    BY <1>2, <2>1 DEF OfEachOne, Waits
  <2>5. CASE c # d
    BY <1>1, <1>4, <2>1, <2>2, <2>3, <2>4, <2>5, NothingNew
  <2>6. CASE c = d
    <3>1. Quiet(c)
      BY <1>2, <1>7, <2>6 DEF OneLaunchAtATime
    <3>2. ~HasTask(c)
      BY <3>1 DEF Quiet, HasTask, RunsIn
    <3>3. ~HasRequest(c) /\ ~HasCommand(c)
      <4>1. \A m \in ToSet(requests) \union ToSet(commands) : m.dir # c
        BY <3>1 DEF Quiet
      <4>2. \A i \in 1..Len(requests) : requests[i].dir # c
        BY <1>2, <4>1, LenProperties DEF ToSet
      <4>3. \A i \in 1..Len(commands) : commands[i].dir # c
        BY <1>2, <4>1, LenProperties DEF ToSet
      <4> QED BY <4>2, <4>3 DEF HasRequest, HasCommand, Has, LaunchesIn
    <3>4. ~HasExit(c)
      <4> SUFFICES ASSUME NEW i \in 1..Len(exit_rx), exit_rx[i] \in ExitsIn(c) PROVE FALSE
        BY DEF HasExit, Has
      <4>1. exit_rx[i].id \in DOMAIN tasks /\ task[exit_rx[i].id].dir = c
        BY DEF ExitsIn, NamedIn
      <4>2. task[tasks[exit_rx[i].id]].dir # c
        <5>1. i \in DOMAIN exit_rx
          BY <1>1, LenProperties DEF Always, SessionTypes, LineTypes
        <5> QED BY <3>1, <4>1, <5>1 DEF Quiet
      <4>3. tasks[exit_rx[i].id] \in 1..spawned /\ task[tasks[exit_rx[i].id]].id = exit_rx[i].id
        BY <1>1, <4>1, PartialFunction DEF Always, SessionTypes, TaskTypes, Named, Tracked
      <4> QED BY <1>1, <4>1, <4>2, <4>3 DEF Always, Named, TasksNamed
    <3>5. ~Waits(c)
      BY <3>1 DEF Quiet, Waits
    <3>6. OfEachOne(c)' /\ (HasTask(c)' => HasTask(c)) /\ (HasExit(c)' => HasExit(c))
      BY <1>1, <1>4, <2>1, <2>2, <2>3, <2>4, <3>3, Things
    <3> QED BY <2>2, <2>4, <3>2, <3>3, <3>4, <3>5, <3>6 DEF OfOneKind
  <2> QED BY <2>5, <2>6
<1> QED BY <1>4, <1>5, <1>6, <1>7, LineStep

LEMMA DropStep ==
  ASSUME SessionInv, UNCHANGED <<file, memory, restarts, manager, mishaps>>,
         UNCHANGED <<socket, requests, running_sessions>>,
         commands # <<>>, commands' = Tail(commands)
  PROVE  SessionInv'
<1>1. Always /\ UNCHANGED <<file, memory, manager, mishaps>>
  BY DEF SessionInv
<1>2. /\ UNCHANGED <<socket, requests, running_sessions, restart_counts, delayed, exit_rx, daemon>>
      /\ Asked' = Asked /\ Sent' = Sent
      /\ requests \in Seq(Asked) /\ commands \in Seq(Sent)
  BY <1>1, SentStays DEF restarts, manager, memory, Always, SessionTypes, LineTypes
<1>4. SameTasks
  BY <1>1, ManagerSame
<1>5. SessionTypes'
  <2>1. commands' \in Seq(Sent)
    BY <1>2, Shortened
  <2>2. LineTypes'
    BY <1>1, <1>2, <2>1 DEF Always, SessionTypes, LineTypes
  <2> QED BY <1>1, <2>2, ManagerTypes DEF Always
<1>6. OnTheWay'
  BY <1>1, <1>2 DEF Always, OnTheWay
<1>7. ASSUME OneLaunchAtATime, Kept PROVE OneThing'
  <2> SUFFICES ASSUME NEW c \in Dirs PROVE OfEachOne(c)' /\ OfOneKind(c)'
    BY DEF OneThing
  <2>1. OfEachOne(c) /\ OfOneKind(c)
    BY <1>7 DEF Kept, OneThing
  <2>2. Once(requests, LaunchesIn(c))' /\ (HasRequest(c)' => HasRequest(c))
    BY <1>2, <2>1 DEF HasRequest, OfEachOne, Has, Once
  <2>3. Once(commands, LaunchesIn(c))' /\ (HasCommand(c)' => HasCommand(c))
    BY <1>2, <2>1, Shortened DEF HasCommand, OfEachOne
  <2>4. delayed'[c] <= 1 /\ (Waits(c)' => Waits(c))
    BY <1>2, <2>1 DEF OfEachOne, Waits
  <2> QED BY <1>1, <1>4, <2>1, <2>2, <2>3, <2>4, NothingNew
<1> QED BY <1>4, <1>5, <1>6, <1>7, LineStep

\* One task changes.
LEMMA OneChanges ==
  ASSUME Always, NEW n \in TaskNumbers, NEW t \in TaskState, task' = [task EXCEPT ![n] = t],
         spawned' = spawned, t.id = task[n].id, t.dir = task[n].dir,
         t.scheduled <=> task[n].scheduled, t.at # "none", Alive(n) \/ t.at = "over",
         task[n].at # "none"
  PROVE  /\ OnlyEnds
         /\ \A m \in TaskNumbers : m # n => task'[m] = task[m] /\ (Alive(m)' <=> Alive(m))
         /\ Alive(n)' <=> t.at \in {"up", "told"}
         /\ task'[n] = t
<1>1. task \in [TaskNumbers -> TaskState]
  BY DEF Always, SessionTypes, TaskTypes
<1>2. task' \in [TaskNumbers -> TaskState]
  BY <1>1
<1>3. task'[n] = t /\ \A m \in TaskNumbers : m # n => task'[m] = task[m]
  BY <1>1
<1>4. Alive(n)' <=> t.at \in {"up", "told"}
  BY <1>3 DEF Alive
<1>5. \A m \in TaskNumbers : m # n => (Alive(m)' <=> Alive(m))
  BY <1>3 DEF Alive
<1>6. t.at \in {"up", "told"} => Alive(n)
  OBVIOUS
<1>7. OnlyEnds
  <2> SUFFICES ASSUME NEW m \in TaskNumbers
               PROVE  /\ task'[m].id = task[m].id /\ task'[m].dir = task[m].dir
                      /\ task'[m].scheduled <=> task[m].scheduled
                      /\ task'[m].at = "none" <=> task[m].at = "none"
                      /\ Alive(m)' => Alive(m)
    BY <1>2 DEF OnlyEnds
  <2>1. CASE m = n
    BY <1>3, <1>4, <1>6, <2>1
  <2>2. CASE m # n
    BY <1>3, <1>5, <2>2
  <2> QED BY <2>1, <2>2
<1> QED BY <1>3, <1>4, <1>5, <1>7

LEMMA AtSet ==
  ASSUME Always, NEW n \in TaskNumbers, NEW at \in {"told", "over"}, task[n].at # "none",
         Alive(n) \/ at = "over", task' = [task EXCEPT ![n].at = at], spawned' = spawned
  PROVE  /\ OnlyEnds
         /\ \A m \in TaskNumbers : m # n => task'[m] = task[m] /\ (Alive(m)' <=> Alive(m))
         /\ Alive(n)' <=> at = "told"
<1> DEFINE t == [task[n] EXCEPT !.at = at]
<1>1. task[n] \in TaskState
  BY DEF Always, SessionTypes, TaskTypes
<1>2. t \in TaskState
  BY <1>1 DEF TaskState
<1>3. t.id = task[n].id /\ t.dir = task[n].dir /\ t.at = at
  BY <1>1 DEF TaskState
<1>4. t.scheduled = task[n].scheduled
  BY <1>1 DEF TaskState
<1>5. task' = [task EXCEPT ![n] = t]
  OBVIOUS
<1> HIDE DEF t
<1> QED BY <1>2, <1>3, <1>4, <1>5, OneChanges

LEMMA SameTypes ==
  ASSUME SessionTypes, SameTasks, LineTypes'
  PROVE  SessionTypes'
BY DEF SessionTypes, BookTypes, TaskTypes, SameTasks, OnlyEnds

\* The session tasks change, and the commands; those who have one thing keep it.
LEMMA TaskStep ==
  ASSUME SessionInv, SameTasks, UNCHANGED <<restarts, socket, requests, running_sessions>>,
         \/ commands' = commands
         \/ /\ socket = "open"
            /\ \E id \in Ids : commands' = Append(commands, StopSession(id))
  PROVE  SessionInv'
<1>1. Always
  BY DEF SessionInv
<1>2. /\ UNCHANGED <<socket, requests, running_sessions, restart_counts, delayed, exit_rx, daemon,
                     tasks>>
      /\ Asked' = Asked /\ Sent' = Sent
      /\ requests \in Seq(Asked) /\ commands \in Seq(Sent)
  BY <1>1, SentStays DEF restarts, SameTasks, Always, SessionTypes, LineTypes
<1>3. commands' \in Seq(Sent)
  BY <1>2, AppendProperties, SentIs
<1>5. SessionTypes'
  <2>2. LineTypes'
    BY <1>1, <1>2, <1>3 DEF Always, SessionTypes, LineTypes
  <2> QED BY <1>1, <2>2, SameTypes DEF Always
<1>6. OnTheWay'
  BY <1>1, <1>2 DEF Always, OnTheWay, SameTasks
<1>7. ASSUME OneLaunchAtATime, Kept PROVE OneThing'
  <2> SUFFICES ASSUME NEW c \in Dirs PROVE OfEachOne(c)' /\ OfOneKind(c)'
    BY DEF OneThing
  <2>1. OfEachOne(c) /\ OfOneKind(c)
    BY <1>7 DEF Kept, OneThing
  <2>2. Once(requests, LaunchesIn(c))' /\ (HasRequest(c)' => HasRequest(c))
    BY <1>2, <2>1 DEF HasRequest, OfEachOne, Has, Once
  <2>3. Once(commands, LaunchesIn(c))' /\ (HasCommand(c)' => HasCommand(c))
    <3>1. CASE commands' = commands
      BY <2>1, <3>1 DEF HasCommand, OfEachOne, Has, Once
    <3>2. CASE \E id \in Ids : commands' = Append(commands, StopSession(id))
      <4>1. PICK id \in Ids : commands' = Append(commands, StopSession(id))
        BY <3>2
      <4>2. StopSession(id) \in Sent /\ StopSession(id) \notin LaunchesIn(c)
        BY SentIs, LaunchesAre
      <4> QED BY <1>2, <2>1, <4>1, <4>2, Appended DEF HasCommand, OfEachOne
    <3> QED BY <3>1, <3>2
  <2>4. delayed'[c] <= 1 /\ (Waits(c)' => Waits(c))
    BY <1>2, <2>1 DEF OfEachOne, Waits
  <2> QED BY <1>1, <2>1, <2>2, <2>3, <2>4, NothingNew
<1> QED BY <1>5, <1>6, <1>7, LineStep

LEMMA ReplaceStep ==
  ASSUME SessionInv, NEW n \in TaskNumbers, Replace(n), UNCHANGED mishaps PROVE SessionInv'
<1> DEFINE t == [task[n] EXCEPT !.resume = FALSE, !.now = MaxTasks + n]
<1>1. Always
  BY DEF SessionInv
<1>2. task[n] \in TaskState /\ Alive(n) /\ task[n].at # "none" /\ MaxTasks + n \in Ids
  BY <1>1, LauncherSessionsAssumption
     DEF Replace, Always, SessionTypes, TaskTypes, Ids, TaskNumbers, Alive
<1>3. t \in TaskState
  BY <1>2 DEF TaskState
<1>4. t.id = task[n].id /\ t.dir = task[n].dir /\ t.at = task[n].at
  BY <1>2 DEF TaskState
<1>5. t.scheduled = task[n].scheduled
  BY <1>2 DEF TaskState
<1>6. task' = [task EXCEPT ![n] = t] /\ spawned' = spawned
  BY DEF Replace
<1> HIDE DEF t
<1>7. /\ OnlyEnds /\ (Alive(n)' <=> t.at \in {"up", "told"})
      /\ \A m \in TaskNumbers : m # n => (Alive(m)' <=> Alive(m))
  BY <1>1, <1>2, <1>3, <1>4, <1>5, <1>6, OneChanges, ZenonT(40)
<1>8. SameTasks
  BY <1>2, <1>4, <1>7 DEF SameTasks, Replace, file, memory, Alive
<1> QED BY <1>8, TaskStep DEF Replace, line

LEMMA UserStopsStep ==
  ASSUME SessionInv, NEW n \in TaskNumbers, UserStops(n), UNCHANGED mishaps PROVE SessionInv'
<1>1. Always
  BY DEF SessionInv
<1>2. task[n].at = "up" /\ task' = [task EXCEPT ![n].at = "told"] /\ spawned' = spawned
  BY DEF UserStops
<1>3. OnlyEnds /\ \A m \in TaskNumbers : Alive(m)' <=> Alive(m)
  BY <1>1, <1>2, AtSet DEF Alive
<1>4. SameTasks
  BY <1>3 DEF SameTasks, UserStops, file, memory
<1>5. \/ commands' = commands
      \/ /\ socket = "open"
         /\ \E id \in Ids : commands' = Append(commands, StopSession(id))
  BY <1>1 DEF UserStops, Always, SessionTypes, LineTypes
<1> QED BY <1>4, <1>5, TaskStep DEF UserStops

-----------------------------------------------------------------------------
(* The config file, start and end of the process.                           *)

LEMMA NothingMoves ==
  ASSUME UNCHANGED <<mishaps, restarts, manager, line>>
  PROVE  /\ TaskTypes' <=> TaskTypes
         /\ (TasksNamed' <=> TasksNamed) /\ (Tracked' <=> Tracked) /\ (ExitsNamed' <=> ExitsNamed)
         /\ \A d, id : NamedIn(d, id)' <=> NamedIn(d, id)
         /\ RunningIsTracked' <=> RunningIsTracked
         /\ OneThing' <=> OneThing
<1>1. UNCHANGED <<mishaps, delayed, tasks, task, spawned, exit_rx, requests, commands>>
  BY DEF restarts, manager, line
<1>2. \A d, id : NamedIn(d, id)' <=> NamedIn(d, id)
  BY <1>1 DEF NamedIn
<1>3. (TaskTypes' <=> TaskTypes) /\ (TasksNamed' <=> TasksNamed) /\ (Tracked' <=> Tracked)
      /\ (ExitsNamed' <=> ExitsNamed)
  BY <1>1 DEF TaskTypes, TasksNamed, Tracked, ExitsNamed
<1>4. RunningIsTracked' <=> RunningIsTracked
  BY <1>1 DEF RunningIsTracked, Alive
<1>5. \A d : ExitsIn(d)' = ExitsIn(d)
  BY <1>1, <1>2 DEF ExitsIn
<1>6. \A d : HasTask(d)' <=> HasTask(d)
  BY <1>1 DEF HasTask, RunsIn, Alive
<1>7. \A d : /\ (HasRequest(d)' <=> HasRequest(d)) /\ (HasCommand(d)' <=> HasCommand(d))
             /\ (HasExit(d)' <=> HasExit(d)) /\ (Waits(d)' <=> Waits(d))
  BY <1>1, <1>5 DEF HasRequest, HasCommand, HasExit, Waits, Has
<1>8. \A d : OfEachOne(d)' <=> OfEachOne(d)
  BY <1>1, <1>5 DEF OfEachOne, Once, RunsIn, Alive
<1>9. \A d : OfOneKind(d)' <=> OfOneKind(d)
  BY <1>6, <1>7 DEF OfOneKind
<1> QED BY <1>2, <1>3, <1>4, <1>8, <1>9 DEF OneThing

\* The file changes.
LEMMA FileStep ==
  ASSUME SessionInv, UNCHANGED <<mishaps, memory, restarts, manager, line>>,
         BookTypes', BooksNamed',
         Undisturbed => configured' = configured
  PROVE  SessionInv'
<1>1. Always
  BY DEF SessionInv
<1>2. UNCHANGED <<daemon, expected_sessions, restart_counts, delayed, tasks, task, spawned, exit_rx,
                  socket, requests, commands, running_sessions>>
  BY DEF memory, restarts, manager, line
<1>3. Asked' = Asked /\ Sent' = Sent
  BY SentStays
<1>4. SessionTypes'
  BY <1>1, <1>2, <1>3, NothingMoves DEF Always, SessionTypes, LineTypes
<1>5. Named'
  BY <1>1, NothingMoves DEF Always, Named
<1>6. OnTheWay'
  BY <1>1, <1>2 DEF Always, OnTheWay, Alive
<1>7. Reports => Reports'
  BY <1>2 DEF Reports, Alive
<1>8. Kept => Kept'
  BY <1>7, NothingMoves DEF Kept
<1>9. Undisturbed /\ ExpectedRunning => ExpectedRunning'
  BY <1>2 DEF ExpectedRunning, Alive
<1> QED BY <1>4, <1>5, <1>6, <1>8, <1>9, Concluded DEF Always

LEMMA LoginLoadsStep == ASSUME SessionInv, LoginLoads, UNCHANGED mishaps PROVE SessionInv'
<1>1. BookTypes /\ BooksNamed
  BY DEF SessionInv, Always, SessionTypes, Named
<1>2. /\ login' = [reading |-> TRUE, sessions |-> configured] /\ "login" \in mishaps
      /\ UNCHANGED <<configured, expected_sessions, mishaps, memory, restarts, manager, line>>
  BY DEF LoginLoads, memory
<1>3. login'.reading = TRUE /\ login'.sessions = configured
  BY <1>2
<1>4. BookTypes'
  BY <1>1, <1>2 DEF BookTypes
<1>5. BooksNamed'
  <2>1. \A d, id : NamedIn(d, id)' <=> NamedIn(d, id)
    BY <1>2, NothingMoves
  <2> QED BY <1>1, <1>2, <1>3, <2>1 DEF BooksNamed, NamesOf
<1> QED BY <1>2, <1>4, <1>5, FileStep

LEMMA LoginSavesStep == ASSUME SessionInv, LoginSaves, UNCHANGED mishaps PROVE SessionInv'
<1>1. BookTypes /\ BooksNamed
  BY DEF SessionInv, Always, SessionTypes, Named
<1>2. /\ login' = [reading |-> FALSE, sessions |-> Empty] /\ configured' = login.sessions
      /\ login.reading
      /\ UNCHANGED <<expected_sessions, mishaps, memory, restarts, manager, line>>
  BY DEF LoginSaves, memory
<1>3. login'.reading = FALSE /\ login'.sessions = Empty
  BY <1>2
<1>4. BookTypes'
  BY <1>1, <1>2, EmptyIs DEF BookTypes, Books
<1>5. BooksNamed'
  <2>1. \A d, id : NamedIn(d, id)' <=> NamedIn(d, id)
    BY <1>2, NothingMoves
  <2>2. NamesOf(login.sessions)'
    BY <1>3, EmptyIs DEF NamesOf
  <2> QED BY <1>1, <1>2, <1>3, <2>1, <2>2 DEF BooksNamed, NamesOf
<1>6. ~Undisturbed
  BY <1>1, <1>2 DEF BooksNamed, Undisturbed
<1> QED BY <1>2, <1>4, <1>5, <1>6, FileStep

LEMMA StartLauncherStep ==
  ASSUME SessionInv, StartLauncher, UNCHANGED mishaps PROVE SessionInv'
<1>1. Always
  BY DEF SessionInv
<1>2. /\ daemon = "down" /\ daemon' = "up" /\ expected_sessions' = configured
      /\ UNCHANGED <<configured, login, restart_counts, delayed, tasks, task, spawned, exit_rx,
                     socket, requests, commands, running_sessions>>
      /\ UNCHANGED <<mishaps, restarts, manager, line>>
  BY DEF StartLauncher, file, restarts, manager, line
<1>3. Asked' = Asked /\ Sent' = Sent
  BY SentStays
<1>4. SessionTypes'
  BY <1>1, <1>2, <1>3, NothingMoves DEF Always, SessionTypes, LineTypes, BookTypes
<1>5. Named'
  <2>1. BooksNamed'
    BY <1>1, <1>2, NothingMoves DEF Always, Named, BooksNamed, NamesOf
  <2> QED BY <1>1, <1>2, <2>1, NothingMoves DEF Always, Named
<1>6. OnTheWay'
  BY <1>1, <1>2 DEF Always, OnTheWay, Alive
<1>7. Reports => Reports'
  <2>1. Len(exit_rx) = 0 /\ DOMAIN tasks = {}
    BY <1>1, <1>2 DEF Always, OnTheWay
  <2> QED BY <1>2, <2>1 DEF Reports
<1>8. Kept => Kept'
  BY <1>2, <1>7, NothingMoves DEF Kept
<1>9. ExpectedRunning'
  BY <1>1, <1>2 DEF ExpectedRunning, Alive, Always, OnTheWay
<1> QED BY <1>4, <1>5, <1>6, <1>8, <1>9, Concluded DEF Always

LEMMA CrashStep == ASSUME SessionInv, Crash, UNCHANGED mishaps PROVE SessionInv'
<1>1. Always
  BY DEF SessionInv
<1>2. /\ daemon' = "down" /\ expected_sessions' = Empty /\ tasks' = Empty /\ exit_rx' = <<>>
      /\ socket' = "down" /\ requests' = <<>> /\ commands' = <<>> /\ running_sessions' = {}
      /\ delayed' = [d \in Dirs |-> 0]
      /\ UNCHANGED <<configured, login, restart_counts, spawned, mishaps>>
  BY DEF Crash, file
<1>3. task' = [n \in TaskNumbers |-> IF Alive(n) THEN [task[n] EXCEPT !.at = "over"] ELSE task[n]]
  BY DEF Crash
<1>4. ASSUME NEW n \in TaskNumbers
      PROVE  /\ task'[n] \in TaskState /\ task'[n].id = task[n].id /\ task'[n].dir = task[n].dir
             /\ task'[n].scheduled <=> task[n].scheduled
             /\ task'[n].at = "none" <=> task[n].at = "none"
             /\ ~Alive(n)'
  <2>1. task[n] \in TaskState
    BY <1>1 DEF Always, SessionTypes, TaskTypes
  <2>2. CASE Alive(n)
    <3>1. task'[n] = [task[n] EXCEPT !.at = "over"]
      BY <1>3, <2>2
    <3>2. task'[n] \in TaskState /\ task'[n].at = "over"
      BY <2>1, <3>1 DEF TaskState
    <3>3. task'[n].id = task[n].id /\ task'[n].dir = task[n].dir
      BY <2>1, <3>1 DEF TaskState
    <3>4. task'[n].scheduled = task[n].scheduled
      BY <2>1, <3>1 DEF TaskState
    <3>5. ~Alive(n)' /\ task[n].at # "none"
      BY <2>2, <3>2 DEF Alive
    <3> QED BY <3>2, <3>3, <3>4, <3>5
  <2>3. CASE ~Alive(n)
    <3>1. task'[n] = task[n]
      BY <1>3, <2>3
    <3> QED BY <2>1, <2>3, <3>1 DEF Alive
  <2> QED BY <2>2, <2>3
<1>5. task' \in [TaskNumbers -> TaskState]
  <2>1. DOMAIN task' = TaskNumbers /\ task' = [n \in TaskNumbers |-> task'[n]]
    BY <1>3
  <2> QED BY <1>4, <2>1
<1>6. OnlyEnds
  BY <1>2, <1>4, <1>5 DEF OnlyEnds
<1>7. DOMAIN tasks' = {} /\ DOMAIN expected_sessions' = {} /\ expected_sessions' \in Books
      /\ tasks' \in PartialFunctions(1..spawned, 1..spawned)
  BY <1>2, EmptyIs DEF Books
<1>8. Len(exit_rx') = 0 /\ Len(requests') = 0 /\ Len(commands') = 0
  BY <1>2
<1>9. SessionTypes'
  <2>1. BookTypes' /\ TaskTypes'
    BY <1>1, <1>2, <1>5, <1>7 DEF Always, SessionTypes, BookTypes, TaskTypes
  <2>2. LineTypes'
    BY <1>1, <1>2, Emptied DEF Always, SessionTypes, LineTypes
  <2> QED BY <2>1, <2>2 DEF SessionTypes
<1>10. Named'
  <2>1. ExitsNamed'
    BY <1>8 DEF ExitsNamed
  <2>2. Part(tasks', tasks) /\ Part(expected_sessions', expected_sessions)
        /\ Part(configured', configured)
    BY <1>2, <1>7 DEF Part
  <2> QED BY <1>1, <1>2, <1>6, <2>1, <2>2, StepNamed
<1>11. OnTheWay'
  BY <1>2, <1>4, <1>7 DEF OnTheWay
<1>12. Kept'
  <2>1. DOMAIN task' = TaskNumbers
    BY <1>5
  <2>2. RunningIsTracked' /\ Reports'
    BY <1>4, <1>7, <1>8, <2>1 DEF RunningIsTracked, Reports
  <2>3. ASSUME NEW d \in Dirs PROVE OfEachOne(d)' /\ OfOneKind(d)'
    <3>1. \A n \in TaskNumbers : ~RunsIn(d, n)'
      BY <1>4 DEF RunsIn
    <3>2. ~HasTask(d)' /\ ~HasRequest(d)' /\ ~HasCommand(d)' /\ ~HasExit(d)'
      BY <1>8, <3>1 DEF HasTask, HasRequest, HasCommand, HasExit, Has
    <3>3. OfEachOne(d)'
      BY <1>2, <1>8, <3>1 DEF OfEachOne, Once
    <3> QED BY <3>2, <3>3 DEF OfOneKind
  <2> QED BY <2>2, <2>3 DEF Kept, OneThing
<1>13. ExpectedRunning'
  BY <1>2, <1>4 DEF ExpectedRunning
<1> QED BY <1>2, <1>9, <1>10, <1>11, <1>12, <1>13, Concluded DEF Always

LEMMA Stutters == ASSUME SessionInv, UNCHANGED <<svars, mishaps>> PROVE SessionInv'
<1>1. Always
  BY DEF SessionInv
<1>2. UNCHANGED <<file, memory, restarts, manager, line, mishaps>>
  BY DEF svars
<1>3. UNCHANGED <<configured, login, expected_sessions, mishaps, memory, restarts, manager, line>>
  BY <1>2 DEF file, memory
<1>4. BookTypes'
  BY <1>1, <1>3 DEF Always, SessionTypes, BookTypes
<1>5. BooksNamed'
  BY <1>1, <1>3, NothingMoves DEF Always, Named, BooksNamed, NamesOf
<1> QED BY <1>3, <1>4, <1>5, FileStep

-----------------------------------------------------------------------------
(* Tasks that end.                                                          *)

LEMMA EndThings ==
  ASSUME Always, OnlyEnds, UNCHANGED mishaps, NEW d \in Dirs, OfEachOne(d),
         Once(requests, LaunchesIn(d))', Once(commands, LaunchesIn(d))',
         Once(exit_rx, ExitsIn(d))', delayed'[d] <= 1
  PROVE  OfEachOne(d)' /\ (HasTask(d)' => HasTask(d))
BY TasksLess DEF OfEachOne

\* What is known of a task by its name.
LEMMA TaskIs ==
  ASSUME Always, NEW n \in 1..spawned
  PROVE  /\ n \in TaskNumbers /\ task[n] \in TaskState
         /\ task[n].at # "none" /\ task[n].dir \in Dirs
         /\ task[n].id \in 1..spawned /\ task[n].id \in TaskNumbers
         /\ task[n].scheduled => task[n].id = n /\ "scheduled" \in mishaps
         /\ task[task[n].id].id = task[n].id
         /\ task[task[n].id].dir = task[n].dir
         /\ task[task[n].id].scheduled <=> task[n].scheduled
         /\ \A d : NamedIn(d, task[n].id) <=> task[n].dir = d /\ ~task[n].scheduled
<1>1. n \in TaskNumbers /\ task[n].id \in 1..spawned /\ task[n].id \in TaskNumbers
  BY Numbers DEF Always, SessionTypes, Named
<1>2. task[n] \in TaskState
  BY <1>1 DEF Always, SessionTypes, TaskTypes
<1>3. /\ task[n].at # "none" /\ task[n].dir \in Dirs
      /\ task[n].scheduled => task[n].id = n /\ "scheduled" \in mishaps
      /\ task[task[n].id].id = task[n].id
      /\ task[task[n].id].dir = task[n].dir
      /\ task[task[n].id].scheduled <=> task[n].scheduled
  BY DEF Always, Named, TasksNamed
<1>4. \A d : NamedIn(d, task[n].id) <=> task[n].dir = d /\ ~task[n].scheduled
  BY <1>1, <1>3 DEF NamedIn
<1> QED BY <1>1, <1>2, <1>3, <1>4

LEMMA ExitIs ==
  ASSUME Always, NEW n \in 1..spawned, NEW code \in {0, 1}
  PROVE  /\ Exited(n, code) \in Exit /\ Exited(n, code).id = task[n].id
         /\ Exited(n, code).code = code
         /\ \A d : Exited(n, code) \in ExitsIn(d) <=>
              task[n].id \in DOMAIN tasks /\ task[n].dir = d /\ ~task[n].scheduled
<1>1. task[n].id \in 1..MaxTasks
  BY TaskIs DEF TaskNumbers
<1>2. Exited(n, code) \in Exit /\ Exited(n, code).id = task[n].id /\ Exited(n, code).code = code
  BY <1>1 DEF Exited, Exit
<1> QED BY <1>2, TaskIs DEF ExitsIn

LEMMA TaskEndsStep ==
  ASSUME SessionInv, NEW n \in TaskNumbers, TaskEnds(n), UNCHANGED mishaps PROVE SessionInv'
<1>1. Always /\ Alive(n)
  BY DEF SessionInv, TaskEnds
<1>2. n \in 1..spawned
  BY <1>1, Numbers DEF Always, SessionTypes, Named
<1> DEFINE id == task[n].id
<1>3. PICK code \in {0, 1} : /\ code = 1 => "fail" \in mishaps
                             /\ exit_rx' = Append(exit_rx, Exited(n, code))
  BY DEF TaskEnds
<1> DEFINE e == Exited(n, code)
<1>4. e \in Exit /\ e.id = id /\ e.code = code
  BY <1>1, <1>2, ExitIs
<1>5. /\ exit_rx \in Seq(Exit) /\ exit_rx' \in Seq(Exit) /\ Len(exit_rx) \in Nat
      /\ Len(exit_rx') = Len(exit_rx) + 1
      /\ \A i \in 1..Len(exit_rx) : exit_rx'[i] = exit_rx[i]
      /\ exit_rx'[Len(exit_rx) + 1] = e
  BY <1>1, <1>3, <1>4, Appended, LenProperties DEF Always, SessionTypes, LineTypes
<1> HIDE DEF e
<1>6. /\ task[n].at # "none" /\ task' = [task EXCEPT ![n].at = "over"] /\ spawned' = spawned
      /\ UNCHANGED <<configured, login, daemon, expected_sessions, restart_counts, delayed, tasks,
                     socket, requests, commands, running_sessions>>
  BY <1>1, <1>2, TaskIs DEF TaskEnds, file, memory, restarts, line
<1>7. OnlyEnds /\ ~Alive(n)' /\ \A m \in TaskNumbers : m # n => (Alive(m)' <=> Alive(m))
  <2>1. "over" \in {"told", "over"} /\ "over" # "told"
    OBVIOUS
  <2> QED BY <1>1, <1>6, <2>1, AtSet
<1>8. \A i \in 1..Len(exit_rx') : i \in 1..Len(exit_rx) \/ i = Len(exit_rx) + 1
  BY <1>5
<1>9. SessionTypes'
  <2>1. Asked' = Asked /\ Sent' = Sent
    BY SentStays
  <2>2. LineTypes'
    BY <1>1, <1>5, <1>6, <2>1 DEF Always, SessionTypes, LineTypes
  <2>3. BookTypes' /\ TaskTypes'
    BY <1>1, <1>6, <1>7 DEF Always, SessionTypes, BookTypes, TaskTypes, OnlyEnds
  <2> QED BY <2>2, <2>3 DEF SessionTypes
<1>10. Named'
  <2>1. ExitsNamed'
    <3> SUFFICES ASSUME NEW i \in 1..Len(exit_rx')
                 PROVE  /\ exit_rx'[i].id \in 1..spawned'
                        /\ task'[exit_rx'[i].id].id = exit_rx'[i].id
                        /\ exit_rx'[i].code # 0 => "fail" \in mishaps'
      BY DEF ExitsNamed
    <3>1. CASE i \in 1..Len(exit_rx)
      <4>1. /\ exit_rx[i].id \in 1..spawned /\ task[exit_rx[i].id].id = exit_rx[i].id
            /\ exit_rx[i].code # 0 => "fail" \in mishaps
        BY <1>1, <3>1 DEF Always, Named, ExitsNamed
      <4>2. exit_rx[i].id \in TaskNumbers
        BY <1>1, <4>1, Numbers DEF Always, Named, SessionTypes
      <4> QED BY <1>5, <1>6, <1>7, <3>1, <4>1, <4>2 DEF OnlyEnds
    <3>2. CASE i = Len(exit_rx) + 1
      <4>1. id \in 1..spawned /\ id \in TaskNumbers /\ task[id].id = id
        BY <1>1, <1>2, TaskIs
      <4>2. task'[id].id = id
        BY <1>7, <4>1 DEF OnlyEnds
      <4> QED BY <1>3, <1>4, <1>5, <1>6, <3>2, <4>1, <4>2
    <3> QED BY <1>8, <3>1, <3>2
  <2>2. Part(tasks', tasks) /\ Part(expected_sessions', expected_sessions)
        /\ Part(configured', configured)
    BY <1>6 DEF Part
  <2> QED BY <1>1, <1>6, <1>7, <2>1, <2>2, StepNamed
<1>11. OnTheWay'
  BY <1>1, <1>6 DEF Always, OnTheWay
<1>12. ASSUME OneLaunchAtATime, Kept PROVE Kept'
  <2>1. id \in DOMAIN tasks /\ tasks[id] = n
    BY <1>1, <1>2, <1>12, Numbers DEF Kept, RunningIsTracked, Always, SessionTypes, Named
  <2>2. RunningIsTracked'
    <3>1. DOMAIN task' = TaskNumbers /\ DOMAIN task = TaskNumbers
      BY <1>1, <1>7, Numbers DEF OnlyEnds, Always, SessionTypes, Named
    <3> QED BY <1>6, <1>7, <1>12, <3>1 DEF Kept, RunningIsTracked, OnlyEnds
  <2>3. Reports'
    <3>1. ASSUME NEW k \in DOMAIN tasks
          PROVE  Alive(tasks[k])' \/ \E i \in 1..Len(exit_rx') : exit_rx'[i].id = k
      <4>1. tasks[k] \in TaskNumbers /\ task[tasks[k]].id = k
        BY <1>1, PartialFunction, Numbers DEF Always, Named, Tracked, SessionTypes, TaskTypes
      <4>2. CASE tasks[k] = n
        <5>1. Len(exit_rx) + 1 \in 1..Len(exit_rx')
          BY <1>5
        <5> QED BY <1>4, <1>5, <4>1, <4>2, <5>1
      <4>3. CASE tasks[k] # n /\ Alive(tasks[k])
        BY <1>6, <1>7, <4>1, <4>3
      <4>4. CASE ~Alive(tasks[k])
        <5>1. PICK i \in 1..Len(exit_rx) : exit_rx[i].id = k
          BY <1>12, <4>4 DEF Kept, Reports
        <5>2. i \in 1..Len(exit_rx')
          BY <1>5
        <5> QED BY <1>5, <5>1, <5>2
      <4> QED BY <4>2, <4>3, <4>4
    <3>2. \A i \in 1..Len(exit_rx') : exit_rx'[i].id \notin DOMAIN tasks =>
            \A d \in DOMAIN expected_sessions : expected_sessions[d] # exit_rx'[i].id
      BY <1>4, <1>5, <1>8, <1>12, <2>1 DEF Kept, Reports
    <3>3. ASSUME NEW i \in 1..Len(exit_rx'), NEW k, k = exit_rx'[i].id, task'[k].scheduled
          PROVE  ~Alive(k)'
      <4>1. CASE i \in 1..Len(exit_rx)
        <5>1. k = exit_rx[i].id /\ k \in TaskNumbers
          BY <1>1, <1>5, <3>3, <4>1, Numbers DEF Always, Named, SessionTypes, ExitsNamed
        <5>2. task[k].scheduled
          BY <1>7, <3>3, <5>1 DEF OnlyEnds
        <5>3. ~Alive(k)
          BY <1>12, <4>1, <5>1, <5>2 DEF Kept, Reports
        <5> QED BY <1>7, <5>1, <5>3 DEF OnlyEnds
      <4>2. CASE i = Len(exit_rx) + 1
        <5>1. id \in TaskNumbers /\ (task[id].scheduled <=> task[n].scheduled)
              /\ (task[n].scheduled => id = n)
          BY <1>1, <1>2, TaskIs
        <5>2. k = id
          BY <1>4, <1>5, <3>3, <4>2
        <5>3. k = n
          BY <1>7, <3>3, <5>1, <5>2 DEF OnlyEnds
        <5> QED BY <1>7, <5>3
      <4> QED BY <1>8, <4>1, <4>2
    <3>4. \A i \in 1..Len(exit_rx') : task'[exit_rx'[i].id].scheduled =>
            task'[exit_rx'[i].id].at \notin {"up", "told"}
      BY <3>3 DEF Alive
    <3> QED BY <1>6, <3>1, <3>2, <3>4 DEF Reports, Alive
  <2>4. ASSUME NEW d \in Dirs PROVE OfEachOne(d)' /\ OfOneKind(d)'
    <3>1. OfEachOne(d) /\ OfOneKind(d)
      BY <1>12 DEF Kept, OneThing
    <3>2. ExitsIn(d)' = ExitsIn(d)
      <4>1. \A x : NamedIn(d, x)' <=> NamedIn(d, x)
        BY <1>1, <1>7, NamesStay DEF Always, Named, SessionTypes
      <4> QED BY <1>6, <4>1 DEF ExitsIn
    <3>3. e \in ExitsIn(d) => RunsIn(d, n)
      BY <1>1, <1>2, ExitIs DEF e, RunsIn
    <3>4. RunsIn(d, n) => HasTask(d) /\ ~HasTask(d)'
      <4>1. \A m \in TaskNumbers : RunsIn(d, m)' => RunsIn(d, m) /\ m # n
        BY <1>1, <1>7, NamesStay DEF Always, Named, SessionTypes, RunsIn
      <4> QED BY <3>1, <4>1 DEF HasTask, OfEachOne
    <3>5. /\ HasExit(d)' => HasExit(d) \/ e \in ExitsIn(d)
          /\ ~(HasExit(d) /\ e \in ExitsIn(d)) => Once(exit_rx, ExitsIn(d))'
      BY <1>3, <1>4, <1>5, <3>1, <3>2, Appended DEF HasExit, OfEachOne, e
    <3>6. /\ Once(requests, LaunchesIn(d))' /\ Once(commands, LaunchesIn(d))'
          /\ (HasRequest(d)' <=> HasRequest(d)) /\ (HasCommand(d)' <=> HasCommand(d))
          /\ (Waits(d)' <=> Waits(d)) /\ delayed'[d] <= 1
      BY <1>6, <3>1 DEF OfEachOne, HasRequest, HasCommand, Waits, Has, Once
    <3>7. ~(HasExit(d) /\ e \in ExitsIn(d))
      BY <3>1, <3>3, <3>4 DEF OfOneKind
    <3>8. OfEachOne(d)' /\ (HasTask(d)' => HasTask(d))
      BY <1>1, <1>7, <3>1, <3>5, <3>6, <3>7, EndThings
    <3> QED BY <3>1, <3>3, <3>4, <3>5, <3>6, <3>8 DEF OfOneKind
  <2> QED BY <2>2, <2>3, <2>4 DEF Kept, OneThing
<1>13. ExpectedRunning => ExpectedRunning'
  BY <1>6, <1>7 DEF ExpectedRunning, OnlyEnds
<1> QED BY <1>9, <1>10, <1>11, <1>12, <1>13, Concluded DEF Always

LEMMA BookWithout ==
  ASSUME NEW f \in Books, NEW x
  PROVE  /\ Without(f, x) \in Books /\ DOMAIN Without(f, x) = DOMAIN f \ {x}
         /\ Part(Without(f, x), f)
<1>1. f \in PartialFunctions(Dirs, {0} \union Ids)
  BY DEF Books
<1>2. /\ Without(f, x) \in PartialFunctions(Dirs, {0} \union Ids)
      /\ DOMAIN Without(f, x) = DOMAIN f \ {x}
      /\ \A y \in DOMAIN f : y # x => Without(f, x)[y] = f[y]
  BY <1>1, WithoutIs, WithoutShape
<1> QED BY <1>2 DEF Books, Part

LEMMA StoppedStep ==
  ASSUME SessionInv, NEW id \in DOMAIN tasks, Stopped(id),
         UNCHANGED <<login, daemon, restarts, spawned, socket, requests, running_sessions, mishaps>>,
         commands' = commands \/ (commands # <<>> /\ commands' = Tail(commands)),
         \/ Forgotten(task[tasks[id]].dir)
         \/ task[tasks[id]].scheduled /\ UNCHANGED <<expected_sessions, configured>>
  PROVE  SessionInv'
<1> PICK n : n = tasks[id]
  OBVIOUS
<1> PICK dir : dir = task[n].dir
  OBVIOUS
<1> PICK e : e = Exited(n, 0)
  OBVIOUS
<1>1. Always
  BY DEF SessionInv
<1>2. /\ n \in 1..spawned /\ n \in TaskNumbers /\ task[n].id = id
      /\ tasks \in PartialFunctions(1..spawned, 1..spawned)
      /\ configured \in Books /\ expected_sessions \in Books
  BY <1>1, PartialFunction, Numbers
     DEF Always, Named, Tracked, SessionTypes, TaskTypes, BookTypes
<1>3. /\ task[n].at # "none" /\ dir \in Dirs /\ id \in 1..spawned /\ id \in TaskNumbers
      /\ (task[n].scheduled => id = n /\ "scheduled" \in mishaps)
      /\ \A d : NamedIn(d, id) <=> dir = d /\ ~task[n].scheduled
  <2>1. /\ task[n].at # "none" /\ dir \in Dirs /\ task[n].id \in 1..spawned
        /\ task[n].id \in TaskNumbers
        /\ (task[n].scheduled => task[n].id = n /\ "scheduled" \in mishaps)
    BY <1>1, <1>2, TaskIs
  <2>2. \A d : NamedIn(d, task[n].id) <=> task[n].dir = d /\ ~task[n].scheduled
    BY <1>1, <1>2, TaskIs
  <2> QED BY <1>2, <2>1, <2>2
<1>4. e \in Exit /\ e.id = id /\ e.code = 0
  BY <1>1, <1>2, ExitIs
<1>5. /\ tasks' \in PartialFunctions(1..spawned, 1..spawned)
      /\ DOMAIN tasks' = DOMAIN tasks \ {id}
      /\ \A k \in DOMAIN tasks : k # id => tasks'[k] = tasks[k]
      /\ task' = [task EXCEPT ![n].at = "over"]
      /\ exit_rx' = exit_rx \/ exit_rx' = Append(exit_rx, e)
  <2>1. tasks' = Without(tasks, id)
    BY DEF Stopped
  <2>2. task' = [task EXCEPT ![n].at = "over"] /\ (exit_rx' = exit_rx \/ exit_rx' = Append(exit_rx, e))
    BY DEF Stopped
  <2>3. /\ Without(tasks, id) \in PartialFunctions(1..spawned, 1..spawned)
        /\ DOMAIN Without(tasks, id) = DOMAIN tasks \ {id}
        /\ \A k \in DOMAIN tasks : k # id => Without(tasks, id)[k] = tasks[k]
    BY <1>2, WithoutIs, WithoutShape
  <2> QED BY <2>1, <2>2, <2>3
<1>6. /\ UNCHANGED <<login, daemon, restart_counts, delayed, spawned, socket, requests,
                     running_sessions, mishaps>>
      /\ Asked' = Asked /\ Sent' = Sent
  BY SentStays DEF restarts
<1>7. OnlyEnds /\ ~Alive(n)' /\ \A m \in TaskNumbers : m # n => (Alive(m)' <=> Alive(m))
  <2>1. "over" \in {"told", "over"} /\ "over" # "told"
    OBVIOUS
  <2> QED BY <1>1, <1>2, <1>3, <1>5, <1>6, <2>1, AtSet
<1>8. /\ exit_rx' \in Seq(Exit) /\ Len(exit_rx) \in Nat
      /\ \A i \in 1..Len(exit_rx) : i \in 1..Len(exit_rx') /\ exit_rx'[i] = exit_rx[i]
      /\ \A i \in 1..Len(exit_rx') : i \in 1..Len(exit_rx) \/ exit_rx'[i] = e
  <2>1. exit_rx \in Seq(Exit) /\ Len(exit_rx) \in Nat
    BY <1>1, LenProperties DEF Always, SessionTypes, LineTypes
  <2>2. CASE exit_rx' = exit_rx
    BY <2>1, <2>2
  <2>3. CASE exit_rx' = Append(exit_rx, e)
    <3>1. /\ exit_rx' \in Seq(Exit) /\ Len(exit_rx') = Len(exit_rx) + 1
          /\ \A i \in 1..Len(exit_rx) : exit_rx'[i] = exit_rx[i]
          /\ exit_rx'[Len(exit_rx) + 1] = e
      BY <1>4, <2>1, <2>3, AppendProperties
    <3> QED BY <2>1, <3>1
  <2> QED BY <1>5, <2>2, <2>3
<1>9. /\ Part(expected_sessions', expected_sessions) /\ Part(configured', configured)
      /\ expected_sessions' \in Books /\ configured' \in Books
      /\ configured = expected_sessions => configured' = expected_sessions'
      /\ task[n].scheduled \/ /\ DOMAIN expected_sessions' = DOMAIN expected_sessions \ {dir}
                              /\ DOMAIN configured' = DOMAIN configured \ {dir}
  <2>1. CASE Forgotten(dir)
    <3>1. /\ expected_sessions' = Without(expected_sessions, dir)
          /\ configured' = Without(configured, dir)
      BY <2>1 DEF Forgotten
    <3>2. /\ expected_sessions' \in Books
          /\ DOMAIN expected_sessions' = DOMAIN expected_sessions \ {dir}
          /\ Part(expected_sessions', expected_sessions)
      BY <1>2, <3>1, BookWithout
    <3>3. /\ configured' \in Books /\ DOMAIN configured' = DOMAIN configured \ {dir}
          /\ Part(configured', configured)
      BY <1>2, <3>1, BookWithout
    <3> QED BY <3>1, <3>2, <3>3
  <2>2. CASE task[n].scheduled /\ UNCHANGED <<expected_sessions, configured>>
    BY <1>2, <2>2 DEF Part
  <2> QED BY <2>1, <2>2
<1>10. \A d \in DOMAIN expected_sessions' : expected_sessions'[d] # id
  <2> SUFFICES ASSUME NEW d \in DOMAIN expected_sessions', expected_sessions'[d] = id
               PROVE  FALSE
    OBVIOUS
  <2>1. d \in DOMAIN expected_sessions /\ expected_sessions[d] = id /\ id # 0
    BY <1>3, <1>9 DEF Part
  <2>2. NamedIn(d, id)
    BY <1>1, <2>1 DEF Always, Named, BooksNamed, NamesOf
  <2> QED BY <1>3, <1>9, <2>2
<1>11. SessionTypes'
  <2>1. commands' \in Seq(Sent)
    <3>1. commands \in Seq(Sent)
      BY <1>1 DEF Always, SessionTypes, LineTypes
    <3> QED BY <3>1, Shortened
  <2>2. LineTypes'
    BY <1>1, <1>6, <1>8, <2>1 DEF Always, SessionTypes, LineTypes
  <2>3. BookTypes' /\ TaskTypes'
    BY <1>1, <1>5, <1>6, <1>7, <1>9 DEF Always, SessionTypes, BookTypes, TaskTypes, OnlyEnds
  <2> QED BY <2>2, <2>3 DEF SessionTypes
<1>12. Named'
  <2>1. ExitsNamed'
    <3> SUFFICES ASSUME NEW i \in 1..Len(exit_rx')
                 PROVE  /\ exit_rx'[i].id \in 1..spawned'
                        /\ task'[exit_rx'[i].id].id = exit_rx'[i].id
                        /\ exit_rx'[i].code # 0 => "fail" \in mishaps'
      BY DEF ExitsNamed
    <3>1. CASE i \in 1..Len(exit_rx)
      <4>1. /\ exit_rx[i].id \in 1..spawned /\ task[exit_rx[i].id].id = exit_rx[i].id
            /\ exit_rx[i].code # 0 => "fail" \in mishaps
        BY <1>1, <3>1 DEF Always, Named, ExitsNamed
      <4>2. exit_rx[i].id \in TaskNumbers
        BY <1>1, <4>1, Numbers DEF Always, Named, SessionTypes
      <4> QED BY <1>6, <1>7, <1>8, <3>1, <4>1, <4>2 DEF OnlyEnds
    <3>2. CASE exit_rx'[i] = e
      <4>1. task[id].id = id
        BY <1>1, <1>2, TaskIs
      <4>2. task'[id].id = id
        BY <1>3, <1>7, <4>1 DEF OnlyEnds
      <4> QED BY <1>3, <1>4, <1>6, <3>2, <4>2
    <3> QED BY <1>8, <3>1, <3>2
  <2>2. Part(tasks', tasks)
    BY <1>5 DEF Part
  <2> QED BY <1>1, <1>6, <1>7, <1>9, <2>1, <2>2, StepNamed
<1>13. OnTheWay'
  <2>1. daemon # "down"
    BY <1>1 DEF Always, OnTheWay
  <2>2. socket # "open" => commands' = <<>>
    BY <1>1 DEF Always, OnTheWay
  <2> QED BY <1>1, <1>6, <2>1, <2>2 DEF Always, OnTheWay
<1>14. ASSUME OneLaunchAtATime, Kept PROVE Kept'
  <2>1. RunningIsTracked'
    <3> SUFFICES ASSUME NEW m \in TaskNumbers, Alive(m)'
                 PROVE  task'[m].id \in DOMAIN tasks' /\ tasks'[task'[m].id] = m
      <4>1. DOMAIN task' = TaskNumbers
        BY <1>7 DEF OnlyEnds
      <4> QED BY <4>1 DEF RunningIsTracked
    <3>1. Alive(m) /\ m # n /\ task'[m].id = task[m].id /\ m \in DOMAIN task
      BY <1>1, <1>7, Numbers DEF OnlyEnds, Always, SessionTypes, Named
    <3>2. task[m].id \in DOMAIN tasks /\ tasks[task[m].id] = m
      BY <1>14, <3>1 DEF Kept, RunningIsTracked
    <3> QED BY <1>5, <3>1, <3>2
  <2>2. Reports'
    <3>1. ASSUME NEW k \in DOMAIN tasks', NEW m, m = tasks'[k]
          PROVE  Alive(m)' \/ \E i \in 1..Len(exit_rx') : exit_rx'[i].id = k
      <4>1. k \in DOMAIN tasks /\ k # id /\ m = tasks[k]
        BY <1>5, <3>1
      <4>2. m \in TaskNumbers /\ task[m].id = k
        BY <1>1, <4>1, PartialFunction, Numbers DEF Always, Named, Tracked, SessionTypes, TaskTypes
      <4>3. m # n
        BY <1>2, <4>1, <4>2
      <4>4. CASE Alive(m)
        BY <1>7, <4>2, <4>3, <4>4
      <4>5. CASE ~Alive(m)
        <5>1. PICK i \in 1..Len(exit_rx) : exit_rx[i].id = k
          BY <1>14, <4>1, <4>5 DEF Kept, Reports
        <5> QED BY <1>8, <5>1
      <4> QED BY <4>4, <4>5
    <3>2. ASSUME NEW i \in 1..Len(exit_rx'), exit_rx'[i].id \notin DOMAIN tasks',
                 NEW d \in DOMAIN expected_sessions'
          PROVE  expected_sessions'[d] # exit_rx'[i].id
      <4>1. CASE exit_rx'[i].id = id
        BY <1>10, <4>1
      <4>2. CASE exit_rx'[i].id # id
        <5>1. i \in 1..Len(exit_rx) /\ exit_rx'[i] = exit_rx[i] /\ exit_rx[i].id \notin DOMAIN tasks
          BY <1>4, <1>5, <1>8, <3>2, <4>2
        <5>2. d \in DOMAIN expected_sessions /\ expected_sessions'[d] = expected_sessions[d]
          BY <1>9 DEF Part
        <5> QED BY <1>14, <5>1, <5>2 DEF Kept, Reports
      <4> QED BY <4>1, <4>2
    <3>3. ASSUME NEW i \in 1..Len(exit_rx'), NEW k, k = exit_rx'[i].id, task'[k].scheduled
          PROVE  ~Alive(k)'
      <4>1. CASE i \in 1..Len(exit_rx)
        <5>1. k = exit_rx[i].id /\ k \in TaskNumbers
          BY <1>1, <1>8, <3>3, <4>1, Numbers DEF Always, Named, SessionTypes, ExitsNamed
        <5>2. task[k].scheduled
          BY <1>7, <3>3, <5>1 DEF OnlyEnds
        <5>3. ~Alive(k)
          BY <1>14, <4>1, <5>1, <5>2 DEF Kept, Reports
        <5> QED BY <1>7, <5>1, <5>3 DEF OnlyEnds
      <4>2. CASE exit_rx'[i] = e
        <5>1. id \in TaskNumbers /\ (task[id].scheduled <=> task[n].scheduled)
          BY <1>1, <1>2, TaskIs
        <5>2. k = id
          BY <1>4, <3>3, <4>2
        <5>3. k = n
          BY <1>3, <1>7, <3>3, <5>1, <5>2 DEF OnlyEnds
        <5> QED BY <1>7, <5>3
      <4> QED BY <1>8, <4>1, <4>2
    <3>4. /\ \A k \in DOMAIN tasks' : task'[tasks'[k]].at \in {"up", "told"}
               \/ \E i \in 1..Len(exit_rx') : exit_rx'[i].id = k
          /\ \A i \in 1..Len(exit_rx') : task'[exit_rx'[i].id].scheduled =>
               task'[exit_rx'[i].id].at \notin {"up", "told"}
      BY <3>1, <3>3 DEF Alive
    <3> QED BY <3>2, <3>4 DEF Reports, Alive
  <2>3. ASSUME NEW d \in Dirs PROVE OfEachOne(d)' /\ OfOneKind(d)'
    <3>1. OfEachOne(d) /\ OfOneKind(d)
      BY <1>14 DEF Kept, OneThing
    <3>2. ASSUME NEW i \in 1..Len(exit_rx'), exit_rx'[i] \in ExitsIn(d)'
          PROVE  i \in 1..Len(exit_rx) /\ exit_rx[i] \in ExitsIn(d)
      <4>1. exit_rx'[i].id \in DOMAIN tasks' /\ exit_rx'[i] \in ExitsIn(d)
        BY <1>1, <1>5, <1>6, <1>7, <3>2, ExitsLess DEF ExitsIn
      <4>2. exit_rx'[i] # e
        BY <1>4, <1>5, <4>1
      <4> QED BY <1>8, <4>1, <4>2
    <3>3. Once(exit_rx, ExitsIn(d))' /\ (HasExit(d)' => HasExit(d))
      BY <3>1, <3>2 DEF Once, HasExit, Has, OfEachOne
    <3>4. Once(commands, LaunchesIn(d))' /\ (HasCommand(d)' => HasCommand(d))
      <4>1. CASE commands' = commands
        BY <3>1, <4>1 DEF HasCommand, OfEachOne, Has, Once
      <4>2. CASE commands # <<>> /\ commands' = Tail(commands)
        BY <1>1, <3>1, <4>2, Shortened DEF HasCommand, OfEachOne, Always, SessionTypes, LineTypes
      <4> QED BY <4>1, <4>2
    <3>5. /\ Once(requests, LaunchesIn(d))' /\ (HasRequest(d)' <=> HasRequest(d))
          /\ (Waits(d)' <=> Waits(d)) /\ delayed'[d] <= 1
      BY <1>6, <3>1 DEF OfEachOne, HasRequest, Waits, Has, Once
    <3>6. OfEachOne(d)' /\ (HasTask(d)' => HasTask(d))
      BY <1>1, <1>6, <1>7, <3>1, <3>3, <3>4, <3>5, EndThings
    <3> QED BY <3>1, <3>3, <3>4, <3>5, <3>6 DEF OfOneKind
  <2> QED BY <2>1, <2>2, <2>3 DEF Kept, OneThing
<1>15. ASSUME OneLaunchAtATime, Undisturbed, Kept, ExpectedRunning PROVE ExpectedRunning'
  <2>1. ~task[n].scheduled
    BY <1>3, <1>15 DEF Undisturbed
  <2>2. ASSUME NEW m \in TaskNumbers, Alive(m)' PROVE Alive(m) /\ task[m].dir # dir
    <3>1. Alive(m) /\ m # n
      BY <1>7, <2>2 DEF OnlyEnds
    <3>2. m \in 1..spawned /\ ~task[m].scheduled
      BY <1>1, <1>15, <3>1, Numbers DEF Always, SessionTypes, Named, TasksNamed, Undisturbed
    <3>3. ASSUME task[m].dir = dir PROVE FALSE
      <4>1. RunsIn(dir, m) /\ HasTask(dir) /\ OfEachOne(dir) /\ OfOneKind(dir)
        BY <1>3, <1>15, <3>1, <3>2, <3>3 DEF RunsIn, HasTask, Kept, OneThing
      <4>2. ~Alive(n)
        BY <1>2, <2>1, <3>1, <4>1 DEF OfEachOne, RunsIn
      <4>3. PICK i \in 1..Len(exit_rx) : exit_rx[i].id = id
        BY <1>15, <4>2 DEF Kept, Reports
      <4>4. exit_rx[i] \in Exit
        BY <1>1, ElementOfSeq DEF Always, SessionTypes, LineTypes
      <4>5. exit_rx[i] \in ExitsIn(dir)
        BY <1>3, <2>1, <4>3, <4>4 DEF ExitsIn
      <4>6. HasExit(dir)
        BY <4>5 DEF HasExit, Has
      <4> QED BY <4>1, <4>6 DEF OfOneKind
    <3> QED BY <3>1, <3>3
  <2>3. ASSUME NEW m \in TaskNumbers, Alive(m)'
        PROVE  /\ task'[m].dir \in DOMAIN expected_sessions'
               /\ expected_sessions'[task'[m].dir] = task'[m].id
    <3>1. /\ task[m].dir \in DOMAIN expected_sessions /\ expected_sessions[task[m].dir] = task[m].id
          /\ task[m].dir # dir /\ task'[m].dir = task[m].dir /\ task'[m].id = task[m].id
      BY <1>7, <1>15, <2>2, <2>3 DEF ExpectedRunning, OnlyEnds
    <3> QED BY <1>9, <2>1, <3>1 DEF Part
  <2> QED BY <1>6, <1>9, <1>15, <2>3 DEF ExpectedRunning
<1> QED BY <1>6, <1>11, <1>12, <1>13, <1>14, <1>15, Concluded DEF Always

LEMMA ReceiveStopStep ==
  ASSUME SessionInv, ReceiveStop, UNCHANGED mishaps PROVE SessionInv'
<1> DEFINE id == Head(commands).id
<1>1. commands # <<>> /\ commands' = Tail(commands)
  BY DEF ReceiveStop, Received
<1>2. UNCHANGED <<login, daemon, restarts, spawned, socket, requests, running_sessions, mishaps>>
  BY DEF ReceiveStop
<1>3. CASE id \in DOMAIN tasks
  <2>1. Stopped(id) /\ Forgotten(task[tasks[id]].dir)
    BY <1>3 DEF ReceiveStop
  <2> HIDE DEF id
  <2> QED BY <1>1, <1>2, <1>3, <2>1, StoppedStep
<1>4. CASE id \notin DOMAIN tasks
  <2>1. UNCHANGED <<tasks, task, exit_rx, expected_sessions, configured>>
    BY <1>4 DEF ReceiveStop
  <2>2. UNCHANGED <<file, memory, restarts, manager, mishaps>>
    BY <1>2, <2>1 DEF file, memory, manager
  <2> QED BY <1>1, <1>2, <2>2, DropStep
<1> QED BY <1>3, <1>4

LEMMA TimedOutStep ==
  ASSUME SessionInv, NEW id \in Ids, TimedOut(id), UNCHANGED mishaps PROVE SessionInv'
<1>1. id \in DOMAIN tasks /\ Stopped(id) /\ task[tasks[id]].scheduled
  BY DEF TimedOut
<1>2. /\ UNCHANGED <<login, daemon, restarts, spawned, socket, requests, running_sessions, mishaps>>
      /\ UNCHANGED <<expected_sessions, configured>> /\ commands' = commands
  BY DEF TimedOut, file, memory, line
<1> QED BY <1>1, <1>2, StoppedStep

\* What is left to do after an exit.
LEMMA AfterExitIs ==
  ASSUME Always, NEW d \in {"none"} \union Dirs, NEW code, AfterExit(d, code)
  PROVE  /\ Part(expected_sessions', expected_sessions) /\ Part(configured', configured)
         /\ expected_sessions' \in Books /\ configured' \in Books
         /\ configured = expected_sessions => configured' = expected_sessions'
         /\ DOMAIN expected_sessions \ {d} \subseteq DOMAIN expected_sessions'
         /\ restart_counts' \in [Dirs -> Nat] /\ delayed' \in [Dirs -> Nat]
         /\ \A c \in Dirs : \/ delayed'[c] = delayed[c]
                            \/ c = d /\ code # 0 /\ delayed'[c] = delayed[c] + 1
<1>1. /\ configured \in Books /\ expected_sessions \in Books
      /\ restart_counts \in [Dirs -> Nat] /\ delayed \in [Dirs -> Nat]
  BY DEF Always, SessionTypes, BookTypes, LineTypes
<1>2. Part(expected_sessions, expected_sessions) /\ Part(configured, configured)
  BY DEF Part
<1>3. ASSUME Forgotten(d)
      PROVE  /\ Part(expected_sessions', expected_sessions) /\ Part(configured', configured)
             /\ expected_sessions' \in Books /\ configured' \in Books
             /\ configured = expected_sessions => configured' = expected_sessions'
             /\ DOMAIN expected_sessions \ {d} \subseteq DOMAIN expected_sessions'
  <2>1. /\ expected_sessions' = Without(expected_sessions, d)
        /\ configured' = Without(configured, d)
    BY <1>3 DEF Forgotten
  <2> QED BY <1>1, <2>1, BookWithout
<1>4. CASE d # "none" /\ code = 0
  <2>1. Forgotten(d) /\ UNCHANGED restarts
    BY <1>4 DEF AfterExit
  <2> QED BY <1>1, <1>3, <2>1 DEF restarts
<1>5. CASE d # "none" /\ code # 0 /\ d \in DOMAIN expected_sessions
  <2>1. /\ restart_counts' = [restart_counts EXCEPT ![d] = @ + 1]
        /\ \/ /\ delayed' = [delayed EXCEPT ![d] = @ + 1]
              /\ UNCHANGED <<expected_sessions, configured>>
           \/ Forgotten(d) /\ UNCHANGED delayed
    BY <1>5 DEF AfterExit
  <2>2. restart_counts' \in [Dirs -> Nat]
    BY <1>1, <1>5, <2>1
  <2>3. CASE delayed' = [delayed EXCEPT ![d] = @ + 1] /\ UNCHANGED <<expected_sessions, configured>>
    BY <1>1, <1>2, <1>5, <2>2, <2>3
  <2>4. CASE Forgotten(d) /\ UNCHANGED delayed
    BY <1>1, <1>3, <2>2, <2>4
  <2> QED BY <2>1, <2>3, <2>4
<1>6. CASE ~(d # "none" /\ code = 0) /\ ~(d # "none" /\ code # 0 /\ d \in DOMAIN expected_sessions)
  <2>1. UNCHANGED <<restarts, expected_sessions, configured>>
    BY <1>6 DEF AfterExit
  <2> QED BY <1>1, <1>2, <2>1 DEF restarts
<1> QED BY <1>4, <1>5, <1>6

LEMMA SessionExitedStep ==
  ASSUME SessionInv, SessionExited, UNCHANGED mishaps PROVE SessionInv'
<1> PICK e : e = Head(exit_rx)
  OBVIOUS
<1> PICK id : id = e.id
  OBVIOUS
<1> PICK d : d = IF id \in DOMAIN tasks THEN task[tasks[id]].dir ELSE "none"
  OBVIOUS
<1>1. Always
  BY DEF SessionInv
<1>2. /\ socket # "down" /\ exit_rx # <<>> /\ exit_rx' = Tail(exit_rx)
      /\ tasks' = Without(tasks, id)
      /\ UNCHANGED <<login, daemon, task, spawned, requests, commands, running_sessions, mishaps>>
      /\ \/ AfterExit(d, e.code) /\ UNCHANGED socket
         \/ /\ socket = "cut" /\ socket' = "down" /\ delayed' = [x \in Dirs |-> 0]
            /\ UNCHANGED <<restart_counts, expected_sessions, configured>>
  BY DEF SessionExited
<1>3. /\ exit_rx \in Seq(Exit) /\ e = exit_rx[1] /\ 1 \in 1..Len(exit_rx)
      /\ exit_rx' \in Seq(Exit) /\ Len(exit_rx) \in Nat
      /\ \A i \in 1..Len(exit_rx') : i + 1 \in 1..Len(exit_rx) /\ exit_rx'[i] = exit_rx[i + 1]
      /\ \A i \in 1..Len(exit_rx) :
           i # 1 => i - 1 \in 1..Len(exit_rx') /\ exit_rx'[i - 1] = exit_rx[i]
  <2>1. exit_rx \in Seq(Exit) /\ Len(exit_rx) \in Nat
    BY <1>1, LenProperties DEF Always, SessionTypes, LineTypes
  <2> QED BY <1>2, <2>1, Shortened
<1>4. /\ id \in 1..spawned /\ id \in TaskNumbers /\ task[id].id = id
      /\ e.code # 0 => "fail" \in mishaps
  <2>1. id \in 1..spawned /\ task[id].id = id /\ (e.code # 0 => "fail" \in mishaps)
    BY <1>1, <1>3 DEF Always, Named, ExitsNamed
  <2> QED BY <1>1, <2>1, Numbers DEF Always, Named, SessionTypes
<1>5. /\ tasks' \in PartialFunctions(1..spawned, 1..spawned)
      /\ DOMAIN tasks' = DOMAIN tasks \ {id}
      /\ \A k \in DOMAIN tasks : k # id => tasks'[k] = tasks[k]
  <2>1. tasks \in PartialFunctions(1..spawned, 1..spawned)
    BY <1>1 DEF Always, SessionTypes, TaskTypes
  <2> QED BY <1>2, <2>1, WithoutIs, WithoutShape, ZenonT(40)
<1>6. \A k \in DOMAIN tasks : tasks[k] \in 1..spawned /\ tasks[k] \in TaskNumbers
                              /\ task[tasks[k]].id = k
  BY <1>1, PartialFunction, Numbers DEF Always, Named, Tracked, SessionTypes, TaskTypes
<1>7. /\ id \in DOMAIN tasks => d = task[id].dir /\ d \in Dirs
      /\ id \notin DOMAIN tasks => d = "none"
      /\ \A m \in 1..spawned : task[m].id = id =>
           task[m].dir = task[id].dir /\ (task[m].scheduled <=> task[id].scheduled)
           /\ (task[m].scheduled => m = id)
  <2>1. \A m \in 1..spawned : task[m].id = id =>
           task[m].dir = task[id].dir /\ (task[m].scheduled <=> task[id].scheduled)
           /\ (task[m].scheduled => m = id)
    BY <1>1, TaskIs
  <2>2. task[id].dir \in Dirs
    BY <1>1, <1>4, TaskIs
  <2> QED BY <1>6, <2>1, <2>2
<1>8. /\ Part(expected_sessions', expected_sessions) /\ Part(configured', configured)
      /\ expected_sessions' \in Books /\ configured' \in Books
      /\ configured = expected_sessions => configured' = expected_sessions'
      /\ DOMAIN expected_sessions \ {d} \subseteq DOMAIN expected_sessions'
      /\ restart_counts' \in [Dirs -> Nat] /\ delayed' \in [Dirs -> Nat]
      /\ \A c \in Dirs : \/ delayed'[c] = delayed[c] \/ delayed'[c] = 0
                         \/ c = d /\ e.code # 0 /\ delayed'[c] = delayed[c] + 1
      /\ socket' = socket \/ (socket = "cut" /\ socket' = "down" /\ \A c \in Dirs : delayed'[c] = 0)
  <2>1. CASE AfterExit(d, e.code) /\ UNCHANGED socket
    <3>1. d \in {"none"} \union Dirs
      BY <1>7
    <3> QED BY <1>1, <2>1, <3>1, AfterExitIs
  <2>2. CASE /\ socket = "cut" /\ socket' = "down" /\ delayed' = [x \in Dirs |-> 0]
             /\ UNCHANGED <<restart_counts, expected_sessions, configured>>
    BY <1>1, <2>2 DEF Always, SessionTypes, BookTypes, LineTypes, Part
  <2> QED BY <1>2, <2>1, <2>2
<1>9. OnlyEnds
  BY <1>1, <1>2 DEF OnlyEnds, Alive, Always, SessionTypes, TaskTypes
<1>10. SessionTypes'
  <2>1. Asked' = Asked /\ Sent' = Sent
    BY <1>2, SentStays
  <2>2. LineTypes'
    BY <1>1, <1>2, <1>3, <1>8, <2>1 DEF Always, SessionTypes, LineTypes
  <2>3. BookTypes' /\ TaskTypes'
    BY <1>1, <1>2, <1>5, <1>8 DEF Always, SessionTypes, BookTypes, TaskTypes
  <2> QED BY <2>2, <2>3 DEF SessionTypes
<1>11. Named'
  <2>1. ExitsNamed'
    BY <1>1, <1>2, <1>3 DEF ExitsNamed, Always, Named
  <2>2. Part(tasks', tasks)
    BY <1>5 DEF Part
  <2> QED BY <1>1, <1>2, <1>8, <1>9, <2>1, <2>2, StepNamed
<1>12. OnTheWay'
  BY <1>1, <1>2, <1>8 DEF Always, OnTheWay
<1>13. ASSUME OneLaunchAtATime, Kept, id \in DOMAIN tasks, ~task[id].scheduled
       PROVE  d \in Dirs /\ e \in ExitsIn(d) /\ HasExit(d)
  <2>1. e \in Exit
    BY <1>3, ElementOfSeq
  <2>2. e \in ExitsIn(d)
    BY <1>4, <1>7, <1>13, <2>1 DEF ExitsIn, NamedIn
  <2> QED BY <1>3, <1>7, <1>13, <2>2 DEF HasExit, Has
<1>14. ASSUME OneLaunchAtATime, Kept PROVE Kept'
  <2>1. RunningIsTracked'
    <3> SUFFICES ASSUME NEW m \in TaskNumbers, Alive(m)
                 PROVE  task[m].id \in DOMAIN tasks' /\ tasks'[task[m].id] = m
      <4>1. DOMAIN task = TaskNumbers
        BY <1>1, Numbers DEF Always, SessionTypes, Named
      <4> QED BY <1>2, <4>1 DEF RunningIsTracked, Alive
    <3>1. task[m].id \in DOMAIN tasks /\ tasks[task[m].id] = m /\ m \in 1..spawned
      BY <1>1, <1>14, Numbers DEF Kept, RunningIsTracked, Always, SessionTypes, Named
    <3>2. ASSUME task[m].id = id PROVE FALSE
      <4>1. task[m].dir = task[id].dir /\ (task[m].scheduled <=> task[id].scheduled)
            /\ (task[m].scheduled => m = id) /\ id \in DOMAIN tasks
        BY <1>7, <3>1, <3>2
      <4>2. CASE task[id].scheduled
        <5>1. ~Alive(id)
          BY <1>3, <1>14, <4>2 DEF Kept, Reports
        <5> QED BY <4>1, <4>2, <5>1
      <4>3. CASE ~task[id].scheduled
        <5>1. HasExit(d) /\ d \in Dirs /\ task[m].dir = d
          BY <1>7, <1>13, <1>14, <4>1, <4>3
        <5>2. HasTask(d)
          BY <4>1, <4>3, <5>1 DEF HasTask, RunsIn
        <5> QED BY <1>14, <5>1, <5>2 DEF Kept, OneThing, OfOneKind
      <4> QED BY <4>2, <4>3
    <3> QED BY <1>5, <3>1, <3>2
  <2>2. Reports'
    <3>1. ASSUME NEW k \in DOMAIN tasks', ~Alive(tasks[k])
          PROVE  \E i \in 1..Len(exit_rx') : exit_rx'[i].id = k
      <4>1. PICK i \in 1..Len(exit_rx) : exit_rx[i].id = k
        BY <1>5, <1>14, <3>1 DEF Kept, Reports
      <4>2. i # 1
        BY <1>3, <1>5, <4>1
      <4> QED BY <1>3, <4>1, <4>2
    <3>2. ASSUME NEW i \in 1..Len(exit_rx'), exit_rx'[i].id \notin DOMAIN tasks',
                 NEW c \in DOMAIN expected_sessions', expected_sessions'[c] = exit_rx'[i].id
          PROVE  FALSE
      <4>1. /\ i + 1 \in 1..Len(exit_rx) /\ exit_rx'[i] = exit_rx[i + 1] /\ i + 1 # 1
            /\ c \in DOMAIN expected_sessions /\ expected_sessions[c] = exit_rx[i + 1].id
        BY <1>3, <1>8, <3>2 DEF Part
      <4>2. id \in DOMAIN tasks /\ exit_rx[i + 1].id = id
        BY <1>5, <1>14, <3>2, <4>1 DEF Kept, Reports
      <4>3. NamedIn(c, id)
        BY <1>1, <1>4, <4>1, <4>2 DEF Always, Named, BooksNamed, NamesOf
      <4>4. ~task[id].scheduled
        BY <4>3 DEF NamedIn
      <4>5. d \in Dirs /\ e \in ExitsIn(d) /\ Once(exit_rx, ExitsIn(d))
        BY <1>13, <1>14, <4>2, <4>4 DEF Kept, OneThing, OfEachOne
      <4>6. exit_rx[i + 1] \in ExitsIn(d)
        <5>1. exit_rx[i + 1] \in Exit
          BY <1>3, <4>1, ElementOfSeq
        <5> QED BY <4>2, <4>5, <5>1 DEF ExitsIn
      <4> QED BY <1>3, <4>1, <4>5, <4>6 DEF Once
    <3>3. \A i \in 1..Len(exit_rx') : task[exit_rx'[i].id].scheduled => ~Alive(exit_rx'[i].id)
      BY <1>3, <1>14 DEF Kept, Reports
    <3>4. \A k \in DOMAIN tasks' : tasks'[k] = tasks[k]
      BY <1>5
    <3> QED BY <1>2, <3>1, <3>2, <3>3, <3>4 DEF Reports, Alive
  <2>3. ASSUME NEW c \in Dirs PROVE OfEachOne(c)' /\ OfOneKind(c)'
    <3>1. OfEachOne(c) /\ OfOneKind(c)
      BY <1>14 DEF Kept, OneThing
    <3>2. ExitsIn(c)' \subseteq ExitsIn(c)
      BY <1>1, <1>2, <1>5, <1>9, ExitsLess
    <3>3. /\ Once(exit_rx', ExitsIn(c)) /\ (Has(exit_rx', ExitsIn(c)) => HasExit(c))
          /\ e \in ExitsIn(c) => HasExit(c) /\ ~Has(exit_rx', ExitsIn(c))
      BY <1>2, <1>3, <3>1, Shortened DEF OfEachOne, HasExit
    <3>4. Once(exit_rx, ExitsIn(c))' /\ (HasExit(c)' => Has(exit_rx', ExitsIn(c)))
      BY <3>2, <3>3 DEF Once, HasExit, Has
    <3>5. /\ Once(requests, LaunchesIn(c))' /\ Once(commands, LaunchesIn(c))'
          /\ (HasRequest(c)' <=> HasRequest(c)) /\ (HasCommand(c)' <=> HasCommand(c))
      BY <1>2, <3>1 DEF OfEachOne, HasRequest, HasCommand, Has, Once
    <3>6. CASE delayed'[c] = delayed[c] \/ delayed'[c] = 0
      <4>1. delayed'[c] <= 1 /\ (Waits(c)' => Waits(c))
        BY <3>1, <3>6 DEF OfEachOne, Waits
      <4>2. OfEachOne(c)' /\ (HasTask(c)' => HasTask(c))
        BY <1>1, <1>2, <1>9, <3>1, <3>4, <3>5, <4>1, EndThings
      <4> QED BY <3>1, <3>3, <3>4, <3>5, <4>1, <4>2 DEF OfOneKind
    <3>7. CASE c = d /\ e.code # 0 /\ delayed'[c] = delayed[c] + 1
      <4>1. id \in DOMAIN tasks
        BY <1>7, <3>7, LauncherSessionsAssumption
      <4>2. ~task[id].scheduled
        BY <1>1, <1>4, <1>14, <3>7 DEF OneLaunchAtATime, Always, Named, TasksNamed
      <4>3. e \in ExitsIn(c) /\ HasExit(c)
        BY <1>13, <1>14, <3>7, <4>1, <4>2
      <4>4. ~HasTask(c) /\ ~HasRequest(c) /\ ~HasCommand(c) /\ ~Waits(c) /\ ~HasExit(c)'
        BY <3>1, <3>3, <3>4, <4>3 DEF OfOneKind
      <4>5. delayed'[c] <= 1
        BY <3>7, <4>4 DEF Waits
      <4>6. OfEachOne(c)' /\ (HasTask(c)' => HasTask(c))
        BY <1>1, <1>2, <1>9, <3>1, <3>4, <3>5, <4>5, EndThings
      <4> QED BY <3>5, <4>4, <4>6 DEF OfOneKind
    <3> QED BY <1>8, <3>6, <3>7
  <2> QED BY <2>1, <2>2, <2>3 DEF Kept, OneThing
<1>15. ASSUME OneLaunchAtATime, Undisturbed, Kept, ExpectedRunning PROVE ExpectedRunning'
  <2>1. ASSUME NEW m \in TaskNumbers, Alive(m)
        PROVE  /\ task[m].dir \in DOMAIN expected_sessions'
               /\ expected_sessions'[task[m].dir] = task[m].id
    <3>1. m \in 1..spawned /\ ~task[m].scheduled /\ task[m].dir \in Dirs
      BY <1>1, <1>15, <2>1, Numbers DEF Always, SessionTypes, Named, TasksNamed, Undisturbed
    <3>2. /\ task[m].dir \in DOMAIN expected_sessions
          /\ expected_sessions[task[m].dir] = task[m].id
      BY <1>15, <2>1 DEF ExpectedRunning
    <3>3. ASSUME task[m].dir = d PROVE FALSE
      <4>1. id \in DOMAIN tasks
        BY <1>7, <3>1, <3>3, LauncherSessionsAssumption
      <4>2. ~task[id].scheduled
        BY <1>1, <1>4, <1>15 DEF Always, Named, TasksNamed, Undisturbed
      <4>3. HasExit(d) /\ HasTask(d)
        BY <1>13, <1>15, <2>1, <3>1, <3>3, <4>1, <4>2 DEF HasTask, RunsIn
      <4> QED BY <1>15, <3>1, <3>3, <4>3 DEF Kept, OneThing, OfOneKind
    <3> QED BY <1>8, <3>2, <3>3 DEF Part
  <2> QED BY <1>2, <1>8, <1>15, <2>1 DEF ExpectedRunning, Alive
<1> QED BY <1>2, <1>10, <1>11, <1>12, <1>14, <1>15, Concluded DEF Always

-----------------------------------------------------------------------------
(* A launch.                                                                *)

LEMMA AddIs ==
  ASSUME NEW f \in Books, NEW d \in Dirs, NEW id \in Ids
  PROVE  /\ Add(f, d, id) \in Books /\ DOMAIN Add(f, d, id) = DOMAIN f \union {d}
         /\ \A c \in DOMAIN f : Add(f, d, id)[c] = f[c]
         /\ d \notin DOMAIN f => Add(f, d, id)[d] = id
<1>1. CASE d \in DOMAIN f
  BY <1>1 DEF Add
<1>2. CASE d \notin DOMAIN f
  <2>1. Add(f, d, id) = With(f, d, id)
    BY <1>2 DEF Add
  <2>2. With(f, d, id) \in Books
    BY WithIs DEF Books
  <2>3. /\ DOMAIN With(f, d, id) = DOMAIN f \union {d} /\ With(f, d, id)[d] = id
        /\ \A c \in DOMAIN f : c # d => With(f, d, id)[c] = f[c]
    BY DEF With
  <2> QED BY <1>2, <2>1, <2>2, <2>3
<1> QED BY <1>1, <1>2

LEMMA UpdateIs ==
  ASSUME NEW f \in Books, NEW d \in Dirs, NEW id \in Ids
  PROVE  /\ Update(f, d, id) \in Books /\ DOMAIN Update(f, d, id) = DOMAIN f
         /\ \A c \in DOMAIN f : Update(f, d, id)[c] = IF c = d THEN id ELSE f[c]
<1>1. f \in [DOMAIN f -> {0} \union Ids] /\ DOMAIN f \subseteq Dirs
  BY DEF Books, PartialFunctions
<1>2. Update(f, d, id) \in [DOMAIN f -> {0} \union Ids]
  BY <1>1 DEF Update
<1>3. Update(f, d, id) \in Books
  BY <1>1, <1>2, IsPartial DEF Books
<1> QED BY <1>1, <1>2, <1>3 DEF Update

LEMMA SameBook ==
  ASSUME NEW f \in Books, NEW g \in Books, DOMAIN f = DOMAIN g,
         \A c \in DOMAIN f : f[c] = g[c]
  PROVE  f = g
<1>1. f \in [DOMAIN f -> {0} \union Ids] /\ g \in [DOMAIN g -> {0} \union Ids]
  BY DEF Books, PartialFunctions
<1> QED BY <1>1

\* What the launcher and its config remember of a launch.
Persisted(f, g, d, id) == IF d \in DOMAIN f THEN Update(g, d, id) ELSE Add(g, d, id)

LEMMA RememberedIs ==
  ASSUME NEW f \in Books, NEW g \in Books, NEW d \in Dirs, NEW id \in Ids
  PROVE  /\ Remembered(f, d, id) \in Books /\ Persisted(f, g, d, id) \in Books
         /\ DOMAIN Remembered(f, d, id) = DOMAIN f \union {d} /\ Remembered(f, d, id)[d] = id
         /\ \A c \in DOMAIN f : c # d => Remembered(f, d, id)[c] = f[c]
         /\ \A c \in DOMAIN Persisted(f, g, d, id) :
              \/ c = d /\ Persisted(f, g, d, id)[c] = id
              \/ c \in DOMAIN g /\ Persisted(f, g, d, id)[c] = g[c]
         /\ g = f => Persisted(f, g, d, id) = Remembered(f, d, id)
<1> PICK h : h = Persisted(f, g, d, id)
  OBVIOUS
<1>0. h = IF d \in DOMAIN f THEN Update(g, d, id) ELSE Add(g, d, id)
  BY DEF Persisted
<1>1. /\ Add(f, d, id) \in Books /\ DOMAIN Add(f, d, id) = DOMAIN f \union {d}
      /\ \A c \in DOMAIN f : Add(f, d, id)[c] = f[c]
      /\ d \notin DOMAIN f => Add(f, d, id)[d] = id
  BY AddIs
<1>2. /\ Remembered(f, d, id) \in Books /\ DOMAIN Remembered(f, d, id) = DOMAIN f \union {d}
      /\ Remembered(f, d, id)[d] = id
      /\ \A c \in DOMAIN f : c # d => Remembered(f, d, id)[c] = f[c]
  BY <1>1, UpdateIs DEF Remembered
<1>3. CASE d \in DOMAIN f
  <2>1. /\ h \in Books /\ DOMAIN h = DOMAIN g
        /\ \A c \in DOMAIN g : h[c] = IF c = d THEN id ELSE g[c]
    BY <1>0, <1>3, UpdateIs
  <2>2. g = f => h = Remembered(f, d, id)
    <3> SUFFICES ASSUME g = f PROVE h = Remembered(f, d, id)
      OBVIOUS
    <3> QED BY <1>2, <1>3, <2>1, SameBook
  <2> QED BY <1>2, <2>1, <2>2
<1>4. CASE d \notin DOMAIN f
  <2>1. /\ h \in Books /\ DOMAIN h = DOMAIN g \union {d}
        /\ \A c \in DOMAIN g : h[c] = g[c]
        /\ d \notin DOMAIN g => h[d] = id
    BY <1>0, <1>4, AddIs
  <2>2. g = f => h = Remembered(f, d, id)
    <3> SUFFICES ASSUME g = f PROVE h = Remembered(f, d, id)
      OBVIOUS
    <3> QED BY <1>2, <1>4, <2>1, SameBook
  <2> QED BY <1>2, <2>1, <2>2
<1> QED BY <1>3, <1>4
LEMMA NowRemembered ==
  ASSUME NEW d \in Dirs, NEW id \in Ids, configured \in Books, expected_sessions \in Books,
         configured' = Persisted(expected_sessions, configured, d, id)
  PROVE  /\ Remembered(expected_sessions, d, id) \in Books /\ configured' \in Books
         /\ DOMAIN Remembered(expected_sessions, d, id) = DOMAIN expected_sessions \union {d}
         /\ Remembered(expected_sessions, d, id)[d] = id
         /\ \A c \in DOMAIN expected_sessions : c # d =>
              Remembered(expected_sessions, d, id)[c] = expected_sessions[c]
         /\ \A c \in DOMAIN configured' : \/ c = d /\ configured'[c] = id
                                          \/ c \in DOMAIN configured /\ configured'[c] = configured[c]
         /\ configured = expected_sessions =>
              configured' = Remembered(expected_sessions, d, id)
<1> PICK f : f = expected_sessions
  OBVIOUS
<1> PICK g : g = configured
  OBVIOUS
<1>1. f \in Books /\ g \in Books
  OBVIOUS
<1>2. /\ Remembered(f, d, id) \in Books /\ Persisted(f, g, d, id) \in Books
      /\ DOMAIN Remembered(f, d, id) = DOMAIN f \union {d} /\ Remembered(f, d, id)[d] = id
      /\ \A c \in DOMAIN f : c # d => Remembered(f, d, id)[c] = f[c]
      /\ \A c \in DOMAIN Persisted(f, g, d, id) :
           \/ c = d /\ Persisted(f, g, d, id)[c] = id
           \/ c \in DOMAIN g /\ Persisted(f, g, d, id)[c] = g[c]
      /\ g = f => Persisted(f, g, d, id) = Remembered(f, d, id)
  BY <1>1, RememberedIs
<1> QED BY <1>2

\* What is spawned: a task of its own name, or of that which is expected.
LEMMA SpawnedIs ==
  ASSUME Always, spawned < MaxTasks, NEW d \in Dirs, NEW scheduled \in BOOLEAN, NEW t,
         t = Spawned(d, scheduled)
  PROVE  /\ t \in TaskState /\ t.at = "up" /\ t.dir = d /\ (t.scheduled <=> scheduled)
         /\ \/ t.id = spawned + 1
            \/ ~scheduled /\ NamedIn(d, t.id) /\ d \in DOMAIN expected_sessions
               /\ expected_sessions[d] = t.id
<1>1. spawned \in Nat /\ MaxTasks \in Nat /\ spawned + 1 \in 1..MaxTasks
  BY Numbers DEF Always, SessionTypes, Named
<1>2. 1..MaxTasks \subseteq Ids
  BY <1>1 DEF Ids
<1>3. CASE ~scheduled /\ d \in DOMAIN expected_sessions /\ expected_sessions[d] # 0
  <2>1. NamedIn(d, expected_sessions[d])
    BY <1>3 DEF Always, Named, BooksNamed, NamesOf
  <2>2. expected_sessions[d] \in Ids
    BY <1>1, <1>2, <2>1 DEF NamedIn
  <2>3. t = [at |-> "up", dir |-> d, id |-> expected_sessions[d], now |-> expected_sessions[d],
             resume |-> TRUE, scheduled |-> scheduled]
    BY <1>3 DEF Spawned
  <2>4. t \in TaskState
    BY <2>2, <2>3 DEF TaskState
  <2> QED BY <1>3, <2>1, <2>3, <2>4
<1>4. CASE ~(~scheduled /\ d \in DOMAIN expected_sessions /\ expected_sessions[d] # 0)
  <2>1. t = [at |-> "up", dir |-> d, id |-> spawned + 1, now |-> spawned + 1,
             resume |-> FALSE, scheduled |-> scheduled]
    BY <1>4 DEF Spawned
  <2>2. t \in TaskState
    BY <1>1, <1>2, <2>1 DEF TaskState
  <2> QED BY <2>1, <2>2
<1> QED BY <1>3, <1>4

LEMMA LaunchSessionStep ==
  ASSUME SessionInv, LaunchSession, UNCHANGED mishaps PROVE SessionInv'
<1> PICK h : h = Head(commands)
  OBVIOUS
<1> PICK d : d = h.dir
  OBVIOUS
<1> PICK t : t = Spawned(d, h.scheduled)
  OBVIOUS
<1> PICK n : n = spawned + 1
  OBVIOUS
<1> PICK id : id = t.id
  OBVIOUS
<1>1. Always
  BY DEF SessionInv
<1>2. /\ socket = "open" /\ commands # <<>> /\ h.kind = "launch" /\ spawned < MaxTasks
      /\ commands' = Tail(commands)
      /\ UNCHANGED <<login, daemon, restarts, exit_rx, socket, requests, running_sessions, mishaps>>
  BY DEF LaunchSession, Received
<1>3. /\ commands \in Seq(Sent) /\ commands' \in Seq(Sent) /\ h \in Sent /\ h \in Command
      /\ d \in Dirs /\ h.scheduled \in BOOLEAN /\ (h.scheduled => "scheduled" \in mishaps)
  <2>1. commands \in Seq(Sent)
    BY <1>1 DEF Always, SessionTypes, LineTypes
  <2>2. h \in Sent /\ commands' \in Seq(Sent)
    BY <1>2, <2>1, Shortened
  <2> QED BY <1>2, <2>1, <2>2 DEF Sent, Command
<1>4. CASE UNCHANGED <<tasks, task, spawned, expected_sessions, configured>>
  <2>1. UNCHANGED <<file, memory, restarts, manager, mishaps>>
    BY <1>2, <1>4 DEF file, memory, manager
  <2> QED BY <1>2, <2>1, DropStep
<1>5. CASE /\ spawned' = n /\ task' = [task EXCEPT ![n] = t] /\ tasks' = With(tasks, id, n)
           /\ IF t.scheduled
              THEN UNCHANGED <<expected_sessions, configured>>
              ELSE /\ expected_sessions' = Remembered(expected_sessions, d, id)
                   /\ configured' = IF d \in DOMAIN expected_sessions
                                    THEN Update(configured, d, id) ELSE Add(configured, d, id)
  <2>1. /\ spawned \in Nat /\ MaxTasks \in Nat /\ n \in 1..MaxTasks /\ n \notin 1..spawned
        /\ n \in TaskNumbers /\ 1..n = 1..spawned \union {n} /\ n = spawned + 1
        /\ 1..spawned \subseteq TaskNumbers /\ TaskNumbers \subseteq Ids
    <3>1. spawned \in Nat /\ MaxTasks \in Nat /\ 1..spawned \subseteq TaskNumbers
          /\ TaskNumbers \subseteq Ids
      BY <1>1, Numbers DEF Always, SessionTypes, Named
    <3> QED BY <1>2, <3>1 DEF TaskNumbers
  <2>2. /\ t \in TaskState /\ t.at = "up" /\ t.dir = d /\ (t.scheduled <=> h.scheduled)
        /\ \/ id = n
           \/ ~h.scheduled /\ NamedIn(d, id) /\ d \in DOMAIN expected_sessions
              /\ expected_sessions[d] = id
    BY <1>1, <1>2, <1>3, SpawnedIs
  <2>3. id \in 1..n /\ id \in Ids /\ (id # n => NamedIn(d, id) /\ id \in 1..spawned)
    BY <2>1, <2>2 DEF NamedIn
  <2>4. /\ task \in [TaskNumbers -> TaskState] /\ task' \in [TaskNumbers -> TaskState]
        /\ task'[n] = t /\ \A m \in TaskNumbers : m # n => task'[m] = task[m]
        /\ Alive(n)' /\ \A m \in TaskNumbers : m # n => (Alive(m)' <=> Alive(m))
    <3>1. task \in [TaskNumbers -> TaskState]
      BY <1>1 DEF Always, SessionTypes, TaskTypes
    <3>2. /\ task' \in [TaskNumbers -> TaskState] /\ task'[n] = t
          /\ \A m \in TaskNumbers : m # n => task'[m] = task[m]
      BY <1>5, <2>1, <2>2, <3>1
    <3> QED BY <2>1, <2>2, <3>1, <3>2 DEF Alive
  <2>5. /\ tasks' \in PartialFunctions(1..n, 1..n) /\ DOMAIN tasks' = DOMAIN tasks \union {id}
        /\ tasks'[id] = n /\ \A k \in DOMAIN tasks : k # id => tasks'[k] = tasks[k]
        /\ \A k \in DOMAIN tasks : k \in 1..spawned /\ tasks[k] \in 1..spawned
    <3>1. tasks \in PartialFunctions(1..spawned, 1..spawned)
      BY <1>1 DEF Always, SessionTypes, TaskTypes
    <3>2. tasks \in PartialFunctions(1..n, 1..n)
      BY <2>1, <3>1, MorePartial
    <3>3. n \in 1..n
      BY <2>1
    <3>4. With(tasks, id, n) \in PartialFunctions(1..n, 1..n)
      BY <2>3, <3>2, <3>3, WithIs
    <3>5. /\ DOMAIN With(tasks, id, n) = DOMAIN tasks \union {id} /\ With(tasks, id, n)[id] = n
          /\ \A k \in DOMAIN tasks : k # id => With(tasks, id, n)[k] = tasks[k]
      BY DEF With
    <3> QED BY <1>5, <3>1, <3>4, <3>5, PartialFunction, ZenonT(40)
  <2>6. /\ configured \in Books /\ expected_sessions \in Books
        /\ configured' \in Books /\ expected_sessions' \in Books
        /\ configured = expected_sessions => configured' = expected_sessions'
        /\ h.scheduled => expected_sessions' = expected_sessions /\ configured' = configured
        /\ ~h.scheduled => d \in DOMAIN expected_sessions' /\ expected_sessions'[d] = id
        /\ \A c \in DOMAIN expected_sessions : c # d =>
             c \in DOMAIN expected_sessions' /\ expected_sessions'[c] = expected_sessions[c]
        /\ \A c \in DOMAIN expected_sessions' :
             \/ ~h.scheduled /\ c = d /\ expected_sessions'[c] = id
             \/ c \in DOMAIN expected_sessions /\ expected_sessions'[c] = expected_sessions[c]
        /\ \A c \in DOMAIN configured' :
             \/ ~h.scheduled /\ c = d /\ configured'[c] = id
             \/ c \in DOMAIN configured /\ configured'[c] = configured[c]
    <3>1. configured \in Books /\ expected_sessions \in Books
      BY <1>1 DEF Always, SessionTypes, BookTypes
    <3>2. CASE h.scheduled
      BY <1>5, <2>2, <3>1, <3>2
    <3>3. CASE ~h.scheduled
      <4>1. /\ expected_sessions' = Remembered(expected_sessions, d, id)
            /\ configured' = Persisted(expected_sessions, configured, d, id)
        BY <1>5, <2>2, <3>3 DEF Persisted
      <4>2. /\ Remembered(expected_sessions, d, id) \in Books /\ configured' \in Books
            /\ DOMAIN Remembered(expected_sessions, d, id) = DOMAIN expected_sessions \union {d}
            /\ Remembered(expected_sessions, d, id)[d] = id
            /\ \A c \in DOMAIN expected_sessions : c # d =>
                 Remembered(expected_sessions, d, id)[c] = expected_sessions[c]
            /\ \A c \in DOMAIN configured' : \/ c = d /\ configured'[c] = id
                                             \/ c \in DOMAIN configured /\ configured'[c] = configured[c]
            /\ configured = expected_sessions =>
                 configured' = Remembered(expected_sessions, d, id)
        BY <1>3, <2>3, <3>1, <4>1, NowRemembered, ZenonT(40)
      <4> QED BY <3>1, <3>3, <4>1, <4>2
    <3> QED BY <3>2, <3>3
  <2>7. /\ \A c : \A k : NamedIn(c, k) => NamedIn(c, k)'
        /\ \A c : \A k \in 1..spawned : NamedIn(c, k)' => NamedIn(c, k)
        /\ ~h.scheduled => NamedIn(d, id)'
    <3>1. \A m \in 1..spawned : m \in TaskNumbers /\ m # n /\ m \in 1..spawned' /\ task'[m] = task[m]
      BY <1>5, <2>1, <2>4
    <3>2. /\ \A c : \A k : NamedIn(c, k) => NamedIn(c, k)'
          /\ \A c : \A k \in 1..spawned : NamedIn(c, k)' => NamedIn(c, k)
      BY <3>1 DEF NamedIn
    <3>3. ~h.scheduled /\ id = n => NamedIn(d, id)'
      BY <1>5, <2>1, <2>2, <2>4 DEF NamedIn
    <3> QED BY <2>3, <3>2, <3>3
  <2>8. SessionTypes'
    <3>1. Asked' = Asked /\ Sent' = Sent
      BY <1>2, SentStays
    <3>2. LineTypes'
      BY <1>1, <1>2, <1>3, <3>1 DEF Always, SessionTypes, LineTypes, restarts
    <3>3. BookTypes'
      BY <1>1, <1>2, <2>6 DEF Always, SessionTypes, BookTypes
    <3>4. TaskTypes'
      <4>1. spawned' \in 0..MaxTasks
        BY <1>5, <2>1
      <4> QED BY <1>5, <2>4, <2>5, <4>1 DEF TaskTypes
    <3> QED BY <3>2, <3>3, <3>4 DEF SessionTypes
  <2>9. TasksNamed'
    <3>1. ASSUME NEW m \in 1..spawned
          PROVE  /\ task'[m].at # "none" /\ task'[m].dir \in Dirs
                 /\ task'[m].id \in 1..m
                 /\ task'[m].scheduled => task'[m].id = m /\ "scheduled" \in mishaps'
                 /\ task'[task'[m].id].id = task'[m].id
                 /\ task'[task'[m].id].dir = task'[m].dir
                 /\ task'[task'[m].id].scheduled <=> task'[m].scheduled
      <4>1. /\ m \in TaskNumbers /\ task[m].id \in TaskNumbers /\ task[m].id \in 1..spawned
            /\ task[m].at # "none" /\ task[m].dir \in Dirs
            /\ task[m].scheduled => task[m].id = m /\ "scheduled" \in mishaps
            /\ task[task[m].id].id = task[m].id
            /\ task[task[m].id].dir = task[m].dir
            /\ task[task[m].id].scheduled <=> task[m].scheduled
        BY <1>1, TaskIs
      <4>2. task[m].id \in 1..m
        BY <1>1 DEF Always, Named, TasksNamed
      <4>3. task'[m] = task[m] /\ task'[task[m].id] = task[task[m].id]
        BY <2>1, <2>4, <4>1
      <4> QED BY <1>2, <4>1, <4>2, <4>3
    <3>2. /\ task'[n].at # "none" /\ task'[n].dir \in Dirs
          /\ task'[n].id \in 1..n
          /\ task'[n].scheduled => task'[n].id = n /\ "scheduled" \in mishaps'
          /\ task'[task'[n].id].id = task'[n].id
          /\ task'[task'[n].id].dir = task'[n].dir
          /\ task'[task'[n].id].scheduled <=> task'[n].scheduled
      <4>1. /\ task'[n].at # "none" /\ task'[n].dir \in Dirs /\ task'[n].id = id /\ id \in 1..n
            /\ task'[n].scheduled => id = n /\ "scheduled" \in mishaps'
        BY <1>2, <1>3, <2>2, <2>3, <2>4
      <4>2. CASE id = n
        BY <4>1, <4>2
      <4>3. CASE id # n
        <5>1. id \in TaskNumbers /\ task'[id] = task[id] /\ task[id].id = id /\ task[id].dir = d
              /\ ~task[id].scheduled /\ ~h.scheduled
          BY <2>1, <2>2, <2>3, <2>4, <4>3 DEF NamedIn
        <5> QED BY <2>2, <2>4, <4>1, <5>1
      <4> QED BY <4>2, <4>3
    <3>3. \A m \in TaskNumbers : m > spawned' => task'[m].at = "none"
      <4> SUFFICES ASSUME NEW m \in TaskNumbers, m > n PROVE task'[m].at = "none"
        BY <1>5
      <4>1. m # n /\ m > spawned
        BY <2>1 DEF TaskNumbers
      <4> QED BY <1>1, <2>4, <4>1 DEF Always, Named, TasksNamed
    <3>4. \A m \in 1..spawned' : m \in 1..spawned \/ m = n
      BY <1>5, <2>1
    <3> QED BY <3>1, <3>2, <3>3, <3>4 DEF TasksNamed
  <2>10. Named'
    <3>1. Tracked'
      <4> SUFFICES ASSUME NEW k \in DOMAIN tasks' PROVE task'[tasks'[k]].id = k
        BY DEF Tracked
      <4>1. CASE k = id
        BY <2>4, <2>5, <4>1
      <4>2. CASE k # id
        <5>1. k \in DOMAIN tasks /\ tasks'[k] = tasks[k] /\ tasks[k] \in TaskNumbers /\ tasks[k] # n
          BY <2>1, <2>5, <4>2
        <5> QED BY <1>1, <2>4, <5>1 DEF Always, Named, Tracked
      <4> QED BY <4>1, <4>2
    <3>2. BooksNamed'
      <4>1. NamesOf(expected_sessions)'
        <5> SUFFICES ASSUME NEW c \in DOMAIN expected_sessions', expected_sessions'[c] # 0,
                            NEW k, k = expected_sessions'[c]
                     PROVE  NamedIn(c, k)'
          BY DEF NamesOf
        <5> QED BY <1>1, <2>6, <2>7 DEF Always, Named, BooksNamed, NamesOf
      <4>2. NamesOf(configured)'
        <5> SUFFICES ASSUME NEW c \in DOMAIN configured', configured'[c] # 0,
                            NEW k, k = configured'[c]
                     PROVE  NamedIn(c, k)'
          BY DEF NamesOf
        <5> QED BY <1>1, <2>6, <2>7 DEF Always, Named, BooksNamed, NamesOf
      <4>3. NamesOf(login.sessions)'
        <5> SUFFICES ASSUME NEW c \in DOMAIN login.sessions, login.sessions[c] # 0,
                            NEW k, k = login.sessions[c]
                     PROVE  NamedIn(c, k)'
          BY <1>2 DEF NamesOf
        <5> QED BY <1>1, <2>7 DEF Always, Named, BooksNamed, NamesOf
      <4> QED BY <1>1, <1>2, <4>1, <4>2, <4>3 DEF Always, Named, BooksNamed
    <3>3. ExitsNamed'
      <4> SUFFICES ASSUME NEW i \in 1..Len(exit_rx)
                   PROVE  /\ exit_rx[i].id \in 1..spawned' /\ task'[exit_rx[i].id].id = exit_rx[i].id
                          /\ exit_rx[i].code # 0 => "fail" \in mishaps'
        BY <1>2 DEF ExitsNamed
      <4>1. /\ exit_rx[i].id \in 1..spawned /\ task[exit_rx[i].id].id = exit_rx[i].id
            /\ exit_rx[i].code # 0 => "fail" \in mishaps
        BY <1>1 DEF Always, Named, ExitsNamed
      <4> QED BY <1>2, <1>5, <2>1, <2>4, <4>1
    <3> QED BY <2>9, <3>1, <3>2, <3>3 DEF Named
  <2>11. OnTheWay'
    <3>1. daemon # "down"
      BY <1>1, <1>2 DEF Always, OnTheWay
    <3> QED BY <1>2, <3>1 DEF OnTheWay
  <2>12. Always'
    BY <2>8, <2>10, <2>11 DEF Always
  <2>13. ASSUME OneLaunchAtATime, Kept, ~h.scheduled
         PROVE  HasCommand(d) /\ ~HasTask(d) /\ ~HasRequest(d) /\ ~HasExit(d) /\ ~Waits(d)
    <3>1. h \in LaunchesIn(d)
      BY <1>2, <1>3, <2>13 DEF LaunchesIn
    <3>2. HasCommand(d)
      BY <1>2, <1>3, <3>1, Shortened DEF HasCommand
    <3> QED BY <1>3, <2>13, <3>2 DEF Kept, OneThing, OfOneKind
  <2>14. ASSUME OneLaunchAtATime, Kept PROVE Kept'
    <3>1. RunningIsTracked'
      <4> SUFFICES ASSUME NEW m \in TaskNumbers, Alive(m)'
                   PROVE  task'[m].id \in DOMAIN tasks' /\ tasks'[task'[m].id] = m
        BY <2>4 DEF RunningIsTracked
      <4>1. CASE m = n
        BY <2>4, <2>5, <4>1
      <4>2. CASE m # n
        <5>1. Alive(m) /\ m \in DOMAIN task /\ m \in 1..spawned /\ task'[m] = task[m]
          BY <1>1, <2>4, <4>2, Numbers DEF Always, SessionTypes, Named
        <5>2. task[m].id \in DOMAIN tasks /\ tasks[task[m].id] = m
          BY <2>14, <5>1 DEF Kept, RunningIsTracked
        <5>3. task[m].id # id
          <6> SUFFICES ASSUME task[m].id = id PROVE FALSE
            OBVIOUS
          <6>1. id \in 1..spawned /\ id # n
            BY <1>1, <2>1, <5>1, TaskIs
          <6>2. NamedIn(d, task[m].id) /\ ~h.scheduled
            BY <2>2, <6>1
          <6>3. task[m].dir = d /\ ~task[m].scheduled
            BY <1>1, <5>1, <6>2, TaskIs
          <6>4. HasTask(d)
            BY <5>1, <6>3 DEF HasTask, RunsIn
          <6> QED BY <2>13, <2>14, <6>2, <6>4
        <5> QED BY <2>5, <5>1, <5>2, <5>3
      <4> QED BY <4>1, <4>2
    <3>2. ASSUME NEW i \in 1..Len(exit_rx)
          PROVE  /\ exit_rx[i].id \in 1..spawned /\ exit_rx[i].id \in TaskNumbers
                 /\ exit_rx[i].id # n
                 /\ exit_rx[i].id \in DOMAIN tasks' => exit_rx[i].id \in DOMAIN tasks
      <4>1. exit_rx[i].id \in 1..spawned /\ exit_rx[i].id \in TaskNumbers /\ exit_rx[i].id # n
        BY <1>1, <2>1 DEF Always, Named, ExitsNamed
      <4>2. exit_rx[i].id \in DOMAIN tasks' => exit_rx[i].id \in DOMAIN tasks
        BY <2>2, <2>5, <2>14, <4>1 DEF Kept, Reports
      <4> QED BY <4>1, <4>2
    <3>3. Reports'
      <4>1. ASSUME NEW k \in DOMAIN tasks', NEW m, m = tasks'[k]
            PROVE  Alive(m)' \/ \E i \in 1..Len(exit_rx') : exit_rx'[i].id = k
        <5>1. CASE k = id
          BY <2>4, <2>5, <4>1, <5>1
        <5>2. CASE k # id
          <6>1. k \in DOMAIN tasks /\ m = tasks[k] /\ m \in TaskNumbers /\ m # n
            BY <2>1, <2>5, <4>1, <5>2
          <6>2. Alive(m) \/ \E i \in 1..Len(exit_rx) : exit_rx[i].id = k
            BY <2>14, <6>1 DEF Kept, Reports
          <6> QED BY <1>2, <2>4, <6>1, <6>2
        <5> QED BY <5>1, <5>2
      <4>2. ASSUME NEW i \in 1..Len(exit_rx), exit_rx[i].id \notin DOMAIN tasks',
                   NEW c \in DOMAIN expected_sessions'
            PROVE  expected_sessions'[c] # exit_rx[i].id
        <5>1. exit_rx[i].id \notin DOMAIN tasks /\ exit_rx[i].id # id
          BY <2>5, <4>2
        <5> QED BY <2>6, <2>14, <5>1 DEF Kept, Reports
      <4>3. ASSUME NEW i \in 1..Len(exit_rx), NEW k, k = exit_rx[i].id, task'[k].scheduled
            PROVE  ~Alive(k)'
        <5>1. k \in TaskNumbers /\ k # n
          BY <3>2, <4>3
        <5>2. ~Alive(k)
          BY <2>4, <2>14, <4>3, <5>1 DEF Kept, Reports
        <5> QED BY <2>4, <5>1, <5>2
      <4>4. /\ \A k \in DOMAIN tasks' : task'[tasks'[k]].at \in {"up", "told"}
                 \/ \E i \in 1..Len(exit_rx') : exit_rx'[i].id = k
            /\ \A i \in 1..Len(exit_rx') : task'[exit_rx'[i].id].scheduled =>
                 task'[exit_rx'[i].id].at \notin {"up", "told"}
        BY <1>2, <4>1, <4>3 DEF Alive
      <4> QED BY <1>2, <4>2, <4>4 DEF Reports, Alive
    <3>4. ASSUME NEW c \in Dirs PROVE OfEachOne(c)' /\ OfOneKind(c)'
      <4>1. OfEachOne(c) /\ OfOneKind(c)
        BY <2>14 DEF Kept, OneThing
      <4>2. Once(exit_rx, ExitsIn(c))' /\ (HasExit(c)' => HasExit(c))
        <5>1. ASSUME NEW i \in 1..Len(exit_rx), exit_rx[i] \in ExitsIn(c)'
              PROVE  exit_rx[i] \in ExitsIn(c)
          <6> PICK k : k = exit_rx[i].id
            OBVIOUS
          <6>1. exit_rx[i] \in Exit /\ k \in DOMAIN tasks' /\ NamedIn(c, k)'
            BY <1>2, <5>1 DEF ExitsIn
          <6>2. k \in DOMAIN tasks /\ NamedIn(c, k)
            BY <2>7, <3>2, <6>1
          <6> QED BY <6>1, <6>2 DEF ExitsIn
        <5> QED BY <1>2, <4>1, <5>1 DEF OfEachOne, HasExit, Has, Once
      <4>3. /\ Once(requests, LaunchesIn(c))' /\ (HasRequest(c)' <=> HasRequest(c))
            /\ (Waits(c)' <=> Waits(c)) /\ delayed'[c] <= 1
        BY <1>2, <4>1 DEF OfEachOne, HasRequest, Waits, Has, Once, restarts
      <4>4. /\ Once(commands, LaunchesIn(c))' /\ (HasCommand(c)' => HasCommand(c))
            /\ c = d /\ ~h.scheduled => ~HasCommand(c)'
        <5>1. h \in LaunchesIn(d) <=> ~h.scheduled
          BY <1>2, <1>3 DEF LaunchesIn
        <5>2. /\ Once(commands', LaunchesIn(c)) /\ (Has(commands', LaunchesIn(c)) => HasCommand(c))
              /\ h \in LaunchesIn(c) => ~Has(commands', LaunchesIn(c))
          BY <1>2, <1>3, <4>1, Shortened DEF HasCommand, OfEachOne
        <5> QED BY <5>1, <5>2 DEF HasCommand
      <4>5. /\ \A m \in TaskNumbers : m # n => (RunsIn(c, m)' <=> RunsIn(c, m))
            /\ RunsIn(c, n)' <=> c = d /\ ~h.scheduled
        BY <2>2, <2>4 DEF RunsIn
      <4>6. CASE c = d /\ ~h.scheduled
        <5>1. \A m \in TaskNumbers : ~RunsIn(c, m)
          BY <2>13, <2>14, <4>6 DEF HasTask
        <5>2. OfEachOne(c)'
          BY <4>2, <4>3, <4>4, <4>5, <5>1 DEF OfEachOne
        <5>3. ~HasRequest(c)' /\ ~HasCommand(c)' /\ ~HasExit(c)' /\ ~Waits(c)'
          BY <2>13, <2>14, <4>2, <4>3, <4>4, <4>6
        <5> QED BY <5>2, <5>3 DEF OfOneKind
      <4>7. CASE ~(c = d /\ ~h.scheduled)
        <5>1. \A m \in TaskNumbers : RunsIn(c, m)' => RunsIn(c, m)
          BY <4>5, <4>7
        <5>2. OfEachOne(c)' /\ (HasTask(c)' => HasTask(c))
          BY <4>1, <4>2, <4>3, <4>4, <5>1 DEF OfEachOne, HasTask
        <5> QED BY <4>1, <4>2, <4>3, <4>4, <5>2 DEF OfOneKind
      <4> QED BY <4>6, <4>7
    <3> QED BY <3>1, <3>3, <3>4 DEF Kept, OneThing
  <2>15. ASSUME OneLaunchAtATime, Undisturbed, Kept, ExpectedRunning PROVE ExpectedRunning'
    <3>1. ~h.scheduled
      BY <1>3, <2>15 DEF Undisturbed
    <3>2. ASSUME NEW m \in TaskNumbers, Alive(m)'
          PROVE  /\ task'[m].dir \in DOMAIN expected_sessions'
                 /\ expected_sessions'[task'[m].dir] = task'[m].id
      <4>1. CASE m = n
        BY <2>2, <2>4, <2>6, <3>1, <4>1
      <4>2. CASE m # n
        <5>1. Alive(m) /\ task'[m] = task[m] /\ m \in 1..spawned
          BY <1>1, <2>4, <3>2, <4>2, Numbers DEF Always, SessionTypes, Named
        <5>2. ~task[m].scheduled
          BY <1>1, <2>15, <5>1, TaskIs DEF Undisturbed
        <5>3. task[m].dir # d
          BY <2>13, <2>15, <3>1, <5>1, <5>2 DEF HasTask, RunsIn
        <5> QED BY <2>6, <2>15, <5>1, <5>3 DEF ExpectedRunning
      <4> QED BY <4>1, <4>2
    <3>3. daemon' = "up" => configured' = expected_sessions'
      BY <1>2, <2>6, <2>15 DEF ExpectedRunning
    <3> QED BY <3>2, <3>3 DEF ExpectedRunning, Alive
  <2> QED BY <1>2, <2>12, <2>14, <2>15, Concluded
<1>6. QED
  <2>1. \/ UNCHANGED <<tasks, task, spawned, expected_sessions, configured>>
        \/ /\ spawned' = n /\ task' = [task EXCEPT ![n] = t] /\ tasks' = With(tasks, id, n)
           /\ IF t.scheduled
              THEN UNCHANGED <<expected_sessions, configured>>
              ELSE /\ expected_sessions' = Remembered(expected_sessions, d, id)
                   /\ configured' = IF d \in DOMAIN expected_sessions
                                    THEN Update(configured, d, id) ELSE Add(configured, d, id)
    BY DEF LaunchSession
  <2> QED BY <1>4, <1>5, <2>1

-----------------------------------------------------------------------------
(* The launcher's sessions: the theorems.                                   *)

LEMMA SessionsStart == SInit => SessionInv
<1> SUFFICES ASSUME SInit PROVE SessionInv
  OBVIOUS
<1>1. /\ configured = [d \in Configured |-> 0] /\ login = [reading |-> FALSE, sessions |-> Empty]
      /\ daemon = "down" /\ expected_sessions = Empty
      /\ restart_counts = [d \in Dirs |-> 0] /\ delayed = [d \in Dirs |-> 0]
      /\ tasks = Empty /\ task = [n \in TaskNumbers |-> Unspawned] /\ spawned = 0
      /\ exit_rx = <<>> /\ socket = "down" /\ requests = <<>> /\ commands = <<>>
      /\ running_sessions = {}
  BY DEF SInit
<1>2. Empty \in Books /\ DOMAIN Empty = {} /\ configured \in Books
      /\ \A d \in DOMAIN configured : configured[d] = 0
  <2>1. configured \in [Configured -> {0} \union Ids] /\ Configured \subseteq Dirs
    BY <1>1, LauncherSessionsAssumption
  <2>2. configured \in Books
    BY <2>1, IsPartial DEF Books
  <2> QED BY <1>1, <2>2, EmptyIs DEF Books
<1>3. Unspawned \in TaskState /\ Unspawned.at = "none"
  BY DEF Unspawned, TaskState
<1>4. MaxTasks \in Nat /\ \A n \in TaskNumbers : task[n] = Unspawned
  BY <1>1, LauncherSessionsAssumption
<1>5. SessionTypes
  <2>1. TaskTypes
    BY <1>1, <1>3, <1>4, EmptyIs DEF TaskTypes
  <2>2. BookTypes
    BY <1>1, <1>2 DEF BookTypes
  <2>3. LineTypes
    BY <1>1, Emptied DEF LineTypes
  <2> QED BY <2>1, <2>2, <2>3 DEF SessionTypes
<1>6. Len(exit_rx) = 0 /\ 1..spawned = {} /\ \A n \in TaskNumbers : ~Alive(n)
  BY <1>1, <1>3, <1>4 DEF Alive
<1>7. Named
  <2>1. TasksNamed
    BY <1>3, <1>4, <1>6 DEF TasksNamed
  <2>2. Tracked /\ ExitsNamed
    BY <1>1, <1>2, <1>6 DEF Tracked, ExitsNamed
  <2>3. BooksNamed
    BY <1>1, <1>2 DEF BooksNamed, NamesOf
  <2> QED BY <2>1, <2>2, <2>3 DEF Named
<1>8. OnTheWay
  BY <1>1, <1>2, <1>6 DEF OnTheWay
<1>9. Kept
  <2>1. RunningIsTracked
    BY <1>1, <1>6 DEF RunningIsTracked
  <2>2. Reports
    BY <1>1, <1>2, <1>6 DEF Reports
  <2>3. OneThing
    BY <1>1, <1>6, Emptied
       DEF OneThing, OfEachOne, OfOneKind, HasTask, HasRequest, HasCommand, HasExit, Waits, RunsIn
  <2> QED BY <2>1, <2>2, <2>3 DEF Kept
<1>10. ExpectedRunning
  BY <1>1, <1>6 DEF ExpectedRunning
<1> QED BY <1>5, <1>7, <1>8, <1>9, <1>10 DEF SessionInv, Always

LEMMA SessionStep ==
  ASSUME SessionInv, [SNext /\ UNCHANGED mishaps]_<<svars, mishaps>> PROVE SessionInv'
<1>1. CASE SNext /\ UNCHANGED mishaps
  <2>0. UNCHANGED mishaps
    BY <1>1
  <2>1. CASE DaemonStep
    BY <2>0, <2>1, StartLauncherStep, RegisterStep, LoopEndsStep, HeartbeatStep,
       LaunchSessionStep, ReceiveStopStep, SessionExitedStep, DelayedRestartStep DEF DaemonStep
  <2>2. CASE ReceiveRequest
    BY <2>0, <2>2, ReceiveRequestStep
  <2>3. CASE Trouble
    BY <2>0, <2>3, CrashStep, WireCutStep, LoginLoadsStep, LoginSavesStep, ScheduledLaunchStep,
       TimedOutStep DEF Trouble
  <2>4. CASE \E n \in TaskNumbers : TaskEnds(n)
    BY <2>0, <2>4, TaskEndsStep
  <2>5. CASE \E n \in TaskNumbers : Replace(n)
    BY <2>0, <2>5, ReplaceStep
  <2>6. CASE \E d \in Dirs : UserLaunches(d)
    BY <2>0, <2>6, UserLaunchesStep
  <2>7. CASE \E n \in TaskNumbers : UserStops(n)
    BY <2>0, <2>7, UserStopsStep
  <2> QED BY <1>1, <2>1, <2>2, <2>3, <2>4, <2>5, <2>6, <2>7 DEF SNext
<1>2. CASE UNCHANGED <<svars, mishaps>>
  BY <1>2, Stutters
<1> QED BY <1>1, <1>2

\* The launcher's sessions keep their invariant: the parts of its state agree, and
\* as long as one launch is made in a directory at a time, what makes a session run
\* there exists once, as a request, a message, a task, a report of its end or a
\* restart that waits.
THEOREM SessionInvariance == SSpec => []SessionInv
<1>1. SInit => SessionInv
  BY SessionsStart
<1>2. SessionInv /\ [SNext /\ UNCHANGED mishaps]_<<svars, mishaps>> => SessionInv'
  BY SessionStep
<1> QED BY <1>1, <1>2, PTL DEF SSpec

\* The launcher, its config file and its tasks are well-typed.
THEOREM SessionTypesCorrect == SSpec => []STypeOK
<1>1. SessionInv => STypeOK
  <2> SUFFICES ASSUME SessionInv PROVE STypeOK
    OBVIOUS
  <2>1. SessionTypes /\ TasksNamed
    BY DEF SessionInv, Always, Named
  <2>2. login.sessions \in Books
    BY <2>1 DEF SessionTypes, BookTypes
  <2>3. \A f \in {configured, login.sessions, expected_sessions} :
          DOMAIN f \subseteq Dirs /\ \A d \in DOMAIN f : f[d] \in {0} \union Ids
    BY <2>1, <2>2, PartialFunction DEF SessionTypes, BookTypes, Books
  <2>4. DOMAIN tasks \subseteq Ids /\ \A id \in DOMAIN tasks : tasks[id] \in 1..spawned
    BY <2>1, PartialFunction, Numbers DEF SessionTypes, TaskTypes
  <2> QED BY <2>1, <2>3, <2>4 DEF STypeOK, SessionTypes, TaskTypes, TaskState, LineTypes
<1> QED BY <1>1, SessionInvariance, PTL

\* A session that runs is tracked by its id, so that it can be stopped, and is one
\* the launcher and its config expect under that id, so that a restart of the
\* launcher resumes it: as long as one launch is made in a directory at a time,
\* and, for what is expected, no scheduled run or login interferes.
THEOREM SessionsKept == SSpec => []SessionsAreKept
<1>1. SessionInv => SessionsAreKept
  <2> SUFFICES ASSUME SessionInv, OneLaunchAtATime
               PROVE  RunningIsTracked
                      /\ ({"scheduled", "login"} \cap mishaps = {} => RunningIsExpected)
    BY DEF SessionsAreKept
  <2>1. Always /\ Kept
    BY DEF SessionInv
  <2>2. ASSUME {"scheduled", "login"} \cap mishaps = {} PROVE RunningIsExpected
    <3> SUFFICES ASSUME NEW n \in TaskNumbers, Alive(n)
                 PROVE  \A f \in {expected_sessions, configured} :
                          task[n].dir \in DOMAIN f /\ f[task[n].dir] = task[n].id
      <4>1. DOMAIN task = TaskNumbers
        BY <2>1, Numbers DEF Always, SessionTypes, Named
      <4> QED BY <4>1 DEF RunningIsExpected
    <3>1. ExpectedRunning
      BY <2>2 DEF SessionInv, Undisturbed
    <3>2. daemon = "up"
      BY <2>1 DEF Always, OnTheWay, SessionTypes, LineTypes
    <3> QED BY <3>1, <3>2 DEF ExpectedRunning
  <2> QED BY <2>1, <2>2 DEF Kept
<1> QED BY <1>1, SessionInvariance, PTL
=============================================================================
