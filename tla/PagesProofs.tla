------------------------------ MODULE PagesProofs ------------------------------
(***************************************************************************)
(* What holds of the pages and of the tables behind them, for any number   *)
(* of browsers, users, sessions, requests and messages.                    *)
(*                                                                         *)
(* Conversation: a connected browser has a dialog as long as a request is  *)
(* pending, and shows the session's last messages, through any loss of its *)
(* socket.  FileUpload: files of different names are received as           *)
(* beginnings, whatever connections are lost and files cannot be created.  *)
(* Panels and Records: every session has its owner as a member, and nobody *)
(* else as its owner, through requests that overlap; and where requests    *)
(* are handled one at a time an administrator remains, and a banned user   *)
(* has neither sessions nor tokens.  Retention: the newest messages of a   *)
(* session are not truncated, in whatever order messages are stored,       *)
(* counted and deleted.                                                    *)
(***************************************************************************)
EXTENDS Conversation, FileUpload, Panels, FiniteSetTheorems, SequenceTheorems, TLAPS

-----------------------------------------------------------------------------
(***************************************************************************)
(* Part 1.  Conversation                                                   *)
(***************************************************************************)
-----------------------------------------------------------------------------
(* The types.  What the panel of tasks shows is a fold over the messages,   *)
(* of which nothing is needed here.                                        *)

Outputs == [message : Message, type : {"output"}]
Histories == [messages : Seq(Message), type : {"history"}]
PermissionRequests == [request : Requests, type : {"request"}]
WsEvent == Outputs \cup Histories \cup PermissionRequests
Report == [type : {"register"}, replay_after : Nat] \cup [type : {"input"}]
          \cup [type : {"answer"}, request : Requests]
Stages == {"none", "added", "read", "asking", "done"}

ViewWith(tasks) ==
  [phase : Phases, messages : Seq(Message), last_message_timestamp : Nat,
   pending_permission : Requests \cup {None}, reconnect_attempt : Nat, pending_sends : Nat,
   active_tasks : {tasks}]
IsView(v) == \E tasks : v \in ViewWith(tasks)

Socket ==
  [up : BOOLEAN, stage : Stages, replay_after : Nat, history : Seq(Message),
   pending : Requests \cup {None}, to_server : Seq(Report), to_view : Seq(WsEvent), made : Nat]

CTypeOK ==
  /\ table \in Seq(Message)
  /\ row \in Requests \cup {None}
  /\ handling \in {None} \cup Storing \cup Asking
  /\ last_input_sender \in Browsers \cup {None} /\ inputs \in Seq(Browsers)
  /\ sock \in [Browsers -> Socket]
  /\ DOMAIN view = Browsers /\ view = [b \in Browsers |-> view[b]]
  /\ \A b \in Browsers : IsView(view[b])

-----------------------------------------------------------------------------
(* The strengthening.                                                       *)

\* The socket of b is that of its view; it registers once, and gets nothing before.
SocketOK(b) ==
  /\ sock[b].up <=> view[b].phase = "connected"
  /\ ~sock[b].up => sock[b].stage = "none" /\ sock[b].to_server = <<>>
  /\ sock[b].stage = "none" => sock[b].to_view = <<>>
  /\ \A i \in 1..Len(sock[b].to_server) :
       sock[b].to_server[i].type = "register" => i = 1 /\ sock[b].stage = "none"

\* A dialog that b has open, or an event or an answer that explains that it has none.
Accounted(b) ==
  \/ view[b].pending_permission # None
  \/ \E i \in 1..Len(sock[b].to_view) : sock[b].to_view[i].type = "request"
  \/ \E i \in 1..Len(sock[b].to_server) : sock[b].to_server[i].type = "answer"
  \/ handling \in Asking

RequestComes(b) ==
  row # None =>
    /\ sock[b].stage = "asking" => sock[b].pending # None \/ Accounted(b)
    /\ sock[b].stage = "done" => Accounted(b)

\* The messages that were broadcast: those stored, and the one about to be.
Said == IF handling \in Storing THEN Append(table, handling.message) ELSE table

\* The messages s of a view end as the first n of F do, as far as a view keeps them.
UpTo(F, s, n) ==
  /\ n <= Len(F)
  /\ \A k \in 1..n : n - k < MAX_MESSAGES_PER_SESSION =>
       /\ Len(s) - (n - k) \in 1..Len(s)
       /\ s[Len(s) - (n - k)] = F[k]

\* The event e takes a view from the first m messages of F to the first n.
Leads(F, e, m, n) ==
  CASE e.type = "output"  -> n = m + 1 /\ e.message = F[n]
    [] e.type = "history" -> m <= n /\ e.messages = SubSeq(F, m + 1, n)
    [] e.type = "request" -> n = m

\* The events q take the messages s to all those of F, one after the other.
Follows(F, s, q) ==
  \E f \in [0..Len(q) -> 0..Len(F)] :
    /\ UpTo(F, s, f[0]) /\ f[Len(q)] = Len(F)
    /\ \A i \in 1..Len(q) : Leads(F, q[i], f[i - 1], f[i])

OnlyRequests(q) == \A i \in 1..Len(q) : q[i].type = "request"

HistoryComes(b) ==
  LET s == view[b].messages IN
  /\ UpTo(Said, s, view[b].last_message_timestamp)
  /\ \A i \in 1..Len(sock[b].to_server) : sock[b].to_server[i].type = "register" =>
       UpTo(Said, s, sock[b].to_server[i].replay_after)
  /\ sock[b].stage \in {"added", "read"} =>
       OnlyRequests(sock[b].to_view) /\ UpTo(Said, s, sock[b].replay_after)
  /\ sock[b].stage = "read" =>
       sock[b].history = SubSeq(Said, sock[b].replay_after + 1, Len(Said))
  /\ Registering(b) => handling \notin Storing
  /\ sock[b].stage \in {"asking", "done"} => Follows(Said, s, sock[b].to_view)

CInv ==
  /\ CTypeOK
  /\ \A b \in Browsers : SocketOK(b) /\ RequestComes(b)
  /\ "overlap" \notin faults => \A b \in Browsers : HistoryComes(b)
-----------------------------------------------------------------------------
(* The end of a sequence of messages.                                       *)

LEMMA TrimmedEnd ==
  ASSUME NEW s \in Seq(Message)
  PROVE  /\ Trimmed(s) \in Seq(Message)
         /\ Len(Trimmed(s)) <= Len(s) /\ Len(Trimmed(s)) <= MAX_MESSAGES_PER_SESSION
         /\ \A k \in 0..(Len(s) - 1) : k < MAX_MESSAGES_PER_SESSION =>
              /\ Len(Trimmed(s)) - k \in 1..Len(Trimmed(s))
              /\ Trimmed(s)[Len(Trimmed(s)) - k] = s[Len(s) - k]
         /\ \A i \in 1..Len(Trimmed(s)) :
              /\ Trimmed(s)[i] = s[Len(s) - (Len(Trimmed(s)) - i)]
              /\ Len(s) - (Len(Trimmed(s)) - i) \in 1..Len(s)
<1> DEFINE M == MAX_MESSAGES_PER_SESSION
<1>1. M \in Nat /\ M > 0 /\ Len(s) \in Nat
  BY ConversationAssumption
<1>2. CASE Len(s) > M
  <2> DEFINE t == SubSeq(s, Len(s) - M + 1, Len(s))
  <2>1. /\ t \in Seq(Message) /\ Len(t) = M
        /\ \A i \in 1..M : t[i] = s[Len(s) - M + i]
    BY <1>1, <1>2, SubSeqProperties
  <2>2. Trimmed(s) = t
    BY <1>2 DEF Trimmed
  <2> HIDE DEF t
  <2> QED BY <1>1, <1>2, <2>1, <2>2, SMTT(30)
<1>3. CASE ~(Len(s) > M)
  BY <1>1, <1>3 DEF Trimmed
<1> QED BY <1>2, <1>3

LEMMA UpToNothing ==
  ASSUME NEW F \in Seq(Message), NEW s \in Seq(Message)
  PROVE  UpTo(F, s, 0)
BY DEF UpTo

LEMMA UpToGrows ==
  ASSUME NEW F \in Seq(Message), NEW s \in Seq(Message), NEW m \in Message, NEW n \in Nat,
         UpTo(F, s, n)
  PROVE  UpTo(Append(F, m), s, n)
<1> DEFINE G == Append(F, m)
<1>1. Len(F) \in Nat /\ Len(G) = Len(F) + 1 /\ \A i \in 1..Len(F) : G[i] = F[i]
  OBVIOUS
<1> HIDE DEF G
<1>2. UpTo(G, s, n)
  BY <1>1 DEF UpTo
<1> QED BY <1>2 DEF G

LEMMA UpToTrimmed ==
  ASSUME NEW F \in Seq(Message), NEW s \in Seq(Message), NEW n \in Nat, UpTo(F, s, n)
  PROVE  UpTo(F, Trimmed(s), n)
<1>1. n <= Len(F) /\ Len(s) \in Nat /\ Len(F) \in Nat
  BY DEF UpTo
<1>2. ASSUME NEW k \in 1..n, n - k < MAX_MESSAGES_PER_SESSION
      PROVE  /\ Len(Trimmed(s)) - (n - k) \in 1..Len(Trimmed(s))
             /\ Trimmed(s)[Len(Trimmed(s)) - (n - k)] = F[k]
  <2>1. Len(s) - (n - k) \in 1..Len(s) /\ s[Len(s) - (n - k)] = F[k]
    BY <1>2 DEF UpTo
  <2>2. n - k \in 0..(Len(s) - 1)
    BY <2>1, <1>1
  <2> QED BY <2>1, <2>2, <1>2, TrimmedEnd
<1> QED BY <1>1, <1>2 DEF UpTo

LEMMA UpToAppend ==
  ASSUME NEW F \in Seq(Message), NEW s \in Seq(Message), NEW n \in Nat, UpTo(F, s, n),
         n + 1 <= Len(F)
  PROVE  UpTo(F, Trimmed(Append(s, F[n + 1])), n + 1)
<1> DEFINE t == Append(s, F[n + 1])
<1>1. /\ F[n + 1] \in Message /\ t \in Seq(Message) /\ Len(t) = Len(s) + 1
      /\ t[Len(s) + 1] = F[n + 1] /\ \A i \in 1..Len(s) : t[i] = s[i]
  OBVIOUS
<1> HIDE DEF t
<1>2. ASSUME NEW k \in 1..(n + 1), n + 1 - k < MAX_MESSAGES_PER_SESSION
      PROVE  /\ Len(t) - (n + 1 - k) \in 1..Len(t)
             /\ t[Len(t) - (n + 1 - k)] = F[k]
  <2>1. CASE k = n + 1
    BY <2>1, <1>1
  <2>2. CASE k \in 1..n
    <3>1. Len(s) - (n - k) \in 1..Len(s) /\ s[Len(s) - (n - k)] = F[k]
      <4>1. n - k < MAX_MESSAGES_PER_SESSION
        BY <1>2, <2>2, ConversationAssumption
      <4> QED BY <4>1, <2>2 DEF UpTo
    <3>2. Len(t) - (n + 1 - k) = Len(s) - (n - k)
      BY <1>1, <2>2
    <3> QED BY <3>1, <3>2, <1>1
  <2> QED BY <2>1, <2>2
<1>3. UpTo(F, t, n + 1)
  BY <1>2 DEF UpTo
<1>4. UpTo(F, Trimmed(t), n + 1)
  BY <1>1, <1>3, UpToTrimmed
<1> QED BY <1>4 DEF t

LEMMA UpToBatch ==
  ASSUME NEW F \in Seq(Message), NEW s \in Seq(Message), NEW m \in Nat, NEW n \in Nat,
         UpTo(F, s, m), m <= n, n <= Len(F)
  PROVE  UpTo(F, Trimmed(s \o SubSeq(F, m + 1, n)), n)
<1> DEFINE r == SubSeq(F, m + 1, n)
           t == s \o r
<1>1. r \in Seq(Message) /\ Len(r) = n - m /\ \A i \in 1..(n - m) : r[i] = F[m + i]
  BY SubSeqProperties
<1>2. /\ t \in Seq(Message) /\ Len(t) = Len(s) + (n - m)
      /\ \A i \in 1..Len(s) : t[i] = s[i]
      /\ \A i \in 1..(n - m) : t[Len(s) + i] = F[m + i]
  <2> HIDE DEF r
  <2>1. /\ t \in Seq(Message) /\ Len(t) = Len(s) + Len(r)
        /\ \A i \in 1..Len(s) : t[i] = s[i]
        /\ \A i \in 1..Len(r) : t[Len(s) + i] = r[i]
    <3>1. r \in Seq(Message) /\ Len(r) \in Nat /\ Len(s) \in Nat
      BY <1>1
    <3> QED BY <3>1, ConcatProperties
  <2> QED BY <1>1, <2>1
<1> HIDE DEF t, r
<1>3. ASSUME NEW k \in 1..n, n - k < MAX_MESSAGES_PER_SESSION
      PROVE  /\ Len(t) - (n - k) \in 1..Len(t)
             /\ t[Len(t) - (n - k)] = F[k]
  <2>1. CASE k \in 1..m
    <3>1. Len(s) - (m - k) \in 1..Len(s) /\ s[Len(s) - (m - k)] = F[k]
      <4>1. m - k < MAX_MESSAGES_PER_SESSION
        BY <1>3, <2>1, ConversationAssumption
      <4> QED BY <4>1, <2>1 DEF UpTo
    <3>2. Len(t) - (n - k) = Len(s) - (m - k)
      BY <1>2, <2>1
    <3> QED BY <3>1, <3>2, <1>2
  <2>2. CASE k \in (m + 1)..n
    <3>1. k - m \in 1..(n - m) /\ Len(t) - (n - k) = Len(s) + (k - m) /\ m + (k - m) = k
      BY <1>2, <2>2
    <3>2. t[Len(s) + (k - m)] = F[m + (k - m)]
      BY <3>1, <1>2
    <3> QED BY <3>1, <3>2, <1>2
  <2> QED BY <2>1, <2>2
<1>4. UpTo(F, t, n)
  BY <1>3 DEF UpTo
<1> QED BY <1>2, <1>4, UpToTrimmed DEF t, r

LEMMA UpToAll ==
  ASSUME NEW F \in Seq(Message)
  PROVE  UpTo(F, Trimmed(F), Len(F))
<1>1. UpTo(F, F, Len(F))
  BY DEF UpTo
<1> QED BY <1>1, UpToTrimmed

LEMMA UpToShows ==
  ASSUME NEW F \in Seq(Message), NEW s \in Seq(Message), UpTo(F, s, Len(F))
  PROVE  ToSet(Trimmed(F)) \subseteq ToSet(s)
<1> SUFFICES ASSUME NEW i \in 1..Len(Trimmed(F))
             PROVE  \E j \in 1..Len(s) : s[j] = Trimmed(F)[i]
  BY TrimmedEnd DEF ToSet
<1> DEFINE k == Len(F) - (Len(Trimmed(F)) - i)
<1>1. k \in 1..Len(F) /\ Trimmed(F)[i] = F[k]
  BY TrimmedEnd
<1>2. Len(F) - k < MAX_MESSAGES_PER_SESSION
  <2>1. Len(Trimmed(F)) \in Nat /\ Len(Trimmed(F)) <= MAX_MESSAGES_PER_SESSION
    BY TrimmedEnd
  <2> QED BY <2>1, ConversationAssumption
<1> HIDE DEF k
<1> QED BY <1>1, <1>2 DEF UpTo
-----------------------------------------------------------------------------
(* Events on their way to a view.                                           *)

LEMMA EventKinds ==
  ASSUME NEW e \in WsEvent
  PROVE  /\ e.type \in {"output", "history", "request"}
         /\ e.type = "output" => e.message \in Message
         /\ e.type = "history" => e.messages \in Seq(Message)
         /\ e.type = "request" => e.request \in Requests
BY DEF WsEvent, Outputs, Histories, PermissionRequests

LEMMA ViewFields ==
  ASSUME NEW v, IsView(v)
  PROVE  /\ v.phase \in Phases /\ v.messages \in Seq(Message)
         /\ v.last_message_timestamp \in Nat /\ v.pending_permission \in Requests \cup {None}
         /\ v.reconnect_attempt \in Nat /\ v.pending_sends \in Nat
BY DEF IsView, ViewWith

\* The messages that the event e leaves in a view that had s.
Shows(s, e) ==
  CASE e.type = "output" -> Trimmed(Append(s, e.message))
    [] e.type = "history" -> Trimmed(s \o e.messages)
    [] e.type = "request" -> s

LEMMA Handled ==
  ASSUME NEW v, IsView(v), NEW e \in WsEvent
  PROVE  LET w == handle_ws_event(v, e) IN
         /\ IsView(w) /\ w.phase = v.phase
         /\ w.messages = Shows(v.messages, e)
         /\ w.last_message_timestamp = IF e.type = "request" THEN v.last_message_timestamp ELSE 0
         /\ w.pending_permission = IF e.type = "request" THEN e.request ELSE v.pending_permission
<1> DEFINE w == handle_ws_event(v, e)
<1>0. PICK tasks : v \in ViewWith(tasks)
  BY DEF IsView
<1>1. CASE e.type = "output"
  <2>1. e.message \in Message /\ v.messages \in Seq(Message)
    BY <1>1, EventKinds, ViewFields
  <2>2. Append(v.messages, e.message) \in Seq(Message)
    BY <2>1
  <2>3. Trimmed(Append(v.messages, e.message)) \in Seq(Message)
    BY <2>2, TrimmedEnd
  <2>4. w = ReceivedOutput(v, e.message)
    BY <1>1 DEF handle_ws_event
  <2>5. w \in ViewWith(TaskSeen(v.active_tasks, e.message))
    <3> DEFINE ms == Trimmed(Append(v.messages, e.message))
    <3>1. ms \in Seq(Message)
      BY <2>3
    <3>2. w = [v EXCEPT !.messages = ms, !.last_message_timestamp = 0,
                        !.pending_sends = IF e.message.kind = "user" /\ @ > 0 THEN @ - 1 ELSE @,
                        !.active_tasks = TaskSeen(@, e.message)]
      BY <2>4 DEF ReceivedOutput
    <3> DEFINE t == TaskSeen(v.active_tasks, e.message)
               n == IF e.message.kind = "user" /\ v.pending_sends > 0
                    THEN v.pending_sends - 1 ELSE v.pending_sends
    <3>3. n \in Nat
      BY ViewFields
    <3>4. w = [v EXCEPT !.messages = ms, !.last_message_timestamp = 0, !.pending_sends = n,
                        !.active_tasks = t]
      BY <3>2
    <3> HIDE DEF ms, w, t, n
    <3>5. w \in ViewWith(t)
      BY <1>0, <3>1, <3>3, <3>4 DEF ViewWith
    <3> QED BY <3>5 DEF t
  <2>6. /\ w.phase = v.phase /\ w.messages = Trimmed(Append(v.messages, e.message))
        /\ w.last_message_timestamp = 0 /\ w.pending_permission = v.pending_permission
    BY <1>0, <2>4 DEF ReceivedOutput, ViewWith
  <2> QED BY <1>1, <2>5, <2>6 DEF IsView, Shows
<1>2. CASE e.type = "history"
  <2>1. e.messages \in Seq(Message) /\ v.messages \in Seq(Message)
    BY <1>2, EventKinds, ViewFields
  <2>2. v.messages \o e.messages \in Seq(Message)
    BY <2>1
  <2>3. Trimmed(v.messages \o e.messages) \in Seq(Message)
    BY <2>2, TrimmedEnd
  <2>4. w = HistoryBatch(v, e.messages)
    BY <1>2 DEF handle_ws_event
  <2>5. w \in ViewWith(tasks)
    <3> DEFINE ms == Trimmed(v.messages \o e.messages)
    <3>1. ms \in Seq(Message)
      BY <2>3
    <3>2. w = [v EXCEPT !.messages = ms, !.last_message_timestamp = 0]
      BY <2>4 DEF HistoryBatch
    <3> HIDE DEF ms, w
    <3> QED BY <1>0, <3>1, <3>2 DEF ViewWith
  <2>6. /\ w.phase = v.phase /\ w.messages = Trimmed(v.messages \o e.messages)
        /\ w.last_message_timestamp = 0 /\ w.pending_permission = v.pending_permission
    BY <1>0, <2>4 DEF HistoryBatch, ViewWith
  <2> QED BY <1>2, <2>5, <2>6 DEF IsView, Shows
<1>3. CASE e.type = "request"
  <2>1. e.request \in Requests
    BY <1>3, EventKinds
  <2>2. w = PermissionRequest(v, e.request)
    BY <1>3 DEF handle_ws_event
  <2>3. w \in ViewWith(tasks)
    BY <1>0, <2>1, <2>2 DEF PermissionRequest, ViewWith
  <2>4. /\ w.phase = v.phase /\ w.messages = v.messages
        /\ w.last_message_timestamp = v.last_message_timestamp
        /\ w.pending_permission = e.request
    BY <1>0, <2>2 DEF PermissionRequest, ViewWith
  <2> QED BY <1>3, <2>3, <2>4 DEF IsView, Shows
<1> QED BY <1>1, <1>2, <1>3, EventKinds

LEMMA LeadsOn ==
  ASSUME NEW F \in Seq(Message), NEW s \in Seq(Message), NEW e \in WsEvent,
         NEW m \in 0..Len(F), NEW n \in 0..Len(F), UpTo(F, s, m), Leads(F, e, m, n)
  PROVE  UpTo(F, Shows(s, e), n)
<1>1. CASE e.type = "output"
  BY <1>1, UpToAppend DEF Leads, Shows
<1>2. CASE e.type = "history"
  <2>1. m <= n /\ e.messages = SubSeq(F, m + 1, n) /\ m \in Nat /\ n \in Nat /\ n <= Len(F)
    BY <1>2 DEF Leads
  <2>2. UpTo(F, Trimmed(s \o SubSeq(F, m + 1, n)), n)
    BY <2>1, UpToBatch
  <2> QED BY <1>2, <2>1, <2>2 DEF Shows
<1>3. CASE e.type = "request"
  BY <1>3 DEF Leads, Shows
<1> QED BY <1>1, <1>2, <1>3, EventKinds

LEMMA FollowsHead ==
  ASSUME NEW F \in Seq(Message), NEW s \in Seq(Message), NEW q \in Seq(WsEvent), q # <<>>,
         Follows(F, s, q)
  PROVE  Follows(F, Shows(s, Head(q)), Tail(q))
<1>1. PICK f \in [0..Len(q) -> 0..Len(F)] :
        /\ UpTo(F, s, f[0]) /\ f[Len(q)] = Len(F)
        /\ \A i \in 1..Len(q) : Leads(F, q[i], f[i - 1], f[i])
  BY DEF Follows
<1> DEFINE g == [i \in 0..Len(Tail(q)) |-> f[i + 1]]
           t == Shows(s, Head(q))
<1>2. /\ Len(q) \in Nat /\ Len(q) > 0 /\ Len(Tail(q)) = Len(q) - 1 /\ Head(q) = q[1]
      /\ Head(q) \in WsEvent /\ \A i \in 1..Len(Tail(q)) : Tail(q)[i] = q[i + 1]
  BY HeadTailProperties
<1>3. g \in [0..Len(Tail(q)) -> 0..Len(F)]
  BY <1>2
<1>4. UpTo(F, t, f[1])
  <2>1. f[0] \in 0..Len(F) /\ f[1] \in 0..Len(F) /\ Leads(F, Head(q), f[0], f[1])
    BY <1>1, <1>2
  <2> QED BY <2>1, <1>1, <1>2, LeadsOn
<1>5. g[0] = f[1] /\ g[Len(Tail(q))] = Len(F)
  BY <1>1, <1>2
<1>6. ASSUME NEW i \in 1..Len(Tail(q))
      PROVE  Leads(F, Tail(q)[i], g[i - 1], g[i])
  <2>1. /\ i + 1 \in 1..Len(q) /\ (i + 1) - 1 = i /\ g[i - 1] = f[i] /\ g[i] = f[i + 1]
        /\ Tail(q)[i] = q[i + 1]
    BY <1>2
  <2>2. Leads(F, q[i + 1], f[(i + 1) - 1], f[i + 1])
    BY <2>1, <1>1
  <2> QED BY <2>1, <2>2
<1> HIDE DEF g, t
<1>7. Follows(F, t, Tail(q))
  BY <1>3, <1>4, <1>5, <1>6 DEF Follows
<1> QED BY <1>7 DEF t

LEMMA LeadsGrows ==
  ASSUME NEW F \in Seq(Message), NEW m \in Message, NEW e \in WsEvent,
         NEW a \in 0..Len(F), NEW b \in 0..Len(F), Leads(F, e, a, b)
  PROVE  Leads(Append(F, m), e, a, b)
<1> DEFINE G == Append(F, m)
<1>1. Len(G) = Len(F) + 1 /\ \A i \in 1..Len(F) : G[i] = F[i]
  OBVIOUS
<1>2. CASE e.type = "output"
  BY <1>1, <1>2 DEF Leads
<1>3. CASE e.type = "history"
  <2>1. SubSeq(G, a + 1, b) = SubSeq(F, a + 1, b)
    BY <1>1
  <2> QED BY <2>1, <1>3 DEF Leads
<1>4. CASE e.type = "request"
  BY <1>4 DEF Leads
<1> QED BY <1>2, <1>3, <1>4, EventKinds

LEMMA FollowsOutput ==
  ASSUME NEW F \in Seq(Message), NEW s \in Seq(Message), NEW q \in Seq(WsEvent),
         NEW m \in Message, Follows(F, s, q)
  PROVE  Follows(Append(F, m), s, Append(q, [type |-> "output", message |-> m]))
<1>1. PICK f \in [0..Len(q) -> 0..Len(F)] :
        /\ UpTo(F, s, f[0]) /\ f[Len(q)] = Len(F)
        /\ \A i \in 1..Len(q) : Leads(F, q[i], f[i - 1], f[i])
  BY DEF Follows
<1> DEFINE e == [type |-> "output", message |-> m]
           G == Append(F, m)
           r == Append(q, e)
           g == [i \in 0..(Len(q) + 1) |-> IF i \in 0..Len(q) THEN f[i] ELSE Len(F) + 1]
<1>2. /\ Len(r) = Len(q) + 1 /\ r[Len(q) + 1] = e /\ \A i \in 1..Len(q) : r[i] = q[i]
      /\ Len(q) \in Nat /\ Len(F) \in Nat
  BY DEF WsEvent, Outputs, Histories, PermissionRequests
<1>3. Len(G) = Len(F) + 1 /\ G[Len(F) + 1] = m
  OBVIOUS
<1>4. g \in [0..Len(r) -> 0..Len(G)]
  BY <1>2, <1>3
<1>5. UpTo(G, s, g[0]) /\ g[Len(r)] = Len(G)
  <2>1. g[0] = f[0] /\ f[0] \in Nat /\ g[Len(r)] = Len(G)
    BY <1>2, <1>3
  <2> QED BY <2>1, <1>1, UpToGrows
<1>6. ASSUME NEW i \in 1..Len(r)
      PROVE  Leads(G, r[i], g[i - 1], g[i])
  <2>1. CASE i \in 1..Len(q)
    <3>0. g[i - 1] = f[i - 1] /\ g[i] = f[i] /\ r[i] = q[i]
      BY <2>1, <1>2
    <3>1. /\ g[i - 1] = f[i - 1] /\ g[i] = f[i] /\ r[i] = q[i] /\ q[i] \in WsEvent
          /\ f[i - 1] \in 0..Len(F) /\ f[i] \in 0..Len(F)
      <4>1. q[i] \in WsEvent
        BY <2>1, <1>2
      <4> HIDE DEF g, r
      <4>2. i - 1 \in 0..Len(q) /\ i \in 0..Len(q)
        BY <2>1, <1>2
      <4>3. \A j \in 0..Len(q) : f[j] \in 0..Len(F)
        BY <1>1
      <4> QED BY <4>1, <4>2, <4>3, <3>0
    <3>2. Leads(G, q[i], f[i - 1], f[i])
      BY <3>1, <2>1, <1>1, LeadsGrows
    <3> QED BY <3>1, <3>2
  <2>2. CASE i = Len(q) + 1
    <3>1. g[i - 1] = Len(F) /\ g[i] = Len(F) + 1 /\ r[i] = e
      BY <2>2, <1>1, <1>2
    <3>2. e.type = "output" /\ e.message = m
      OBVIOUS
    <3> HIDE DEF g, G, r, e
    <3> QED BY <3>1, <3>2, <1>3 DEF Leads
  <2> QED BY <2>1, <2>2, <1>2
<1> HIDE DEF g, G, r
<1>7. Follows(G, s, r)
  BY <1>4, <1>5, <1>6 DEF Follows
<1> QED BY <1>7 DEF G, r

LEMMA FollowsRequest ==
  ASSUME NEW F \in Seq(Message), NEW s \in Seq(Message), NEW q \in Seq(WsEvent),
         NEW e \in WsEvent, e.type = "request", Follows(F, s, q)
  PROVE  Follows(F, s, Append(q, e))
<1>1. PICK f \in [0..Len(q) -> 0..Len(F)] :
        /\ UpTo(F, s, f[0]) /\ f[Len(q)] = Len(F)
        /\ \A i \in 1..Len(q) : Leads(F, q[i], f[i - 1], f[i])
  BY DEF Follows
<1> DEFINE r == Append(q, e)
           g == [i \in 0..(Len(q) + 1) |-> IF i \in 0..Len(q) THEN f[i] ELSE Len(F)]
<1>2. /\ Len(r) = Len(q) + 1 /\ r[Len(q) + 1] = e /\ \A i \in 1..Len(q) : r[i] = q[i]
      /\ Len(q) \in Nat /\ Len(F) \in Nat
  OBVIOUS
<1>4. g \in [0..Len(r) -> 0..Len(F)]
  BY <1>2
<1>5. UpTo(F, s, g[0]) /\ g[Len(r)] = Len(F)
  BY <1>1, <1>2
<1>6. ASSUME NEW i \in 1..Len(r)
      PROVE  Leads(F, r[i], g[i - 1], g[i])
  <2>1. CASE i \in 1..Len(q)
    <3>1. g[i - 1] = f[i - 1] /\ g[i] = f[i] /\ r[i] = q[i]
      BY <2>1, <1>2
    <3> QED BY <3>1, <2>1, <1>1
  <2>2. CASE i = Len(q) + 1
    <3>1. g[i - 1] = Len(F) /\ g[i] = Len(F) /\ r[i] = e
      BY <2>2, <1>1, <1>2
    <3> QED BY <3>1 DEF Leads
  <2> QED BY <2>1, <2>2, <1>2
<1> HIDE DEF g, r
<1>7. Follows(F, s, r)
  BY <1>4, <1>5, <1>6 DEF Follows
<1> QED BY <1>7 DEF r

\* What the replay of the history adds, behind requests.
LEMMA FollowsHistory ==
  ASSUME NEW F \in Seq(Message), NEW s \in Seq(Message), NEW q \in Seq(WsEvent),
         NEW a \in Nat, UpTo(F, s, a), OnlyRequests(q),
         NEW rows, rows = SubSeq(F, a + 1, Len(F))
  PROVE  Follows(F, s, IF rows = <<>> THEN q
                       ELSE Append(q, [type |-> "history", messages |-> rows]))
<1>1. a <= Len(F) /\ Len(F) \in Nat /\ Len(q) \in Nat
  BY DEF UpTo
<1>2. Len(rows) = Len(F) - a /\ rows \in Seq(Message)
  BY <1>1, SubSeqProperties
<1>3. CASE rows = <<>>
  <2> DEFINE g == [i \in 0..Len(q) |-> Len(F)]
  <2>1. a = Len(F)
    <3>1. Len(rows) = 0
      BY <1>3, <1>2, EmptySeq
    <3> QED BY <3>1, <1>1, <1>2
  <2>2. g \in [0..Len(q) -> 0..Len(F)] /\ g[0] = Len(F) /\ g[Len(q)] = Len(F)
    BY <1>1
  <2>3. ASSUME NEW i \in 1..Len(q)
        PROVE  Leads(F, q[i], g[i - 1], g[i])
    <3>1. g[i - 1] = Len(F) /\ g[i] = Len(F) /\ q[i].type = "request"
      BY <1>1 DEF OnlyRequests
    <3> QED BY <3>1 DEF Leads
  <2> HIDE DEF g
  <2>4. Follows(F, s, q)
    BY <2>1, <2>2, <2>3 DEF Follows
  <2> QED BY <2>4, <1>3
<1>4. CASE rows # <<>>
  <2> DEFINE e == [type |-> "history", messages |-> rows]
             r == Append(q, e)
             g == [i \in 0..(Len(q) + 1) |-> IF i \in 0..Len(q) THEN a ELSE Len(F)]
  <2>1. /\ Len(r) = Len(q) + 1 /\ r[Len(q) + 1] = e /\ \A i \in 1..Len(q) : r[i] = q[i]
    OBVIOUS
  <2>2. g \in [0..Len(r) -> 0..Len(F)] /\ g[0] = a /\ g[Len(r)] = Len(F)
    BY <1>1, <2>1
  <2>3. ASSUME NEW i \in 1..Len(r)
        PROVE  Leads(F, r[i], g[i - 1], g[i])
    <3>1. CASE i \in 1..Len(q)
      <4>1. g[i - 1] = a /\ g[i] = a /\ r[i] = q[i] /\ q[i].type = "request"
        BY <3>1, <1>1, <2>1 DEF OnlyRequests
      <4> QED BY <4>1 DEF Leads
    <3>2. CASE i = Len(q) + 1
      <4>1. g[i - 1] = a /\ g[i] = Len(F) /\ r[i] = e
        BY <3>2, <1>1, <2>1
      <4>2. e.type = "history" /\ e.messages = SubSeq(F, a + 1, Len(F))
        OBVIOUS
      <4> HIDE DEF g, r, e
      <4> QED BY <4>1, <4>2, <1>1 DEF Leads
    <3>3. i \in 1..Len(q) \/ i = Len(q) + 1
      BY <2>1, <1>1
    <3> QED BY <3>1, <3>2, <3>3
  <2> HIDE DEF g, r
  <2>4. Follows(F, s, r)
    BY <2>2, <2>3 DEF Follows
  <2> QED BY <2>4, <1>4 DEF r
<1> QED BY <1>3, <1>4
-----------------------------------------------------------------------------
(* The steps of a browser and of the thread of its socket.                  *)

LEMMA HandlingKinds ==
  /\ None \notin Storing /\ None \notin Asking
  /\ \A h \in Storing : h \notin Asking /\ h.type = "store" /\ h.message \in Message
  /\ \A h \in Asking : h \notin Storing /\ h.type = "ask" /\ h.request \in Requests
  /\ \A h \in {None} \cup Storing \cup Asking : h # None /\ h.type = "store" => h \in Storing
  /\ \A h \in {None} \cup Storing \cup Asking : h # None /\ h.type = "ask" => h \in Asking
BY ConversationAssumption DEF Storing, Asking

LEMMA SaidType ==
  ASSUME CTypeOK
  PROVE  /\ Said \in Seq(Message)
         /\ handling \notin Storing => Said = table
BY HandlingKinds DEF CTypeOK, Said

LEMMA SocketFields ==
  ASSUME CTypeOK, NEW b \in Browsers
  PROVE  /\ sock[b] \in Socket /\ sock[b].up \in BOOLEAN /\ sock[b].stage \in Stages
         /\ sock[b].replay_after \in Nat /\ sock[b].history \in Seq(Message)
         /\ sock[b].pending \in Requests \cup {None} /\ sock[b].to_server \in Seq(Report)
         /\ sock[b].to_view \in Seq(WsEvent) /\ sock[b].made \in Nat
         /\ IsView(view[b]) /\ view[b].messages \in Seq(Message)
         /\ view[b].last_message_timestamp \in Nat /\ view[b].phase \in Phases
         /\ view[b].pending_permission \in Requests \cup {None}
BY ViewFields DEF CTypeOK, Socket

\* Only the socket and the view of b change.
Local(b) ==
  /\ sock' = [sock EXCEPT ![b] = sock'[b]] /\ sock'[b] \in Socket
  /\ view' = [view EXCEPT ![b] = view'[b]] /\ IsView(view'[b])
  /\ last_input_sender' \in Browsers \cup {None} /\ inputs' \in Seq(Browsers)
  /\ UNCHANGED <<table, handling>>

LEMMA LocalKeeps ==
  ASSUME CInv, NEW b \in Browsers, Local(b), row' = row, faults' = faults,
         SocketOK(b)', RequestComes(b)', "overlap" \notin faults => HistoryComes(b)'
  PROVE  CInv'
<1>1. CTypeOK'
  BY DEF CInv, CTypeOK, Local
<1>2. ASSUME NEW c \in Browsers, c # b
      PROVE  sock'[c] = sock[c] /\ view'[c] = view[c]
  BY <1>2 DEF Local, CInv, CTypeOK
<1>3. ASSUME NEW c \in Browsers, c # b
      PROVE  SocketOK(c)' /\ RequestComes(c)' /\ ("overlap" \notin faults => HistoryComes(c)')
  <2>1. sock'[c] = sock[c] /\ view'[c] = view[c] /\ handling' = handling /\ Said' = Said
    BY <1>2, <1>3 DEF Local, Said
  <2>2. SocketOK(c) /\ RequestComes(c) /\ ("overlap" \notin faults => HistoryComes(c))
    BY DEF CInv
  <2>3. SocketOK(c)'
    BY <2>1, <2>2 DEF SocketOK
  <2>4. RequestComes(c)'
    BY <2>1, <2>2 DEF RequestComes, Accounted
  <2>5. ASSUME "overlap" \notin faults PROVE HistoryComes(c)'
    <3>1. HistoryComes(c)
      BY <2>2, <2>5
    <3> QED BY <2>1, <3>1 DEF HistoryComes, Registering
  <2> QED BY <2>3, <2>4, <2>5
<1> QED BY <1>1, <1>3 DEF CInv

\* The same when the row goes, which leaves nothing to explain for anybody.
LEMMA RowGoneKeeps ==
  ASSUME CInv, NEW b \in Browsers, Local(b), row' = None, faults' = faults,
         SocketOK(b)', \A c \in Browsers : RequestComes(c)',
         "overlap" \notin faults => HistoryComes(b)'
  PROVE  CInv'
<1>1. CTypeOK'
  BY DEF CInv, CTypeOK, Local
<1>2. ASSUME NEW c \in Browsers, c # b
      PROVE  SocketOK(c)' /\ ("overlap" \notin faults => HistoryComes(c)')
  <2>1. sock'[c] = sock[c] /\ view'[c] = view[c]
    BY <1>2 DEF Local, CInv, CTypeOK
  <2>2. handling' = handling /\ Said' = Said
    BY DEF Local, Said
  <2>3. SocketOK(c)'
    BY <2>1 DEF CInv, SocketOK
  <2>4. ASSUME "overlap" \notin faults PROVE HistoryComes(c)'
    <3>1. HistoryComes(c)
      BY <2>4 DEF CInv
    <3> QED BY <2>1, <2>2, <3>1 DEF HistoryComes, Registering
  <2> QED BY <2>3, <2>4
<1> QED BY <1>1, <1>2 DEF CInv

\* A socket that is closed, or was just opened, says nothing.
LEMMA Silent ==
  ASSUME CTypeOK, NEW b \in Browsers
  PROVE  /\ Closed(b) \in Socket /\ ~Closed(b).up /\ Closed(b).stage = "none"
         /\ Closed(b).to_view = <<>> /\ Closed(b).to_server = <<>>
<1>1. sock[b].made \in Nat
  BY SocketFields
<1>2. NoSocket \in Socket
  BY DEF NoSocket, Socket, Stages
<1> QED BY <1>1, <1>2 DEF Closed, NoSocket, Socket

LEMMA ErrorHandled ==
  ASSUME NEW v, IsView(v)
  PROVE  LET w == handle_ws_error(v) IN
         /\ IsView(w) /\ w.phase # "connected" /\ w.messages = v.messages
         /\ w.last_message_timestamp = v.last_message_timestamp
<1> DEFINE w == handle_ws_error(v)
<1>0. PICK tasks : v \in ViewWith(tasks)
  BY DEF IsView
<1>1. CASE v.reconnect_attempt < MAX_ATTEMPTS
  <2> DEFINE n == v.reconnect_attempt + 1
  <2>0. n \in Nat
    BY ViewFields
  <2>1. w = [v EXCEPT !.phase = "waiting", !.reconnect_attempt = n]
    BY <1>1 DEF handle_ws_error
  <2> HIDE DEF w, n
  <2>2. w \in ViewWith(tasks)
    BY <1>0, <2>0, <2>1 DEF ViewWith, Phases
  <2>3. /\ w.phase # "connected" /\ w.messages = v.messages
        /\ w.last_message_timestamp = v.last_message_timestamp
    BY <1>0, <2>1 DEF ViewWith
  <2> QED BY <2>2, <2>3 DEF w, IsView
<1>2. CASE ~(v.reconnect_attempt < MAX_ATTEMPTS)
  <2>1. w = [v EXCEPT !.phase = "given_up"]
    BY <1>2 DEF handle_ws_error
  <2> HIDE DEF w
  <2>2. w \in ViewWith(tasks)
    BY <1>0, <2>1 DEF ViewWith, Phases
  <2>3. /\ w.phase # "connected" /\ w.messages = v.messages
        /\ w.last_message_timestamp = v.last_message_timestamp
    BY <1>0, <2>1 DEF ViewWith
  <2> QED BY <2>2, <2>3 DEF w, IsView
<1> QED BY <1>1, <1>2

\* What a silent socket leaves to show: the times a view tells it.
LEMMA SilentKeeps ==
  ASSUME CInv, NEW b \in Browsers, Local(b), row' = row, faults' = faults,
         sock'[b].up <=> view'[b].phase = "connected",
         sock'[b].stage = "none", sock'[b].to_view = <<>>,
         \A i \in 1..Len(sock'[b].to_server) :
           /\ i = 1 /\ sock'[b].up
           /\ sock'[b].to_server[i].type = "register"
           /\ sock'[b].to_server[i].replay_after = view'[b].last_message_timestamp,
         ~sock'[b].up => sock'[b].to_server = <<>>,
         "overlap" \notin faults =>
           UpTo(Said, view'[b].messages, view'[b].last_message_timestamp)
  PROVE  CInv'
<1>1. SocketOK(b)'
  BY DEF SocketOK
<1>2. RequestComes(b)'
  BY DEF RequestComes
<1>3. Said' = Said
  BY DEF Said, Local
<1>4. ASSUME "overlap" \notin faults PROVE HistoryComes(b)'
  BY <1>3, <1>4 DEF HistoryComes, Registering
<1> QED BY <1>1, <1>2, <1>4, LocalKeeps

LEMMA SayingIsUpTo ==
  ASSUME CInv, NEW b \in Browsers, "overlap" \notin faults
  PROVE  UpTo(Said, view[b].messages, view[b].last_message_timestamp)
BY DEF CInv, HistoryComes

LEMMA LoadHistoryKeeps ==
  ASSUME CInv, NEW b \in Browsers, LoadHistory(b), faults' = faults
  PROVE  CInv'
<1> USE DEF CInv
<1> DEFINE rows == list_messages(b)
<1>1. PICK tasks : view[b] \in ViewWith(tasks)
  BY SocketFields DEF IsView
<1>2. rows \in Seq(Message) /\ Trimmed(rows) \in Seq(Message) /\ Len(rows) \in Nat
  <2>1. rows \in Seq(Message)
    BY DEF CTypeOK, list_messages
  <2> QED BY <2>1, TrimmedEnd
<1>3. /\ view' = [view EXCEPT ![b] = view'[b]]
      /\ view'[b] = [view[b] EXCEPT !.phase = "connecting", !.messages = Trimmed(rows),
                      !.active_tasks = TasksOfHistory(Trimmed(rows)),
                      !.last_message_timestamp = Len(rows)]
  BY DEF LoadHistory, CTypeOK
<1>4. view'[b] \in ViewWith(TasksOfHistory(Trimmed(rows)))
  <2> DEFINE ms == Trimmed(rows)
             t == TasksOfHistory(ms)
             n == Len(rows)
  <2>1. ms \in Seq(Message) /\ n \in Nat
    BY <1>2
  <2>2. view'[b] = [view[b] EXCEPT !.phase = "connecting", !.messages = ms,
                      !.active_tasks = t, !.last_message_timestamp = n]
    BY <1>3
  <2> HIDE DEF ms, t, n
  <2>3. view'[b] \in ViewWith(t)
    BY <1>1, <2>1, <2>2 DEF ViewWith, Phases
  <2> QED BY <2>3 DEF t, ms
<1>5. /\ view'[b].phase = "connecting" /\ view'[b].messages = Trimmed(rows)
      /\ view'[b].last_message_timestamp = Len(rows)
  BY <1>1, <1>3 DEF ViewWith
<1>6. sock' = sock /\ row' = row
  BY DEF LoadHistory
<1>7. Local(b)
  BY <1>3, <1>4, <1>6 DEF Local, LoadHistory, CTypeOK, IsView, agentVars
<1>8. ~sock[b].up /\ sock[b].stage = "none" /\ sock[b].to_view = <<>> /\ sock[b].to_server = <<>>
  <2>1. SocketOK(b) /\ view[b].phase = "loading"
    BY DEF LoadHistory
  <2> QED BY <2>1 DEF SocketOK
<1>9. ASSUME "overlap" \notin faults
      PROVE  UpTo(Said, Trimmed(rows), Len(rows))
  <2>1. CASE rows = <<>>
    BY <2>1, <1>2, UpToNothing, SaidType
  <2>2. CASE rows = table
    <3>1. UpTo(table, Trimmed(table), Len(table))
      BY UpToAll DEF CTypeOK
    <3>2. handling \in Storing => UpTo(Append(table, handling.message), Trimmed(table), Len(table))
      BY <3>1, <1>2, <2>2, UpToGrows, HandlingKinds DEF CTypeOK
    <3> QED BY <3>1, <3>2, <2>2 DEF Said
  <2> QED BY <2>1, <2>2 DEF list_messages
<1>10. Len(sock'[b].to_server) = 0
  BY <1>6, <1>8, EmptySeq
<1> QED BY <1>5, <1>6, <1>7, <1>8, <1>9, <1>10, SilentKeeps

LEMMA OutOfTouch ==
  ASSUME CInv, NEW b \in Browsers, view[b].phase # "connected"
  PROVE  /\ ~sock[b].up /\ sock[b].stage = "none" /\ sock[b].to_view = <<>>
         /\ sock[b].to_server = <<>> /\ Len(sock[b].to_server) = 0
BY EmptySeq DEF CInv, SocketOK

\* The steps of a view without a socket that leave its messages.
LEMMA PhaseKeeps ==
  ASSUME CInv, NEW b \in Browsers, faults' = faults, view[b].phase # "connected",
         NEW w, IsView(w), w.phase # "connected", w.messages = view[b].messages,
         w.last_message_timestamp = view[b].last_message_timestamp,
         view' = [view EXCEPT ![b] = w],
         UNCHANGED <<table, row, handling, last_input_sender, agentVars, access, sock>>
  PROVE  CInv'
<1>1. view'[b] = w
  BY DEF CInv, CTypeOK
<1>2. Local(b)
  BY <1>1 DEF Local, CInv, CTypeOK, agentVars
<1> QED BY <1>1, <1>2, OutOfTouch, SayingIsUpTo, SilentKeeps

LEMMA LoadFailsKeeps ==
  ASSUME CInv, NEW b \in Browsers, LoadFails(b), faults' = faults
  PROVE  CInv'
<1> DEFINE w == [view[b] EXCEPT !.phase = "connecting"]
<1>1. PICK tasks : view[b] \in ViewWith(tasks)
  BY SocketFields DEF IsView, CInv
<1>2. /\ w \in ViewWith(tasks) /\ w.phase # "connected" /\ w.messages = view[b].messages
      /\ w.last_message_timestamp = view[b].last_message_timestamp
  BY <1>1 DEF ViewWith, Phases
<1>3. view' = [view EXCEPT ![b] = w] /\ view[b].phase # "connected"
  BY DEF LoadFails
<1> HIDE DEF w
<1>4. IsView(w)
  BY <1>2 DEF IsView
<1> QED BY <1>2, <1>3, <1>4, PhaseKeeps DEF LoadFails

LEMMA ReconnectKeeps ==
  ASSUME CInv, NEW b \in Browsers, attempt_reconnect(b), faults' = faults
  PROVE  CInv'
<1> DEFINE w == [view[b] EXCEPT !.phase = "connecting"]
<1>1. PICK tasks : view[b] \in ViewWith(tasks)
  BY SocketFields DEF IsView, CInv
<1>2. /\ w \in ViewWith(tasks) /\ w.phase # "connected" /\ w.messages = view[b].messages
      /\ w.last_message_timestamp = view[b].last_message_timestamp
  BY <1>1 DEF ViewWith, Phases
<1>3. view' = [view EXCEPT ![b] = w] /\ view[b].phase # "connected"
  BY DEF attempt_reconnect
<1> HIDE DEF w
<1>4. IsView(w)
  BY <1>2 DEF IsView
<1> QED BY <1>2, <1>3, <1>4, PhaseKeeps DEF attempt_reconnect

LEMMA ConnectFailsKeeps ==
  ASSUME CInv, NEW b \in Browsers, ConnectFails(b), faults' = faults
  PROVE  CInv'
<1> DEFINE w == handle_ws_error(view[b])
<1>1. /\ IsView(w) /\ w.phase # "connected" /\ w.messages = view[b].messages
      /\ w.last_message_timestamp = view[b].last_message_timestamp
  BY SocketFields, ErrorHandled DEF CInv
<1>2. view' = [view EXCEPT ![b] = w] /\ view[b].phase # "connected"
  BY DEF ConnectFails
<1> HIDE DEF w
<1> QED BY <1>1, <1>2, PhaseKeeps DEF ConnectFails
LEMMA ConnectKeeps ==
  ASSUME CInv, NEW b \in Browsers, connect_websocket(b), faults' = faults
  PROVE  CInv'
<1> DEFINE n == view[b].last_message_timestamp
           m == [type |-> "register", replay_after |-> n]
<1>1. PICK tasks : view[b] \in ViewWith(tasks)
  BY SocketFields DEF IsView, CInv
<1>2. /\ view' = [view EXCEPT ![b] = view'[b]]
      /\ view'[b] = [view[b] EXCEPT !.phase = "connected", !.reconnect_attempt = 0]
  BY DEF connect_websocket, CInv, CTypeOK
<1>3. /\ IsView(view'[b]) /\ view'[b].phase = "connected"
      /\ view'[b].messages = view[b].messages /\ view'[b].last_message_timestamp = n
  <2> DEFINE w == [view[b] EXCEPT !.phase = "connected", !.reconnect_attempt = 0]
  <2>1. w \in ViewWith(tasks)
    BY <1>1 DEF ViewWith, Phases
  <2>2. w.phase = "connected" /\ w.messages = view[b].messages /\ w.last_message_timestamp = n
    BY <1>1 DEF ViewWith
  <2>3. view'[b] = w
    BY <1>2
  <2> HIDE DEF w
  <2> QED BY <2>1, <2>2, <2>3 DEF IsView
<1>4. n \in Nat /\ sock[b].made + 1 \in Nat
  BY SocketFields DEF CInv
<1>5. m \in Report /\ m.type = "register" /\ m.replay_after = n
  BY <1>4 DEF Report
<1>6. <<m>> \in Seq(Report) /\ Len(<<m>>) = 1 /\ <<m>>[1] = m
  BY <1>5
<1>7. /\ sock' = [sock EXCEPT ![b] = sock'[b]]
      /\ sock'[b] = [NoSocket EXCEPT !.up = TRUE, !.made = sock[b].made + 1,
                                     !.to_server = <<m>>]
  BY DEF connect_websocket, CInv, CTypeOK
<1> HIDE DEF m, n
<1>8. /\ sock'[b] \in Socket /\ sock'[b].up /\ sock'[b].stage = "none"
      /\ sock'[b].to_view = <<>> /\ sock'[b].to_server = <<m>>
  <2> DEFINE made == sock[b].made + 1
  <2>1. made \in Nat /\ sock'[b] = [NoSocket EXCEPT !.up = TRUE, !.made = made,
                                                    !.to_server = <<m>>]
    BY <1>4, <1>7
  <2>2. NoSocket \in Socket
    BY DEF NoSocket, Socket, Stages
  <2> HIDE DEF made
  <2> QED BY <1>6, <2>1, <2>2 DEF NoSocket, Socket
<1>9. Local(b) /\ row' = row
  BY <1>2, <1>3, <1>7, <1>8 DEF Local, connect_websocket, CInv, CTypeOK, IsView, agentVars
<1>10. ASSUME NEW i \in 1..Len(sock'[b].to_server)
       PROVE  /\ i = 1 /\ sock'[b].to_server[i].type = "register"
              /\ sock'[b].to_server[i].replay_after = view'[b].last_message_timestamp
  BY <1>3, <1>5, <1>6, <1>8
<1>11. "overlap" \notin faults => UpTo(Said, view[b].messages, n)
  BY SayingIsUpTo DEF n
<1> QED BY <1>3, <1>8, <1>9, <1>10, <1>11, SilentKeeps

\* A socket is lost with everything under way in it.
LEMMA ClosedKeeps ==
  ASSUME CInv, NEW b \in Browsers, faults' = faults,
         sock' = [sock EXCEPT ![b] = Closed(b)],
         view' = [view EXCEPT ![b] = handle_ws_error(@)],
         UNCHANGED <<table, row, handling, last_input_sender, agentVars, access>>
  PROVE  CInv'
<1>1. sock'[b] = Closed(b) /\ view'[b] = handle_ws_error(view[b])
  BY DEF CInv, CTypeOK
<1>2. /\ IsView(view'[b]) /\ view'[b].phase # "connected"
      /\ view'[b].messages = view[b].messages
      /\ view'[b].last_message_timestamp = view[b].last_message_timestamp
  BY <1>1, SocketFields, ErrorHandled DEF CInv
<1>3. /\ sock'[b] \in Socket /\ ~sock'[b].up /\ sock'[b].stage = "none"
      /\ sock'[b].to_view = <<>> /\ sock'[b].to_server = <<>>
  BY <1>1, Silent DEF CInv
<1>4. Local(b)
  BY <1>1, <1>2, <1>3 DEF Local, CInv, CTypeOK, agentVars
<1>5. Len(sock'[b].to_server) = 0
  BY <1>3, EmptySeq
<1> QED BY <1>2, <1>3, <1>4, <1>5, SayingIsUpTo, SilentKeeps

LEMMA DeliverKeeps ==
  ASSUME CInv, NEW b \in Browsers, Deliver(b), faults' = faults
  PROVE  CInv'
<1> DEFINE q == sock[b].to_view
           e == Head(q)
           s == view[b].messages
<1>1. q \in Seq(WsEvent) /\ q # <<>> /\ e \in WsEvent /\ Tail(q) \in Seq(WsEvent)
  BY SocketFields, HeadTailProperties DEF CInv, Deliver
<1>2. /\ Len(q) \in Nat /\ e = q[1] /\ Len(Tail(q)) = Len(q) - 1
      /\ \A i \in 1..Len(Tail(q)) : Tail(q)[i] = q[i + 1]
  BY <1>1, HeadTailProperties
<1>3. /\ view' = [view EXCEPT ![b] = view'[b]] /\ view'[b] = handle_ws_event(view[b], e)
      /\ sock' = [sock EXCEPT ![b] = sock'[b]] /\ sock'[b] = [sock[b] EXCEPT !.to_view = Tail(q)]
  BY DEF Deliver, CInv, CTypeOK
<1>4. /\ IsView(view'[b]) /\ view'[b].phase = view[b].phase
      /\ view'[b].messages = Shows(s, e)
      /\ view'[b].last_message_timestamp =
           IF e.type = "request" THEN view[b].last_message_timestamp ELSE 0
      /\ view'[b].pending_permission =
           IF e.type = "request" THEN e.request ELSE view[b].pending_permission
  <2>1. IsView(view[b])
    BY SocketFields DEF CInv
  <2>2. /\ handle_ws_event(view[b], e).messages = Shows(view[b].messages, e)
        /\ IsView(handle_ws_event(view[b], e))
        /\ handle_ws_event(view[b], e).phase = view[b].phase
        /\ handle_ws_event(view[b], e).last_message_timestamp =
             IF e.type = "request" THEN view[b].last_message_timestamp ELSE 0
        /\ handle_ws_event(view[b], e).pending_permission =
             IF e.type = "request" THEN e.request ELSE view[b].pending_permission
    <3> HIDE DEF e
    <3>1. e \in WsEvent
      BY <1>1
    <3> QED BY <2>1, <3>1, Handled
  <2> QED BY <1>3, <2>2
<1>5. /\ sock'[b] \in Socket /\ sock'[b].to_view = Tail(q)
      /\ sock'[b].up = sock[b].up /\ sock'[b].stage = sock[b].stage
      /\ sock'[b].to_server = sock[b].to_server /\ sock'[b].pending = sock[b].pending
      /\ sock'[b].replay_after = sock[b].replay_after /\ sock'[b].history = sock[b].history
  BY <1>1, <1>3, SocketFields DEF CInv, Socket
<1>6. Local(b) /\ row' = row
  BY <1>3, <1>4, <1>5 DEF Local, Deliver, CInv, CTypeOK, agentVars
<1>7. SocketOK(b) /\ sock[b].stage # "none"
  BY <1>1 DEF CInv, SocketOK
<1>8. SocketOK(b)'
  BY <1>4, <1>5, <1>7 DEF SocketOK
<1>9. RequestComes(b)'
  <2>1. Accounted(b) => Accounted(b)'
    <3>1. CASE e.type = "request"
      <4>1. view'[b].pending_permission # None
        BY <1>1, <1>4, <3>1, EventKinds, ConversationAssumption
      <4> QED BY <4>1 DEF Accounted
    <3>2. CASE e.type # "request"
      <4>1. ASSUME NEW i \in 1..Len(q), q[i].type = "request"
            PROVE  \E j \in 1..Len(Tail(q)) : Tail(q)[j].type = "request"
        <5>1. i # 1 /\ i - 1 \in 1..Len(Tail(q)) /\ (i - 1) + 1 = i
          BY <1>2, <3>2, <4>1
        <5> QED BY <1>2, <4>1, <5>1
      <4> QED BY <1>4, <1>5, <1>6, <3>2, <4>1 DEF Accounted, Local
    <3> QED BY <3>1, <3>2
  <2>2. RequestComes(b)
    BY DEF CInv
  <2> QED BY <1>5, <1>6, <2>1, <2>2 DEF RequestComes
<1>10. ASSUME "overlap" \notin faults PROVE HistoryComes(b)'
  <2>1. HistoryComes(b) /\ Said \in Seq(Message) /\ Said' = Said /\ s \in Seq(Message)
        /\ Shows(s, e) \in Seq(Message)
    BY <1>4, <1>6, <1>10, SaidType, SocketFields, ViewFields DEF CInv, Said, Local
  <2>2. UpTo(Said, view'[b].messages, view'[b].last_message_timestamp)
    <3>1. CASE e.type = "request"
      BY <1>4, <2>1, <3>1 DEF HistoryComes, Shows
    <3>2. CASE e.type # "request"
      BY <1>4, <2>1, <3>2, UpToNothing
    <3> QED BY <3>1, <3>2
  <2>3. \A i \in 1..Len(sock'[b].to_server) : sock'[b].to_server[i].type # "register"
    BY <1>5, <1>7 DEF SocketOK
  <2>4. CASE sock[b].stage \in {"added", "read"}
    <3>1. OnlyRequests(q) /\ 1 \in 1..Len(q) /\ UpTo(Said, s, sock[b].replay_after)
      BY <1>1, <1>2, <2>1, <2>4, EmptySeq DEF HistoryComes
    <3>2. e.type = "request" /\ view'[b].messages = s
      BY <1>2, <1>4, <3>1 DEF OnlyRequests, Shows
    <3>3. OnlyRequests(Tail(q))
      <4> SUFFICES ASSUME NEW i \in 1..Len(Tail(q)) PROVE Tail(q)[i].type = "request"
        BY DEF OnlyRequests
      <4>1. i + 1 \in 1..Len(q) /\ Tail(q)[i] = q[i + 1]
        BY <1>2
      <4> QED BY <3>1, <4>1 DEF OnlyRequests
    <3> QED BY <1>5, <1>6, <2>1, <2>2, <2>3, <2>4, <3>1, <3>2, <3>3
            DEF HistoryComes, Registering, Local
  <2>5. CASE sock[b].stage \in {"asking", "done"}
    <3>1. Follows(Said, s, q)
      BY <2>1, <2>5 DEF HistoryComes
    <3>2. Follows(Said, Shows(s, e), Tail(q))
      BY <1>1, <2>1, <3>1, FollowsHead
    <3> QED BY <1>4, <1>5, <1>6, <2>1, <2>2, <2>3, <2>5, <3>2
            DEF HistoryComes, Registering, Local
  <2>6. sock[b].stage \in Stages
    BY SocketFields DEF CInv
  <2> QED BY <1>7, <2>4, <2>5, <2>6 DEF Stages
<1> QED BY <1>6, <1>8, <1>9, <1>10, LocalKeeps
\* What a user does leaves the messages of her view; the report m is sent.
LEMMA UserKeeps ==
  ASSUME CInv, NEW b \in Browsers, faults' = faults,
         NEW m \in Report, m.type # "register", Sent(b, m),
         NEW w, IsView(w), w.phase = view[b].phase, w.messages = view[b].messages,
         w.last_message_timestamp = view[b].last_message_timestamp,
         w.pending_permission = view[b].pending_permission \/ m.type = "answer",
         view' = [view EXCEPT ![b] = w],
         UNCHANGED <<table, row, handling, last_input_sender, inputs>>
  PROVE  CInv'
<1> DEFINE q == sock[b].to_server
           r == sock'[b].to_server
<1>1. view'[b] = w /\ view' = [view EXCEPT ![b] = view'[b]]
  BY DEF CInv, CTypeOK
<1>2. q \in Seq(Report) /\ Append(q, m) \in Seq(Report) /\ Len(q) \in Nat
      /\ sock[b] \in Socket /\ SocketOK(b)
  BY SocketFields DEF CInv
<1>3. /\ sock' = [sock EXCEPT ![b] = sock'[b]] /\ sock'[b] \in Socket
      /\ sock'[b].up = sock[b].up /\ sock'[b].stage = sock[b].stage
      /\ sock'[b].to_view = sock[b].to_view /\ sock'[b].pending = sock[b].pending
      /\ sock'[b].replay_after = sock[b].replay_after /\ sock'[b].history = sock[b].history
      /\ IF sock[b].up THEN r = Append(q, m) ELSE r = q
  <2>1. CASE sock[b].up
    <3>1. ws_sender(b)
      BY <1>2, <2>1 DEF ws_sender, SocketOK
    <3>2. sock' = [sock EXCEPT ![b].to_server = Append(q, m)]
      BY <3>1 DEF Sent
    <3>3. /\ sock' = [sock EXCEPT ![b] = sock'[b]]
          /\ sock'[b] = [sock[b] EXCEPT !.to_server = Append(q, m)]
      BY <3>2 DEF CInv, CTypeOK
    <3> QED BY <2>1, <1>2, <3>3 DEF Socket
  <2>2. CASE ~sock[b].up
    <3>1. ~ws_sender(b)
      BY <1>2, <2>2 DEF ws_sender, SocketOK
    <3>2. sock' = sock
      BY <3>1 DEF Sent
    <3> QED BY <2>2, <1>2, <3>2 DEF CInv, CTypeOK
  <2> QED BY <2>1, <2>2
<1>4. Local(b) /\ row' = row
  BY <1>1, <1>3 DEF Local, CInv, CTypeOK
<1>5. ASSUME NEW i \in 1..Len(r), r[i].type = "register"
      PROVE  i \in 1..Len(q) /\ r[i] = q[i]
  <2>1. CASE sock[b].up
    BY <1>2, <1>3, <1>5, <2>1
  <2>2. CASE ~sock[b].up
    BY <1>3, <1>5, <2>2
  <2> QED BY <2>1, <2>2
<1>6. SocketOK(b)'
  <2>1. sock'[b].up <=> view'[b].phase = "connected"
    BY <1>1, <1>2, <1>3 DEF SocketOK
  <2>2. /\ ~sock'[b].up => sock'[b].stage = "none" /\ sock'[b].to_server = <<>>
        /\ sock'[b].stage = "none" => sock'[b].to_view = <<>>
    BY <1>2, <1>3 DEF SocketOK
  <2>3. \A i \in 1..Len(r) : r[i].type = "register" => i = 1 /\ sock'[b].stage = "none"
    BY <1>2, <1>3, <1>5 DEF SocketOK
  <2> QED BY <2>1, <2>2, <2>3 DEF SocketOK
<1>7. RequestComes(b)'
  <2>1. CASE sock[b].up
    <3>1. /\ Len(r) = Len(q) + 1 /\ r[Len(q) + 1] = m /\ \A i \in 1..Len(q) : r[i] = q[i]
          /\ Len(q) + 1 \in 1..Len(r)
      BY <1>2, <1>3, <2>1
    <3>2. Accounted(b) => Accounted(b)'
      <4>1. CASE m.type = "answer"
        BY <3>1, <4>1 DEF Accounted
      <4>2. CASE w.pending_permission = view[b].pending_permission
        <5>1. view'[b].pending_permission = view[b].pending_permission /\ handling' = handling
              /\ sock'[b].to_view = sock[b].to_view
          BY <1>1, <1>3, <1>4, <4>2 DEF Local
        <5>2. \A i \in 1..Len(q) : i \in 1..Len(r) /\ r[i] = q[i]
          BY <1>2, <3>1
        <5> HIDE DEF q, r
        <5>3. (\E i \in 1..Len(q) : q[i].type = "answer")
              => \E i \in 1..Len(r) : r[i].type = "answer"
          BY <5>2
        <5> QED BY <5>1, <5>3 DEF Accounted, q, r
      <4> QED BY <4>1, <4>2
    <3>3. RequestComes(b)
      BY DEF CInv
    <3> QED BY <1>3, <1>4, <3>2, <3>3 DEF RequestComes
  <2>2. CASE ~sock[b].up
    BY <1>2, <1>3, <2>2 DEF RequestComes, SocketOK
  <2> QED BY <2>1, <2>2
<1>8. ASSUME "overlap" \notin faults PROVE HistoryComes(b)'
  <2>1. HistoryComes(b) /\ Said' = Said /\ handling' = handling
    BY <1>4, <1>8 DEF CInv, Said, Local
  <2>2. \A i \in 1..Len(r) : r[i].type = "register" =>
          UpTo(Said, view[b].messages, r[i].replay_after)
    BY <1>5, <2>1 DEF HistoryComes
  <2> QED BY <1>1, <1>3, <2>1, <2>2 DEF HistoryComes, Registering
<1> QED BY <1>4, <1>6, <1>7, <1>8, LocalKeeps

LEMMA SendInputKeeps ==
  ASSUME CInv, NEW b \in Browsers, handle_send_input_with_mode(b), faults' = faults
  PROVE  CInv'
<1> DEFINE n == view[b].pending_sends + 1
           w == [view[b] EXCEPT !.pending_sends = n]
           m == [type |-> "input"]
<1>1. PICK tasks : view[b] \in ViewWith(tasks)
  BY SocketFields DEF IsView, CInv
<1>2. n \in Nat
  BY <1>1 DEF ViewWith
<1>3. view' = [view EXCEPT ![b] = w] /\ Sent(b, m)
  BY DEF handle_send_input_with_mode
<1>4. m \in Report /\ m.type # "register"
  BY DEF Report
<1> HIDE DEF n, m
<1>5. /\ w \in ViewWith(tasks) /\ w.phase = view[b].phase /\ w.messages = view[b].messages
      /\ w.last_message_timestamp = view[b].last_message_timestamp
      /\ w.pending_permission = view[b].pending_permission
  BY <1>1, <1>2 DEF ViewWith
<1> HIDE DEF w
<1>6. IsView(w)
  BY <1>5 DEF IsView
<1> QED BY <1>3, <1>4, <1>5, <1>6, UserKeeps DEF handle_send_input_with_mode

LEMMA ApproveKeeps ==
  ASSUME CInv, NEW b \in Browsers, handle_approve_permission(b), faults' = faults
  PROVE  CInv'
<1> DEFINE w == [view[b] EXCEPT !.pending_permission = None]
           m == [type |-> "answer", request |-> view[b].pending_permission]
<1>1. PICK tasks : view[b] \in ViewWith(tasks)
  BY SocketFields DEF IsView, CInv
<1>2. view' = [view EXCEPT ![b] = w] /\ Sent(b, m)
  BY DEF handle_approve_permission
<1>3. m \in Report /\ m.type = "answer"
  BY <1>1 DEF Report, ViewWith, handle_approve_permission
<1> HIDE DEF m
<1>4. /\ w \in ViewWith(tasks) /\ w.phase = view[b].phase /\ w.messages = view[b].messages
      /\ w.last_message_timestamp = view[b].last_message_timestamp
  BY <1>1 DEF ViewWith
<1> HIDE DEF w
<1>5. IsView(w)
  BY <1>4 DEF IsView
<1> QED BY <1>2, <1>3, <1>4, <1>5, UserKeeps DEF handle_approve_permission, agentVars

\* The report that the thread of a socket has taken.
LEMMA HeardReport ==
  ASSUME CInv, NEW b \in Browsers, NEW type, Heard(b, type)
  PROVE  LET q == sock[b].to_server IN
         /\ q \in Seq(Report) /\ Head(q) \in Report /\ Head(q).type = type
         /\ Tail(q) \in Seq(Report) /\ 1 \in 1..Len(q) /\ Head(q) = q[1]
         /\ \A i \in 1..Len(Tail(q)) : i + 1 \in 1..Len(q) /\ Tail(q)[i] = q[i + 1]
         /\ \A i \in 1..Len(Tail(q)) : Tail(q)[i].type # "register"
<1> DEFINE q == sock[b].to_server
<1>1. q \in Seq(Report) /\ q # <<>> /\ SocketOK(b)
  BY SocketFields DEF CInv, Heard
<1>2. /\ Head(q) \in Report /\ Tail(q) \in Seq(Report) /\ Len(Tail(q)) = Len(q) - 1
      /\ Len(q) \in Nat /\ 1 \in 1..Len(q) /\ Head(q) = q[1]
      /\ \A i \in 1..Len(Tail(q)) : i + 1 \in 1..Len(q) /\ Tail(q)[i] = q[i + 1]
  BY <1>1, HeadTailProperties, EmptySeq
<1>3. ASSUME NEW i \in 1..Len(Tail(q)) PROVE Tail(q)[i].type # "register"
  BY <1>1, <1>2 DEF SocketOK
<1> QED BY <1>1, <1>2, <1>3 DEF Heard

LEMMA RegisterKeeps ==
  ASSUME CInv, NEW b \in Browsers, handle_web_register(b), faults' = faults
  PROVE  CInv'
<1> DEFINE q == sock[b].to_server
           a == Head(q).replay_after
<1>0. Heard(b, "register") /\ sock[b].up
  BY DEF handle_web_register, Heard
<1>1. /\ q \in Seq(Report) /\ Head(q).type = "register" /\ Head(q) \in Report
      /\ Tail(q) \in Seq(Report) /\ 1 \in 1..Len(q) /\ Head(q) = q[1]
      /\ \A i \in 1..Len(Tail(q)) : Tail(q)[i].type # "register"
  BY <1>0, HeardReport
<1>2. a \in Nat
  BY <1>1 DEF Report
<1>3. sock[b] \in Socket /\ SocketOK(b) /\ sock[b].stage = "none" /\ sock[b].to_view = <<>>
  BY <1>1, SocketFields DEF CInv, SocketOK
<1>4. /\ sock' = [sock EXCEPT ![b] = sock'[b]]
      /\ sock'[b] = [sock[b] EXCEPT !.stage = "added", !.replay_after = a, !.to_server = Tail(q)]
  BY DEF handle_web_register, CInv, CTypeOK
<1>5. /\ sock'[b] \in Socket /\ sock'[b].up /\ sock'[b].stage = "added"
      /\ sock'[b].to_view = <<>> /\ sock'[b].replay_after = a /\ sock'[b].to_server = Tail(q)
  <2> HIDE DEF a
  <2> DEFINE y == [sock[b] EXCEPT !.stage = "added", !.replay_after = a, !.to_server = Tail(q)]
  <2>2. sock[b] \in Socket /\ a \in Nat /\ Tail(q) \in Seq(Report)
    BY <1>1, <1>2, <1>3
  <2> HIDE DEF a, q
  <2>3. /\ y \in Socket /\ y.up = sock[b].up /\ y.stage = "added"
        /\ y.to_view = sock[b].to_view /\ y.replay_after = a /\ y.to_server = Tail(q)
    BY <2>2 DEF Socket, Stages
  <2>4. sock'[b] = y /\ sock[b].up /\ sock[b].to_view = <<>>
    BY <1>0, <1>3, <1>4
  <2> HIDE DEF y
  <2> QED BY <2>3, <2>4
<1>6. Local(b) /\ row' = row /\ view' = view
  BY <1>4, <1>5, SocketFields DEF Local, handle_web_register, CInv, CTypeOK, agentVars
<1>7. SocketOK(b)'
  BY <1>0, <1>1, <1>3, <1>5, <1>6 DEF SocketOK
<1>8. RequestComes(b)'
  BY <1>5 DEF RequestComes
<1>9. ASSUME "overlap" \notin faults PROVE HistoryComes(b)'
  <2>1. HistoryComes(b) /\ Said' = Said /\ handling' = handling
    BY <1>6, <1>9 DEF CInv, Said, Local
  <2>2. UpTo(Said, view[b].messages, a)
    BY <1>1, <2>1 DEF HistoryComes
  <2>3. handling \notin Storing
    BY <1>9, HandlingKinds DEF handle_web_register, Undisturbed
  <2>4. OnlyRequests(sock'[b].to_view)
    BY <1>5, EmptySeq DEF OnlyRequests
  <2> HIDE DEF a, q
  <2> QED BY <1>1, <1>5, <1>6, <2>1, <2>2, <2>3, <2>4 DEF HistoryComes
<1> QED BY <1>6, <1>7, <1>8, <1>9, LocalKeeps

LEMMA ReplayHistoryKeeps ==
  ASSUME CInv, NEW b \in Browsers, replay_history(b), faults' = faults
  PROVE  CInv'
<1> DEFINE rows == SubSeq(table, sock[b].replay_after + 1, Len(table))
<1>1. rows \in Seq(Message)
  <2>1. sock[b].replay_after \in Nat /\ table \in Seq(Message)
    BY SocketFields DEF CInv, CTypeOK
  <2> QED BY <2>1
<1>2. /\ sock' = [sock EXCEPT ![b] = sock'[b]]
      /\ sock'[b] = [sock[b] EXCEPT !.stage = "read", !.history = rows]
      /\ sock[b].stage = "added"
  BY DEF replay_history, CInv, CTypeOK
<1>3. sock[b] \in Socket /\ SocketOK(b)
  BY SocketFields DEF CInv
<1> HIDE DEF rows
<1>4. /\ sock'[b] \in Socket /\ sock'[b].up = sock[b].up /\ sock'[b].stage = "read"
      /\ sock'[b].to_view = sock[b].to_view /\ sock'[b].replay_after = sock[b].replay_after
      /\ sock'[b].to_server = sock[b].to_server /\ sock'[b].history = rows
  BY <1>1, <1>2, <1>3 DEF Socket, Stages
<1>5. Local(b) /\ row' = row /\ view' = view
  BY <1>2, <1>4, SocketFields DEF Local, replay_history, CInv, CTypeOK, agentVars
<1>6. SocketOK(b)'
  BY <1>2, <1>3, <1>4, <1>5 DEF SocketOK
<1>7. RequestComes(b)'
  BY <1>4 DEF RequestComes
<1>8. ASSUME "overlap" \notin faults PROVE HistoryComes(b)'
  <2>1. HistoryComes(b) /\ Said' = Said /\ handling' = handling
    BY <1>5, <1>8 DEF CInv, Said, Local
  <2>2. handling \notin Storing /\ Said = table
    BY <1>2, <2>1, SaidType DEF HistoryComes, Registering, CInv
  <2>3. rows = SubSeq(Said, sock[b].replay_after + 1, Len(Said))
    BY <2>2 DEF rows
  <2> QED BY <1>2, <1>4, <1>5, <2>1, <2>2, <2>3 DEF HistoryComes
<1> QED BY <1>5, <1>6, <1>7, <1>8, LocalKeeps

LEMMA HistoryIsSentKeeps ==
  ASSUME CInv, NEW b \in Browsers, HistoryIsSent(b), faults' = faults
  PROVE  CInv'
<1> DEFINE rows == sock[b].history
           e == [type |-> "history", messages |-> rows]
           q == sock[b].to_view
           r == IF rows = <<>> THEN q ELSE Append(q, e)
<1>1. rows \in Seq(Message) /\ q \in Seq(WsEvent) /\ sock[b] \in Socket /\ SocketOK(b)
      /\ row \in Requests \cup {None}
  BY SocketFields DEF CInv, CTypeOK
<1>2. r \in Seq(WsEvent)
  <2>1. e \in WsEvent
    BY <1>1 DEF WsEvent, Outputs, Histories, PermissionRequests
  <2> HIDE DEF e
  <2> QED BY <1>1, <2>1
<1>3. /\ sock' = [sock EXCEPT ![b] = sock'[b]] /\ sock[b].stage = "read"
      /\ sock'[b] = [sock[b] EXCEPT !.stage = "asking", !.pending = row, !.to_view = r,
                                    !.history = <<>>]
  BY DEF HistoryIsSent, CInv, CTypeOK
<1>4. /\ sock'[b] \in Socket /\ sock'[b].up = sock[b].up /\ sock'[b].stage = "asking"
      /\ sock'[b].to_view = r /\ sock'[b].to_server = sock[b].to_server
      /\ sock'[b].pending = row
  <2>1. <<>> \in Seq(Message)
    OBVIOUS
  <2> HIDE DEF r
  <2> QED BY <1>1, <1>2, <1>3, <2>1 DEF Socket, Stages
<1>5. Local(b) /\ row' = row /\ view' = view
  BY <1>3, <1>4, SocketFields DEF Local, HistoryIsSent, CInv, CTypeOK, agentVars
<1>6. SocketOK(b)'
  BY <1>1, <1>3, <1>4, <1>5 DEF SocketOK
<1>7. RequestComes(b)'
  BY <1>4, <1>5 DEF RequestComes
<1>8. ASSUME "overlap" \notin faults PROVE HistoryComes(b)'
  <2>1. HistoryComes(b) /\ Said' = Said /\ handling' = handling /\ Said \in Seq(Message)
        /\ view[b].messages \in Seq(Message) /\ sock[b].replay_after \in Nat
    BY <1>5, <1>8, SaidType, SocketFields DEF CInv, Said, Local
  <2>2. /\ OnlyRequests(q) /\ UpTo(Said, view[b].messages, sock[b].replay_after)
        /\ rows = SubSeq(Said, sock[b].replay_after + 1, Len(Said)) /\ handling \notin Storing
    BY <1>3, <2>1 DEF HistoryComes, Registering
  <2>3. Follows(Said, view[b].messages, r)
    <3> HIDE DEF q
    <3>1. Follows(Said, view[b].messages, IF rows = <<>> THEN q
                    ELSE Append(q, [type |-> "history", messages |-> rows]))
      <4> HIDE DEF rows
      <4> QED BY <1>1, <2>1, <2>2, FollowsHistory
    <3> QED BY <3>1
  <2> HIDE DEF r, q, rows
  <2> QED BY <1>3, <1>4, <1>5, <2>1, <2>2, <2>3 DEF HistoryComes
<1> QED BY <1>5, <1>6, <1>7, <1>8, LocalKeeps

LEMMA ReplayPendingKeeps ==
  ASSUME CInv, NEW b \in Browsers, replay_pending_permission(b), faults' = faults
  PROVE  CInv'
<1> DEFINE e == [type |-> "request", request |-> sock[b].pending]
           q == sock[b].to_view
           r == IF sock[b].pending = None THEN q ELSE Append(q, e)
<1>1. q \in Seq(WsEvent) /\ sock[b] \in Socket /\ SocketOK(b) /\ Len(q) \in Nat
  BY SocketFields DEF CInv
<1>2. sock[b].pending # None => e \in WsEvent /\ e.type = "request"
  BY SocketFields DEF WsEvent, Outputs, Histories, PermissionRequests, CInv
<1>3. r \in Seq(WsEvent)
  <2> HIDE DEF e
  <2> QED BY <1>1, <1>2
<1>4. /\ sock' = [sock EXCEPT ![b] = sock'[b]] /\ sock[b].stage = "asking"
      /\ sock'[b] = [sock[b] EXCEPT !.stage = "done", !.pending = None, !.to_view = r]
  BY DEF replay_pending_permission, CInv, CTypeOK
<1>5. /\ sock'[b] \in Socket /\ sock'[b].up = sock[b].up /\ sock'[b].stage = "done"
      /\ sock'[b].to_view = r /\ sock'[b].to_server = sock[b].to_server
  <2> HIDE DEF r
  <2> QED BY <1>1, <1>3, <1>4 DEF Socket, Stages
<1>6. Local(b) /\ row' = row /\ view' = view
  BY <1>4, <1>5, SocketFields DEF Local, replay_pending_permission, CInv, CTypeOK, agentVars
<1>7. SocketOK(b)'
  BY <1>1, <1>4, <1>5, <1>6 DEF SocketOK
<1>8. RequestComes(b)'
  <2>1. RequestComes(b)
    BY DEF CInv
  <2>2. CASE sock[b].pending = None
    BY <1>4, <1>5, <1>6, <2>1, <2>2 DEF RequestComes, Accounted, Local
  <2>3. CASE sock[b].pending # None
    <3> HIDE DEF e
    <3>1. Len(q) + 1 \in 1..Len(r) /\ r[Len(q) + 1].type = "request"
      BY <1>1, <1>2, <2>3
    <3> HIDE DEF r
    <3> QED BY <1>5, <3>1 DEF RequestComes, Accounted
  <2> QED BY <2>2, <2>3
<1>9. ASSUME "overlap" \notin faults PROVE HistoryComes(b)'
  <2>1. HistoryComes(b) /\ Said' = Said /\ handling' = handling /\ Said \in Seq(Message)
        /\ view[b].messages \in Seq(Message)
    BY <1>6, <1>9, SaidType, SocketFields DEF CInv, Said, Local
  <2>2. Follows(Said, view[b].messages, q) /\ handling \notin Storing
    BY <1>4, <2>1 DEF HistoryComes, Registering
  <2>3. Follows(Said, view[b].messages, r)
    <3> HIDE DEF e, q
    <3> QED BY <1>1, <1>2, <2>1, <2>2, FollowsRequest
  <2> HIDE DEF r, q
  <2> QED BY <1>4, <1>5, <1>6, <2>1, <2>2, <2>3 DEF HistoryComes
<1> QED BY <1>6, <1>7, <1>8, <1>9, LocalKeeps
LEMMA InputHeardKeeps ==
  ASSUME CInv, NEW b \in Browsers, handle_web_input(b), faults' = faults
  PROVE  CInv'
<1> DEFINE q == sock[b].to_server
<1>0. Heard(b, "input") /\ sock[b].up
  BY DEF handle_web_input, Heard
<1>1. /\ q \in Seq(Report) /\ Head(q).type = "input" /\ Head(q) = q[1]
      /\ Tail(q) \in Seq(Report) /\ Len(q) \in Nat /\ Len(Tail(q)) = Len(q) - 1
      /\ \A i \in 1..Len(Tail(q)) : i + 1 \in 1..Len(q) /\ Tail(q)[i] = q[i + 1]
      /\ \A i \in 1..Len(Tail(q)) : Tail(q)[i].type # "register"
  <2>1. q \in Seq(Report) /\ q # <<>>
    <3>1. CTypeOK
      BY DEF CInv
    <3>2. q \in Seq(Report)
      BY <3>1, SocketFields
    <3> QED BY <1>0, <3>2 DEF Heard
  <2>2. /\ Head(q).type = "input" /\ Head(q) = q[1] /\ Tail(q) \in Seq(Report)
        /\ \A i \in 1..Len(Tail(q)) : i + 1 \in 1..Len(q) /\ Tail(q)[i] = q[i + 1]
        /\ \A i \in 1..Len(Tail(q)) : Tail(q)[i].type # "register"
    BY <1>0, HeardReport
  <2>3. Len(q) \in Nat /\ Len(Tail(q)) = Len(q) - 1
    BY <2>1, LenProperties, HeadTailProperties
  <2> QED BY <2>1, <2>2, <2>3
<1>2. sock[b] \in Socket /\ SocketOK(b)
  BY SocketFields DEF CInv
<1>3. /\ sock' = [sock EXCEPT ![b] = sock'[b]]
      /\ sock'[b] = [sock[b] EXCEPT !.to_server = Tail(q)]
  BY DEF handle_web_input, CInv, CTypeOK
<1>4. /\ sock'[b] \in Socket /\ sock'[b].up = sock[b].up /\ sock'[b].stage = sock[b].stage
      /\ sock'[b].to_view = sock[b].to_view /\ sock'[b].pending = sock[b].pending
      /\ sock'[b].replay_after = sock[b].replay_after /\ sock'[b].history = sock[b].history
      /\ sock'[b].to_server = Tail(q)
  <2> HIDE DEF q
  <2> QED BY <1>1, <1>2, <1>3 DEF Socket
<1>5. Local(b) /\ row' = row /\ view' = view
  <2>1. inputs' \in Seq(Browsers) /\ last_input_sender' \in Browsers
    BY DEF handle_web_input, CInv, CTypeOK
  <2> QED BY <2>1, <1>3, <1>4, SocketFields DEF Local, handle_web_input, CInv, CTypeOK, agentVars
<1>6. SocketOK(b)'
  BY <1>0, <1>1, <1>2, <1>4, <1>5 DEF SocketOK
<1>7. RequestComes(b)'
  <2>1. Accounted(b) => Accounted(b)'
    <3>1. ASSUME NEW i \in 1..Len(q), q[i].type = "answer"
          PROVE  \E j \in 1..Len(Tail(q)) : Tail(q)[j].type = "answer"
      <4>1. i # 1 /\ i - 1 \in 1..Len(Tail(q)) /\ (i - 1) + 1 = i
        BY <1>1, <3>1
      <4> QED BY <1>1, <3>1, <4>1
    <3> QED BY <1>4, <1>5, <3>1 DEF Accounted, Local
  <2>2. RequestComes(b)
    BY DEF CInv
  <2> QED BY <1>4, <1>5, <2>1, <2>2 DEF RequestComes
<1>8. ASSUME "overlap" \notin faults PROVE HistoryComes(b)'
  <2>1. HistoryComes(b) /\ Said' = Said /\ handling' = handling
    BY <1>5, <1>8 DEF CInv, Said, Local
  <2> HIDE DEF q
  <2> QED BY <1>1, <1>4, <1>5, <2>1 DEF HistoryComes, Registering
<1> QED BY <1>5, <1>6, <1>7, <1>8, LocalKeeps

LEMMA AnswerHeardKeeps ==
  ASSUME CInv, NEW b \in Browsers, handle_permission_response(b), faults' = faults
  PROVE  CInv'
<1> DEFINE q == sock[b].to_server
<1>0. Heard(b, "answer") /\ sock[b].up
  BY DEF handle_permission_response, Heard
<1>1. /\ q \in Seq(Report) /\ Tail(q) \in Seq(Report)
      /\ \A i \in 1..Len(Tail(q)) : Tail(q)[i].type # "register"
  BY <1>0, HeardReport
<1>2. sock[b] \in Socket /\ SocketOK(b)
  BY SocketFields DEF CInv
<1>3. /\ sock' = [sock EXCEPT ![b] = sock'[b]]
      /\ sock'[b] = [sock[b] EXCEPT !.to_server = Tail(q)]
  BY DEF handle_permission_response, CInv, CTypeOK
<1>4. /\ sock'[b] \in Socket /\ sock'[b].up = sock[b].up /\ sock'[b].stage = sock[b].stage
      /\ sock'[b].to_view = sock[b].to_view
      /\ sock'[b].replay_after = sock[b].replay_after /\ sock'[b].history = sock[b].history
      /\ sock'[b].to_server = Tail(q)
  <2> HIDE DEF q
  <2> QED BY <1>1, <1>2, <1>3 DEF Socket
<1>5. Local(b) /\ row' = None /\ view' = view
  BY <1>3, <1>4, SocketFields DEF Local, handle_permission_response, CInv, CTypeOK, agentVars
<1>6. SocketOK(b)'
  BY <1>0, <1>1, <1>2, <1>4, <1>5 DEF SocketOK
<1>7. \A c \in Browsers : RequestComes(c)'
  BY <1>5 DEF RequestComes
<1>8. ASSUME "overlap" \notin faults PROVE HistoryComes(b)'
  <2>1. HistoryComes(b) /\ Said' = Said /\ handling' = handling
    BY <1>5, <1>8 DEF CInv, Said, Local
  <2> HIDE DEF q
  <2> QED BY <1>1, <1>4, <1>5, <2>1 DEF HistoryComes, Registering
<1> QED BY <1>5, <1>6, <1>7, <1>8, RowGoneKeeps

-----------------------------------------------------------------------------
(* The steps of the thread of the proxy's socket.                           *)

LEMMA Broadcast ==
  ASSUME CInv, NEW e \in WsEvent, broadcast_to_web_clients(e), NEW c \in Browsers, view' = view
  PROVE  /\ sock'[c] \in Socket
         /\ sock'[c].up = sock[c].up /\ sock'[c].stage = sock[c].stage
         /\ sock'[c].to_server = sock[c].to_server /\ sock'[c].pending = sock[c].pending
         /\ sock'[c].replay_after = sock[c].replay_after /\ sock'[c].history = sock[c].history
         /\ sock[c].stage # "none" => sock'[c].to_view = Append(sock[c].to_view, e)
         /\ SocketOK(c)'
         /\ \A i \in 1..Len(sock[c].to_view) :
              i \in 1..Len(sock'[c].to_view) /\ sock'[c].to_view[i] = sock[c].to_view[i]
         /\ sock[c].stage # "none" =>
              /\ Len(sock[c].to_view) + 1 \in 1..Len(sock'[c].to_view)
              /\ sock'[c].to_view[Len(sock[c].to_view) + 1] = e
<1> DEFINE q == sock[c].to_view
<1>1. q \in Seq(WsEvent) /\ sock[c] \in Socket /\ SocketOK(c)
  BY SocketFields DEF CInv
<1>2. CASE sock[c].stage = "none"
  <2>1. sock'[c] = sock[c]
    BY <1>2 DEF broadcast_to_web_clients
  <2>2. SocketOK(c)'
    BY <1>1, <2>1 DEF SocketOK
  <2> QED BY <1>1, <1>2, <2>1, <2>2, SocketFields DEF CInv
<1>3. CASE sock[c].stage # "none"
  <2> DEFINE r == Append(q, e)
  <2>1. sock'[c] = [sock[c] EXCEPT !.to_view = r]
    BY <1>3 DEF broadcast_to_web_clients
  <2>2. /\ r \in Seq(WsEvent) /\ Len(r) = Len(q) + 1 /\ r[Len(q) + 1] = e /\ Len(q) \in Nat
        /\ \A i \in 1..Len(q) : i \in 1..Len(r) /\ r[i] = q[i]
    BY <1>1
  <2>3. /\ sock'[c] \in Socket /\ sock'[c].to_view = r
        /\ sock'[c].up = sock[c].up /\ sock'[c].stage = sock[c].stage
        /\ sock'[c].to_server = sock[c].to_server /\ sock'[c].pending = sock[c].pending
        /\ sock'[c].replay_after = sock[c].replay_after /\ sock'[c].history = sock[c].history
    <3> HIDE DEF r
    <3> QED BY <1>1, <2>1, <2>2, SocketFields DEF CInv, Socket
  <2>4. SocketOK(c)'
    BY <1>1, <1>3, <2>3 DEF SocketOK
  <2> QED BY <1>3, <2>2, <2>3, <2>4
<1> QED BY <1>2, <1>3

LEMMA OutputKeeps ==
  ASSUME CInv, NEW kind \in Kinds, handle_claude_output(kind), faults' = faults
  PROVE  CInv'
<1> DEFINE m == [id |-> Produced + 1, kind |-> kind,
                 by |-> IF kind = "user" THEN last_input_sender ELSE None,
                 author |-> IF kind = "user" THEN Head(inputs) ELSE None]
           e == [type |-> "output", message |-> m]
<1>1. m \in Message
  <2>1. Produced + 1 \in Nat
    BY DEF Produced, CInv, CTypeOK
  <2>2. kind = "user" => Head(inputs) \in Browsers
    BY HeadTailProperties DEF handle_claude_output, CInv, CTypeOK
  <2>3. last_input_sender \in Browsers \cup {None}
    BY DEF CInv, CTypeOK
  <2> QED BY <2>1, <2>2, <2>3 DEF Message
<1>2. /\ broadcast_to_web_clients(e) /\ handling' = [type |-> "store", message |-> m]
      /\ handling = None /\ NobodyRegisters /\ UNCHANGED <<table, row, view>>
  BY DEF handle_claude_output
<1>3. e \in WsEvent /\ handling' \in Storing /\ handling'.message = m
  BY <1>1, <1>2 DEF WsEvent, Outputs, Histories, PermissionRequests, Storing
<1> HIDE DEF m
<1>4. Said = table /\ table \in Seq(Message) /\ Said' = Append(table, m)
      /\ handling \notin Asking /\ handling' \notin Asking
  BY <1>2, <1>3, HandlingKinds, SaidType DEF CInv, CTypeOK, Said
<1>5. CTypeOK'
  <2>1. last_input_sender' \in Browsers \cup {None} /\ inputs' \in Seq(Browsers)
    <3>1. CASE kind = "user"
      <4>1. inputs # <<>> /\ inputs' = Tail(inputs) /\ last_input_sender' = None
        BY <3>1 DEF handle_claude_output
      <4>2. inputs \in Seq(Browsers)
        BY DEF CInv, CTypeOK
      <4> QED BY <4>1, <4>2, HeadTailProperties
    <3>2. CASE kind # "user"
      BY <3>2 DEF handle_claude_output, CInv, CTypeOK
    <3> QED BY <3>1, <3>2
  <2>2. sock' \in [Browsers -> Socket]
    <3>1. \A c \in Browsers : sock'[c] \in Socket
      BY <1>2, <1>3, Broadcast
    <3>2. sock' = [c \in Browsers |-> sock'[c]]
      BY <1>2 DEF broadcast_to_web_clients
    <3> QED BY <3>1, <3>2
  <2> QED BY <1>2, <1>3, <2>1, <2>2 DEF CInv, CTypeOK
<1>6. ASSUME NEW c \in Browsers
      PROVE  SocketOK(c)' /\ RequestComes(c)' /\ ("overlap" \notin faults => HistoryComes(c)')
  <2> DEFINE q == sock[c].to_view
             r == sock'[c].to_view
  <2>1. /\ sock'[c].up = sock[c].up /\ sock'[c].stage = sock[c].stage
        /\ sock'[c].to_server = sock[c].to_server /\ sock'[c].pending = sock[c].pending
        /\ sock[c].stage # "none" => r = Append(q, e)
        /\ SocketOK(c)'
        /\ \A i \in 1..Len(q) : i \in 1..Len(r) /\ r[i] = q[i]
    BY <1>2, <1>3, Broadcast
  <2>2. RequestComes(c)'
    <3>1. Accounted(c) => Accounted(c)'
      BY <1>2, <1>4, <2>1 DEF Accounted
    <3>2. RequestComes(c)
      BY DEF CInv
    <3> QED BY <1>2, <2>1, <3>1, <3>2 DEF RequestComes
  <2>3. ASSUME "overlap" \notin faults PROVE HistoryComes(c)'
    <3> DEFINE s == view[c].messages
    <3>1. /\ HistoryComes(c) /\ s \in Seq(Message) /\ q \in Seq(WsEvent)
          /\ view[c].last_message_timestamp \in Nat /\ sock[c].to_server \in Seq(Report)
      BY <2>3, SocketFields DEF CInv
    <3>2. ~Registering(c) /\ sock[c].stage \notin {"added", "read", "asking"}
      BY <1>2, <2>3 DEF NobodyRegisters, Registering
    <3>3. UpTo(Said', s, view[c].last_message_timestamp)
      BY <1>1, <1>4, <3>1, UpToGrows DEF HistoryComes
    <3>4. ASSUME NEW i \in 1..Len(sock[c].to_server),
                 sock[c].to_server[i].type = "register"
          PROVE  UpTo(Said', s, sock[c].to_server[i].replay_after)
      <4>1. sock[c].to_server[i].replay_after \in Nat
        BY <3>1, <3>4 DEF Report
      <4>2. UpTo(Said, s, sock[c].to_server[i].replay_after)
        BY <3>1, <3>4 DEF HistoryComes
      <4> QED BY <1>1, <1>4, <3>1, <4>1, <4>2, UpToGrows
    <3>5. sock[c].stage = "done" => Follows(Said', s, r)
      <4>1. sock[c].stage = "done" => Follows(table, s, q)
        BY <1>4, <3>1 DEF HistoryComes
      <4> QED BY <1>1, <1>4, <2>1, <3>1, <4>1, FollowsOutput
    <3> QED BY <1>2, <2>1, <3>2, <3>3, <3>4, <3>5 DEF HistoryComes, Registering
  <2> QED BY <2>1, <2>2, <2>3
<1> QED BY <1>5, <1>6 DEF CInv

LEMMA StoreKeeps ==
  ASSUME CInv, StoreMessage, faults' = faults
  PROVE  CInv'
<1>1. /\ handling \in Storing /\ handling' = None /\ table' = Append(table, handling.message)
      /\ UNCHANGED <<row, last_input_sender, inputs, sock, view>>
  BY HandlingKinds DEF StoreMessage, CInv, CTypeOK, agentVars
<1>2. Said' = Said /\ handling \notin Asking /\ handling' \notin Asking /\ handling' \notin Storing
      /\ table' \in Seq(Message)
  BY <1>1, HandlingKinds DEF Said, CInv, CTypeOK
<1>3. CTypeOK'
  BY <1>1, <1>2 DEF CInv, CTypeOK
<1>4. ASSUME NEW c \in Browsers
      PROVE  SocketOK(c)' /\ RequestComes(c)' /\ ("overlap" \notin faults => HistoryComes(c)')
  <2>1. SocketOK(c) /\ RequestComes(c) /\ ("overlap" \notin faults => HistoryComes(c))
    BY DEF CInv
  <2>2. SocketOK(c)'
    BY <1>1, <2>1 DEF SocketOK
  <2>3. RequestComes(c)'
    BY <1>1, <1>2, <2>1 DEF RequestComes, Accounted
  <2>4. ASSUME "overlap" \notin faults PROVE HistoryComes(c)'
    BY <1>1, <1>2, <2>1, <2>4 DEF HistoryComes, Registering
  <2> QED BY <2>2, <2>3, <2>4
<1> QED BY <1>3, <1>4 DEF CInv

LEMMA AsksKeeps ==
  ASSUME CInv, NEW r \in Requests, handle_permission_request(r), faults' = faults
  PROVE  CInv'
<1>1. /\ handling = None /\ handling' = [type |-> "ask", request |-> r] /\ row' = r
      /\ UNCHANGED <<table, last_input_sender, inputs, sock, view>>
  BY DEF handle_permission_request
<1>2. handling' \in Asking /\ handling \notin Storing /\ handling' \notin Storing
  <2>1. handling' \in Asking
    BY <1>1 DEF Asking
  <2> QED BY <2>1, <1>1, HandlingKinds
<1>3. Said' = Said
  BY <1>1, <1>2 DEF Said
<1>4. CTypeOK'
  BY <1>1, <1>2 DEF CInv, CTypeOK
<1>5. ASSUME NEW c \in Browsers
      PROVE  SocketOK(c)' /\ RequestComes(c)' /\ ("overlap" \notin faults => HistoryComes(c)')
  <2>1. SocketOK(c) /\ ("overlap" \notin faults => HistoryComes(c))
    BY DEF CInv
  <2>2. SocketOK(c)'
    BY <1>1, <2>1 DEF SocketOK
  <2>3. RequestComes(c)'
    BY <1>2 DEF RequestComes, Accounted
  <2>4. ASSUME "overlap" \notin faults PROVE HistoryComes(c)'
    BY <1>1, <1>2, <1>3, <2>1, <2>4 DEF HistoryComes, Registering
  <2> QED BY <2>2, <2>3, <2>4
<1> QED BY <1>4, <1>5 DEF CInv

LEMMA ForwardKeepsRequests ==
  ASSUME CInv, ForwardRequest, faults' = faults
  PROVE  CInv'
<1> DEFINE e == [type |-> "request", request |-> handling.request]
<1>1. /\ handling \in Asking /\ handling' = None /\ broadcast_to_web_clients(e)
      /\ UNCHANGED <<table, row, last_input_sender, inputs, view>>
  BY HandlingKinds DEF ForwardRequest, CInv, CTypeOK, agentVars
<1>2. e \in WsEvent /\ e.type = "request"
  BY <1>1, HandlingKinds DEF WsEvent, Outputs, Histories, PermissionRequests
<1>3. handling \notin Storing /\ handling' \notin Storing
  BY <1>1, HandlingKinds
<1>4. Said' = Said /\ Said \in Seq(Message)
  BY <1>1, <1>3, SaidType DEF Said, CInv
<1> HIDE DEF e
<1>5. CTypeOK'
  <2>1. sock' \in [Browsers -> Socket]
    <3>1. \A c \in Browsers : sock'[c] \in Socket
      BY <1>1, <1>2, Broadcast
    <3>2. sock' = [c \in Browsers |-> sock'[c]]
      BY <1>1 DEF broadcast_to_web_clients
    <3> QED BY <3>1, <3>2
  <2> QED BY <1>1, <2>1 DEF CInv, CTypeOK
<1>6. ASSUME NEW c \in Browsers
      PROVE  SocketOK(c)' /\ RequestComes(c)' /\ ("overlap" \notin faults => HistoryComes(c)')
  <2> DEFINE q == sock[c].to_view
             r == sock'[c].to_view
  <2>1. /\ sock'[c].up = sock[c].up /\ sock'[c].stage = sock[c].stage
        /\ sock'[c].to_server = sock[c].to_server /\ sock'[c].pending = sock[c].pending
        /\ sock'[c].replay_after = sock[c].replay_after /\ sock'[c].history = sock[c].history
        /\ sock[c].stage # "none" => r = Append(q, e)
        /\ SocketOK(c)'
        /\ sock[c].stage # "none" => Len(q) + 1 \in 1..Len(r) /\ r[Len(q) + 1] = e
    BY <1>1, <1>2, Broadcast
  <2>2. RequestComes(c)'
    <3>1. sock[c].stage # "none" => Accounted(c)'
      BY <1>2, <2>1 DEF Accounted
    <3> QED BY <2>1, <3>1 DEF RequestComes
  <2>3. ASSUME "overlap" \notin faults PROVE HistoryComes(c)'
    <3> DEFINE s == view[c].messages
    <3>1. HistoryComes(c) /\ s \in Seq(Message) /\ q \in Seq(WsEvent)
      BY <2>3, SocketFields DEF CInv
    <3>2. OnlyRequests(q) /\ sock[c].stage # "none" => OnlyRequests(r)
      <4> SUFFICES ASSUME OnlyRequests(q), sock[c].stage # "none", NEW i \in 1..Len(r)
                   PROVE  r[i].type = "request"
        BY DEF OnlyRequests
      <4>1. r = Append(q, e)
        BY <2>1
      <4>2. i \in 1..Len(q) \/ i = Len(q) + 1
        BY <3>1, <4>1
      <4>3. i \in 1..Len(q) => r[i] = q[i]
        BY <3>1, <4>1
      <4> QED BY <1>2, <2>1, <4>2, <4>3 DEF OnlyRequests
    <3>3. sock[c].stage \in {"asking", "done"} => Follows(Said, s, r)
      <4>1. sock[c].stage \in {"asking", "done"} => Follows(Said, s, q) /\ r = Append(q, e)
        BY <2>1, <3>1 DEF HistoryComes
      <4> QED BY <1>2, <1>4, <3>1, <4>1, FollowsRequest
    <3> QED BY <1>1, <1>3, <1>4, <2>1, <3>1, <3>2, <3>3 DEF HistoryComes, Registering
  <2> QED BY <2>1, <2>2, <2>3
<1> QED BY <1>5, <1>6 DEF CInv

-----------------------------------------------------------------------------
LEMMA ConversationInit == Init => CInv
<1> SUFFICES ASSUME Init PROVE CInv
  OBVIOUS
<1>1. /\ <<>> \in Seq(Message) /\ <<>> \in Seq(Report)
      /\ <<>> \in Seq(WsEvent) /\ <<>> \in Seq(Browsers)
      /\ Len(<<>>) = 0
  OBVIOUS
<1>2. NoSocket \in Socket
  BY DEF NoSocket, Socket, Stages
<1>3. SessionView \in ViewWith({})
  BY DEF SessionView, ViewWith, Phases
<1>4. CTypeOK
  BY <1>1, <1>2, <1>3 DEF Init, CTypeOK, IsView
<1>5. handling \notin Storing /\ Said = <<>>
  BY HandlingKinds DEF Init, Said
<1>6. ASSUME NEW b \in Browsers
      PROVE  SocketOK(b) /\ RequestComes(b) /\ HistoryComes(b)
  <2>1. /\ sock[b].up = FALSE /\ sock[b].stage = "none" /\ sock[b].to_server = <<>>
        /\ sock[b].to_view = <<>> /\ view[b].phase = "loading" /\ view[b].messages = <<>>
        /\ view[b].last_message_timestamp = 0
    BY DEF Init, NoSocket, SessionView
  <2>2. SocketOK(b)
    BY <2>1, <1>1 DEF SocketOK
  <2>3. RequestComes(b)
    BY <2>1 DEF RequestComes
  <2>4. UpTo(Said, <<>>, 0)
    BY <1>1, <1>5, UpToNothing
  <2> QED BY <1>1, <2>1, <2>2, <2>3, <2>4 DEF HistoryComes, Registering
<1> QED BY <1>4, <1>6 DEF CInv

LEMMA ConversationNext ==
  ASSUME CInv, [Next]_vars
  PROVE  CInv'
<1>1. CASE UNCHANGED vars
  <2>1. UNCHANGED <<faults, table, row, handling, last_input_sender, inputs, sock, view>>
    BY <1>1 DEF vars
  <2>2. CTypeOK'
    BY <2>1 DEF CInv, CTypeOK
  <2>3. ASSUME NEW b \in Browsers
        PROVE  SocketOK(b)' /\ RequestComes(b)' /\ ("overlap" \notin faults => HistoryComes(b)')
    BY <2>1 DEF CInv, SocketOK, RequestComes, Accounted, HistoryComes, Registering, Said
  <2> QED BY <2>1, <2>2, <2>3 DEF CInv
<1>2. ASSUME NEW b \in Browsers, ViewStep(b), faults' = faults
      PROVE  CInv'
  BY <1>2, LoadHistoryKeeps, LoadFailsKeeps, ConnectKeeps, ConnectFailsKeeps, ReconnectKeeps,
     ClosedKeeps, DeliverKeeps DEF ViewStep, ConnectionLost
<1>3. ASSUME NEW b \in Browsers, UserStep(b), faults' = faults
      PROVE  CInv'
  BY <1>3, SendInputKeeps, ApproveKeeps DEF UserStep
<1>4. ASSUME NEW b \in Browsers, SocketStep(b), faults' = faults
      PROVE  CInv'
  BY <1>4, RegisterKeeps, ClosedKeeps, ReplayHistoryKeeps, HistoryIsSentKeeps,
     ReplayPendingKeeps, InputHeardKeeps, AnswerHeardKeeps DEF SocketStep, AccessDenied
<1>5. ASSUME NEW b \in Browsers, RemoveMember(b), faults' = faults
      PROVE  CInv'
  <2>1. UNCHANGED <<faults, table, row, handling, last_input_sender, inputs, sock, view>>
    BY <1>5 DEF RemoveMember, agentVars
  <2>2. CTypeOK'
    BY <2>1 DEF CInv, CTypeOK
  <2>3. ASSUME NEW c \in Browsers
        PROVE  SocketOK(c)' /\ RequestComes(c)' /\ ("overlap" \notin faults => HistoryComes(c)')
    BY <2>1 DEF CInv, SocketOK, RequestComes, Accounted, HistoryComes, Registering, Said
  <2> QED BY <2>1, <2>2, <2>3 DEF CInv
<1>6. ASSUME ProxyStep, faults' = faults
      PROVE  CInv'
  BY <1>6, OutputKeeps, StoreKeeps, AsksKeeps, ForwardKeepsRequests DEF ProxyStep
<1> QED BY <1>1, <1>2, <1>3, <1>4, <1>5, <1>6 DEF Next, Step

\* The types, and what explains a missing dialog or message, in every reachable state.
THEOREM ConversationInvariance == Spec => []CInv
<1>1. CInv /\ [Next]_vars => CInv'
  BY ConversationNext
<1> QED BY ConversationInit, <1>1, PTL DEF Spec

\* PendingIsShown: a browser that is connected has a dialog open as long as the session
\* has a request pending, whatever else goes wrong, with any number of browsers.
THEOREM PendingRequestIsShown == Spec => []PendingIsShown
<1>1. CInv => PendingIsShown
  <2> SUFFICES ASSUME CInv, NEW b \in Browsers, Settled(b), row # None
               PROVE  view[b].pending_permission # None
    BY DEF PendingIsShown, CInv, CTypeOK
  <2>1. RequestComes(b) /\ handling \notin Asking
    BY HandlingKinds DEF CInv, Settled
  <2>2. Len(sock[b].to_view) = 0 /\ Len(sock[b].to_server) = 0
    BY EmptySeq DEF Settled
  <2> QED BY <2>1, <2>2 DEF RequestComes, Accounted, Settled
<1> QED BY <1>1, ConversationInvariance, PTL

\* NothingMissed: without an output that overlaps a registration, a connected browser
\* shows the last messages of the session, however often it lost its socket.
THEOREM HistoryIsWhole == Spec => []NothingMissed
<1>1. CInv => NothingMissed
  <2> SUFFICES ASSUME CInv, "overlap" \notin faults, NEW b \in Browsers, Settled(b)
               PROVE  ToSet(Trimmed(table)) \subseteq ToSet(view[b].messages)
    BY DEF NothingMissed, CInv, CTypeOK
  <2>1. HistoryComes(b) /\ handling \notin Storing /\ Said = table
        /\ view[b].messages \in Seq(Message) /\ table \in Seq(Message)
    BY HandlingKinds, SaidType, SocketFields DEF CInv, CTypeOK, Settled
  <2>2. Follows(table, view[b].messages, <<>>)
    BY <2>1 DEF HistoryComes, Settled
  <2>3. UpTo(table, view[b].messages, Len(table))
    BY <2>2, EmptySeq DEF Follows
  <2> QED BY <2>1, <2>3, UpToShows
<1> QED BY <1>1, ConversationInvariance, PTL

-----------------------------------------------------------------------------
(***************************************************************************)
(* Part 2.  FileUpload                                                     *)
(***************************************************************************)
-----------------------------------------------------------------------------
(* The messages of an upload, numbered: the start is 0.                     *)

Numbers == 0..TotalChunks
Data(u, k) == IF k = 0 THEN Start(u) ELSE Chunk(u, k)
Pieces == {Data(u, k) : u \in Uploads, k \in Numbers}
Messages == Pieces \cup {Announce(u) : u \in Uploads}

\* The messages of u in s are those from a on, below b, in their order.
Segment(s, u, a, b) ==
  /\ \A k \in Numbers : (\E i \in 1..Len(s) : s[i] = Data(u, k)) <=> (a <= k /\ k < b)
  /\ \A i, j \in 1..Len(s), k, l \in Numbers :
       s[i] = Data(u, k) /\ s[j] = Data(u, l) /\ i < j => k < l

\* A socket that has all of an upload from c on, and its announcement.
Rest(s, u, c) ==
  /\ Len(s) = TotalChunks + 2 - c
  /\ \A i \in 1..(TotalChunks + 1 - c) : s[i] = Data(u, c + i - 1)
  /\ s[TotalChunks + 2 - c] = Announce(u)

-----------------------------------------------------------------------------
(* The strengthening.                                                       *)

Known == UNION {[D -> Nat] : D \in SUBSET Uploads}

UTypeOK ==
  /\ selected \subseteq Uploads
  /\ ws \in [Uploads -> Seq(Messages)]
  /\ stored \subseteq Uploads /\ IsFiniteSet(stored)
  /\ proxy \in [up : BOOLEAN, channel : Seq(Messages), file_upload_rx : Seq(Pieces),
                active_uploads : Known]
  /\ disk \in [{Name[u] : u \in Uploads} -> Seq(Messages)]

\* What the main loop has taken of u (below a), has before it (below b), what is on
\* its way (below c) and what the view has left to send: without a gap, in order.
Cut(u, a, b, c) ==
  /\ a <= b /\ b <= c
  /\ Segment(proxy.file_upload_rx, u, a, b)
  /\ Segment(proxy.channel, u, b, c)
  /\ ws[u] = <<>> \/ Rest(ws[u], u, c)
  /\ u \notin selected => c = 0 /\ ws[u] = <<>>
  /\ proxy.up /\ u \in DOMAIN proxy.active_uploads =>
       /\ 0 < a /\ a <= TotalChunks
       /\ proxy.active_uploads[u] = a - 1
       /\ Len(disk[Name[u]]) = a - 1

InLine(u) == \E a, b, c \in 0..(TotalChunks + 1) : Cut(u, a, b, c)

Beginning(u) ==
  /\ Len(disk[Name[u]]) <= TotalChunks
  /\ \A i \in 1..Len(disk[Name[u]]) : disk[Name[u]][i] = Chunk(u, i)

IInv ==
  /\ UTypeOK
  /\ ~proxy.up => proxy.channel = <<>> /\ proxy.file_upload_rx = <<>>
  /\ \A u \in Uploads : InLine(u) /\ Beginning(u)

-----------------------------------------------------------------------------
(* Messages and segments.                                                   *)

LEMMA DataFields ==
  ASSUME NEW u \in Uploads, NEW k \in Numbers
  PROVE  /\ Data(u, k).upload = u
         /\ Data(u, k).type = IF k = 0 THEN "start" ELSE "chunk"
         /\ k # 0 => Data(u, k).index = k
BY DEF Data, Start, Chunk

LEMMA DataInjective ==
  ASSUME NEW u \in Uploads, NEW v \in Uploads, NEW k \in Numbers, NEW l \in Numbers,
         Data(u, k) = Data(v, l)
  PROVE  u = v /\ k = l
BY DataFields

LEMMA AnnounceFields ==
  ASSUME NEW u \in Uploads
  PROVE  /\ Announce(u).type = "input" /\ Announce(u).upload = u
         /\ \A v \in Uploads, k \in Numbers : Announce(u) # Data(v, k)
BY DataFields DEF Announce

LEMMA MessageKinds ==
  ASSUME NEW m \in Messages
  PROVE  /\ m.upload \in Uploads
         /\ m.type = "input" => m = Announce(m.upload)
         /\ m.type # "input" => \E k \in Numbers : m = Data(m.upload, k)
         /\ m.type \in {"input", "start", "chunk"}
         /\ m.type = "start" => m = Data(m.upload, 0)
BY DataFields, AnnounceFields, UploadAssumption DEF Messages, Pieces, Numbers

LEMMA PiecesAreMessages ==
  ASSUME NEW s \in Seq(Pieces)
  PROVE  s \in Seq(Messages)
BY DEF Messages

LEMMA SegmentOfNothing ==
  ASSUME NEW u \in Uploads, NEW a \in Nat
  PROVE  Segment(<<>>, u, a, a)
BY UploadAssumption DEF Segment, Numbers

\* A message that is not of u changes nothing, the next one of u is at the end.
LEMMA SegmentAppendOther ==
  ASSUME NEW u \in Uploads, NEW a \in Nat, NEW b \in Nat, NEW s \in Seq(Messages),
         NEW m \in Messages, Segment(s, u, a, b),
         \A k \in Numbers : m # Data(u, k)
  PROVE  Segment(Append(s, m), u, a, b)
<1> DEFINE r == Append(s, m)
<1>1. /\ Len(s) \in Nat /\ Len(r) = Len(s) + 1 /\ r[Len(s) + 1] = m
      /\ \A i \in 1..Len(s) : r[i] = s[i]
  OBVIOUS
<1> HIDE DEF r
<1>2. ASSUME NEW k \in Numbers
      PROVE  (\E i \in 1..Len(r) : r[i] = Data(u, k)) <=> (\E i \in 1..Len(s) : s[i] = Data(u, k))
  BY <1>1
<1>3. ASSUME NEW i \in 1..Len(r), NEW j \in 1..Len(r), NEW k \in Numbers, NEW l \in Numbers,
             r[i] = Data(u, k), r[j] = Data(u, l), i < j
      PROVE  k < l
  <2>1. i \in 1..Len(s) /\ j \in 1..Len(s)
    BY <1>1, <1>3
  <2> QED BY <2>1, <1>1, <1>3 DEF Segment
<1> QED BY <1>2, <1>3 DEF Segment, r

LEMMA SegmentAppendNext ==
  ASSUME NEW u \in Uploads, NEW a \in Nat, NEW b \in Numbers, NEW s \in Seq(Messages),
         Segment(s, u, a, b), a <= b
  PROVE  Segment(Append(s, Data(u, b)), u, a, b + 1)
<1> DEFINE r == Append(s, Data(u, b))
<1>1. /\ Len(s) \in Nat /\ Len(r) = Len(s) + 1 /\ r[Len(s) + 1] = Data(u, b)
      /\ \A i \in 1..Len(s) : r[i] = s[i]
  OBVIOUS
<1> HIDE DEF r
<1>2. ASSUME NEW k \in Numbers
      PROVE  (\E i \in 1..Len(r) : r[i] = Data(u, k)) <=> (a <= k /\ k < b + 1)
  <2>1. (\E i \in 1..Len(r) : r[i] = Data(u, k))
          <=> (\E i \in 1..Len(s) : s[i] = Data(u, k)) \/ k = b
    BY <1>1, DataInjective
  <2> QED BY <2>1 DEF Segment, Numbers
<1>3. ASSUME NEW i \in 1..Len(r), NEW j \in 1..Len(r), NEW k \in Numbers, NEW l \in Numbers,
             r[i] = Data(u, k), r[j] = Data(u, l), i < j
      PROVE  k < l
  <2>1. i \in 1..Len(s) /\ s[i] = Data(u, k)
    BY <1>1, <1>3
  <2>2. CASE j \in 1..Len(s)
    BY <2>1, <2>2, <1>1, <1>3 DEF Segment
  <2>3. CASE j = Len(s) + 1
    <3>1. l = b
      BY <2>3, <1>1, <1>3, DataInjective
    <3> QED BY <3>1, <2>1 DEF Segment
  <2> QED BY <2>2, <2>3, <1>1
<1> QED BY <1>2, <1>3 DEF Segment, r

\* What is taken from the front is the first of its upload.
LEMMA SegmentTailOther ==
  ASSUME NEW u \in Uploads, NEW a \in Nat, NEW b \in Nat, NEW s \in Seq(Messages), s # <<>>,
         Segment(s, u, a, b), \A k \in Numbers : Head(s) # Data(u, k)
  PROVE  Segment(Tail(s), u, a, b)
<1> DEFINE r == Tail(s)
<1>1. /\ Len(s) \in Nat \ {0} /\ Len(r) = Len(s) - 1 /\ Head(s) = s[1]
      /\ \A i \in 1..Len(r) : r[i] = s[i + 1]
  OBVIOUS
<1> HIDE DEF r
<1>2. ASSUME NEW k \in Numbers
      PROVE  (\E i \in 1..Len(r) : r[i] = Data(u, k)) <=> (\E i \in 1..Len(s) : s[i] = Data(u, k))
  <2>1. ASSUME NEW i \in 1..Len(s), s[i] = Data(u, k) PROVE \E j \in 1..Len(r) : r[j] = Data(u, k)
    <3>1. i # 1
      BY <1>1, <2>1
    <3>2. i - 1 \in 1..Len(r) /\ r[i - 1] = s[i]
      BY <3>1, <1>1
    <3> QED BY <3>2, <2>1
  <2>2. ASSUME NEW i \in 1..Len(r), r[i] = Data(u, k) PROVE \E j \in 1..Len(s) : s[j] = Data(u, k)
    <3>1. i + 1 \in 1..Len(s) /\ s[i + 1] = r[i]
      BY <1>1
    <3> QED BY <3>1, <2>2
  <2> QED BY <2>1, <2>2
<1>3. ASSUME NEW i \in 1..Len(r), NEW j \in 1..Len(r), NEW k \in Numbers, NEW l \in Numbers,
             r[i] = Data(u, k), r[j] = Data(u, l), i < j
      PROVE  k < l
  <2>1. /\ i + 1 \in 1..Len(s) /\ j + 1 \in 1..Len(s) /\ i + 1 < j + 1
        /\ s[i + 1] = Data(u, k) /\ s[j + 1] = Data(u, l)
    BY <1>1, <1>3
  <2> QED BY <2>1 DEF Segment
<1> QED BY <1>2, <1>3 DEF Segment, r

LEMMA SegmentTailNext ==
  ASSUME NEW u \in Uploads, NEW a \in Nat, NEW b \in 0..(TotalChunks + 1),
         NEW s \in Seq(Messages), s # <<>>,
         Segment(s, u, a, b), NEW n \in Numbers, Head(s) = Data(u, n)
  PROVE  n = a /\ a < b /\ Segment(Tail(s), u, a + 1, b)
<1> DEFINE r == Tail(s)
<1>1. /\ Len(s) \in Nat \ {0} /\ Len(r) = Len(s) - 1 /\ Head(s) = s[1]
      /\ \A i \in 1..Len(r) : r[i] = s[i + 1]
  OBVIOUS
<1> HIDE DEF r
<1>2. a <= n /\ n < b
  BY <1>1 DEF Segment
<1>3. \A k \in Numbers, j \in 1..Len(s) : s[j] = Data(u, k) /\ j # 1 => n < k
  BY <1>1 DEF Segment
<1>4. a \in Numbers
  BY <1>2, UploadAssumption DEF Numbers
<1>5. PICK j \in 1..Len(s) : s[j] = Data(u, a)
  BY <1>2, <1>4 DEF Segment, Numbers
<1>6. n = a
  <2>1. CASE j = 1
    BY <2>1, <1>1, <1>4, <1>5, DataInjective
  <2>2. CASE j # 1
    BY <2>2, <1>2, <1>3, <1>4, <1>5 DEF Numbers
  <2> QED BY <2>1, <2>2
<1>7. ASSUME NEW k \in Numbers
      PROVE  (\E i \in 1..Len(r) : r[i] = Data(u, k)) <=> (a + 1 <= k /\ k < b)
  <2>1. ASSUME NEW i \in 1..Len(r), r[i] = Data(u, k) PROVE a + 1 <= k /\ k < b
    <3>1. i + 1 \in 1..Len(s) /\ i + 1 # 1 /\ s[i + 1] = Data(u, k)
      BY <1>1, <2>1
    <3>2. n < k
      BY <3>1, <1>3
    <3>3. k < b
      BY <3>1 DEF Segment
    <3> QED BY <3>2, <3>3, <1>6 DEF Numbers
  <2>2. ASSUME a + 1 <= k, k < b PROVE \E i \in 1..Len(r) : r[i] = Data(u, k)
    <3>1. PICK i \in 1..Len(s) : s[i] = Data(u, k)
      BY <2>2 DEF Segment, Numbers
    <3>2. i # 1
      BY <3>1, <2>2, <1>1, <1>6, DataInjective DEF Numbers
    <3>3. i - 1 \in 1..Len(r) /\ r[i - 1] = s[i]
      BY <3>2, <1>1
    <3> QED BY <3>1, <3>3
  <2> QED BY <2>1, <2>2
<1>8. ASSUME NEW i \in 1..Len(r), NEW j1 \in 1..Len(r), NEW k \in Numbers, NEW l \in Numbers,
             r[i] = Data(u, k), r[j1] = Data(u, l), i < j1
      PROVE  k < l
  <2>1. /\ i + 1 \in 1..Len(s) /\ j1 + 1 \in 1..Len(s) /\ i + 1 < j1 + 1
        /\ s[i + 1] = Data(u, k) /\ s[j1 + 1] = Data(u, l)
    BY <1>1, <1>8
  <2> QED BY <2>1 DEF Segment
<1> QED BY <1>2, <1>6, <1>7, <1>8 DEF Segment, r

LEMMA RestHead ==
  ASSUME NEW u \in Uploads, NEW c \in 0..(TotalChunks + 1), NEW s \in Seq(Messages),
         Rest(s, u, c)
  PROVE  /\ s # <<>>
         /\ Head(s).type # "input" =>
              /\ c \in Numbers /\ Head(s) = Data(u, c) /\ Rest(Tail(s), u, c + 1)
         /\ Head(s).type = "input" =>
              c = TotalChunks + 1 /\ Head(s) = Announce(u) /\ Tail(s) = <<>>
<1> DEFINE r == Tail(s)
<1>1. Len(s) = TotalChunks + 2 - c /\ Len(s) \in Nat \ {0}
  BY UploadAssumption DEF Rest
<1>2. /\ s # <<>> /\ Len(r) = Len(s) - 1 /\ Head(s) = s[1] /\ r \in Seq(Messages)
      /\ \A i \in 1..Len(r) : r[i] = s[i + 1]
  BY <1>1
<1>3. CASE c = TotalChunks + 1
  <2>1. Len(s) = 1 /\ s[1] = Announce(u)
    BY <1>3, UploadAssumption DEF Rest
  <2> HIDE DEF r
  <2>2. r = <<>>
    BY <1>2, <2>1, EmptySeq
  <2> QED BY <2>1, <2>2, <1>2, <1>3, AnnounceFields DEF r
<1>4. CASE c # TotalChunks + 1
  <2>1. c \in Numbers
    BY <1>4, UploadAssumption DEF Numbers
  <2>2. Head(s) = Data(u, c)
    BY <1>2, <2>1, UploadAssumption DEF Rest, Numbers
  <2>3. Rest(r, u, c + 1)
    BY <1>1, <1>2, <2>1, UploadAssumption DEF Rest, Numbers
  <2> QED BY <1>2, <2>1, <2>2, <2>3, DataFields
<1> QED BY <1>3, <1>4

-----------------------------------------------------------------------------
(* Every step keeps the strengthening.                                      *)

\* Uploads have files of their own, and what is created can be written.
Separate ==
  /\ \A u, v \in Uploads : Name[u] = Name[v] => u = v
  /\ "chunk" \notin Failing

LEMMA NothingKnown == <<>> \in Known /\ <<>> \in Seq(Messages) /\ <<>> \in Seq(Pieces)
<1>1. <<>> \in [{} -> Nat]
  OBVIOUS
<1> QED BY <1>1 DEF Known

LEMMA InitIInv == UInit => IInv
<1> SUFFICES ASSUME UInit PROVE IInv
  OBVIOUS
<1>1. UTypeOK
  BY FS_EmptySet, NothingKnown DEF UInit, UTypeOK, Fresh
<1>2. ASSUME NEW u \in Uploads PROVE InLine(u)
  <2>1. Cut(u, 0, 0, 0)
    BY SegmentOfNothing DEF UInit, Fresh, Cut
  <2>2. 0 \in 0..(TotalChunks + 1)
    BY UploadAssumption
  <2> QED BY <2>1, <2>2 DEF InLine
<1>3. ASSUME NEW u \in Uploads PROVE Beginning(u)
  <2>1. disk[Name[u]] = <<>>
    BY DEF UInit
  <2> QED BY <2>1, UploadAssumption DEF Beginning
<1> QED BY <1>1, <1>2, <1>3 DEF IInv, UInit, Fresh

LEMMA FilesSelectedKeeps ==
  ASSUME IInv, NEW u \in Uploads, FilesSelected(u)
  PROVE  IInv'
<1> USE UploadAssumption
<1> DEFINE chunks == [i \in 1..TotalChunks |-> Chunk(u, i)]
           all == <<Start(u)>> \o chunks \o <<Announce(u)>>
<1>1. all \in Seq(Messages) /\ Rest(all, u, 0)
  <2>1. \A k \in Numbers : Data(u, k) \in Messages
    BY DEF Messages, Pieces
  <2>2. Start(u) = Data(u, 0) /\ \A i \in 1..TotalChunks : Chunk(u, i) = Data(u, i)
    BY DEF Data
  <2>3. 0 \in Numbers /\ \A i \in 1..TotalChunks : i \in Numbers
    BY DEF Numbers
  <2>4. Announce(u) \in Messages /\ Start(u) \in Messages
        /\ \A i \in 1..TotalChunks : Chunk(u, i) \in Messages
    BY <2>1, <2>2, <2>3 DEF Messages, Pieces
  <2>5. chunks \in Seq(Messages) /\ Len(chunks) = TotalChunks
    BY <2>4
  <2> DEFINE first == <<Start(u)>> \o chunks
  <2>6. /\ first \in Seq(Messages) /\ Len(first) = TotalChunks + 1 /\ first[1] = Start(u)
        /\ \A i \in 2..(TotalChunks + 1) : first[i] = chunks[i - 1]
    <3> HIDE DEF chunks
    <3> QED BY <2>4, <2>5
  <2>7. \A i \in 1..(TotalChunks + 1) : first[i] = Data(u, i - 1)
    <3> TAKE i \in 1..(TotalChunks + 1)
    <3>1. CASE i = 1
      BY <3>1, <2>2, <2>6
    <3>2. CASE i # 1
      <4>1. i - 1 \in 1..TotalChunks /\ first[i] = chunks[i - 1]
        BY <3>2, <2>6
      <4> QED BY <4>1, <2>2
    <3> QED BY <3>1, <3>2
  <2>8. /\ all \in Seq(Messages) /\ Len(all) = TotalChunks + 2
        /\ all[TotalChunks + 2] = Announce(u)
        /\ \A i \in 1..(TotalChunks + 1) : all[i] = first[i]
    <3> HIDE DEF first
    <3> QED BY <2>4, <2>6
  <2> HIDE DEF first, all
  <2> QED BY <2>7, <2>8 DEF Rest
<1> HIDE DEF all
<1>2. /\ u \notin selected /\ selected' = selected \cup {u}
      /\ ws' = [ws EXCEPT ![u] = all]
      /\ UNCHANGED <<stored, proxy, disk>>
  BY DEF FilesSelected, all
<1>3. UTypeOK'
  BY <1>1, <1>2 DEF IInv, UTypeOK
<1>4. ASSUME NEW v \in Uploads PROVE InLine(v)'
  <2>1. PICK a, b, c \in 0..(TotalChunks + 1) : Cut(v, a, b, c)
    BY DEF IInv, InLine
  <2>2. CASE v = u
    <3>1. c = 0 /\ ws'[u] = all
      BY <1>2, <2>1, <2>2 DEF Cut, IInv, UTypeOK
    <3>2. Cut(v, a, b, c)'
      BY <1>1, <1>2, <2>1, <2>2, <3>1 DEF Cut
    <3> QED BY <3>2 DEF InLine
  <2>3. CASE v # u
    <3>1. ws'[v] = ws[v] /\ (v \notin selected' => v \notin selected)
      BY <1>2, <2>3 DEF IInv, UTypeOK
    <3>2. Cut(v, a, b, c)'
      BY <1>2, <2>1, <3>1 DEF Cut
    <3> QED BY <3>2 DEF InLine
  <2> QED BY <2>2, <2>3
<1>5. \A v \in Uploads : Beginning(v)'
  BY <1>2 DEF IInv, Beginning
<1> QED BY <1>2, <1>3, <1>4, <1>5 DEF IInv

LEMMA SocketLostKeeps ==
  ASSUME IInv, NEW u \in Uploads, SocketLost(u)
  PROVE  IInv'
<1>1. /\ ws' = [ws EXCEPT ![u] = <<>>]
      /\ UNCHANGED <<selected, stored, proxy, disk>>
  BY DEF SocketLost
<1>2. UTypeOK'
  BY <1>1 DEF IInv, UTypeOK
<1>3. ASSUME NEW v \in Uploads PROVE InLine(v)'
  <2>1. PICK a, b, c \in 0..(TotalChunks + 1) : Cut(v, a, b, c)
    BY DEF IInv, InLine
  <2>2. ws'[v] = <<>> \/ ws'[v] = ws[v]
    BY <1>1 DEF IInv, UTypeOK
  <2>3. Cut(v, a, b, c)'
    BY <1>1, <2>1, <2>2 DEF Cut
  <2> QED BY <2>3 DEF InLine
<1>4. \A v \in Uploads : Beginning(v)'
  BY <1>1 DEF IInv, Beginning
<1> QED BY <1>1, <1>2, <1>3, <1>4 DEF IInv

\* The backend sends a start or a chunk on, or drops it when the proxy is away.
LEMMA ForwardKeeps ==
  ASSUME IInv, NEW u \in Uploads, ws[u] # <<>>, Head(ws[u]).type # "input",
         ws' = [ws EXCEPT ![u] = Tail(@)], send_to_session(Head(ws[u])),
         UNCHANGED <<selected, stored, disk>>
  PROVE  IInv'
<1> USE UploadAssumption
<1> DEFINE m == Head(ws[u])
<1>1. /\ ws \in [Uploads -> Seq(Messages)] /\ m \in Messages /\ Tail(ws[u]) \in Seq(Messages)
      /\ proxy.channel \in Seq(Messages)
  BY DEF IInv, UTypeOK
<1>2. PICK a, b, c \in 0..(TotalChunks + 1) : Cut(u, a, b, c)
  BY DEF IInv, InLine
<1>3. c \in Numbers /\ m = Data(u, c) /\ Rest(Tail(ws[u]), u, c + 1)
  BY <1>1, <1>2, RestHead DEF Cut
<1> HIDE DEF m
<1>4. CASE proxy.up
  <2>1. /\ proxy' = [proxy EXCEPT !.channel = Append(@, m)]
        /\ proxy'.up = proxy.up /\ proxy'.channel = Append(proxy.channel, m)
        /\ proxy'.file_upload_rx = proxy.file_upload_rx
        /\ proxy'.active_uploads = proxy.active_uploads
    BY <1>4 DEF send_to_session, m, IInv, UTypeOK
  <2>2. UTypeOK'
    <3>1. Append(proxy.channel, m) \in Seq(Messages)
      BY <1>1
    <3> QED BY <1>1, <2>1, <3>1 DEF IInv, UTypeOK
  <2>3. InLine(u)'
    <3>1. Segment(Append(proxy.channel, m), u, b, c + 1)
      BY <1>1, <1>2, <1>3, SegmentAppendNext DEF Cut
    <3>2. ws'[u] = Tail(ws[u])
      BY <1>1
    <3>3. u \in selected
      BY <1>2 DEF Cut
    <3>4. Cut(u, a, b, c + 1)'
      BY <1>2, <1>3, <2>1, <3>1, <3>2, <3>3 DEF Cut
    <3>5. c + 1 \in 0..(TotalChunks + 1)
      BY <1>3 DEF Numbers
    <3> QED BY <3>4, <3>5 DEF InLine
  <2>4. ASSUME NEW v \in Uploads, v # u PROVE InLine(v)'
    <3>1. PICK d, e, f \in 0..(TotalChunks + 1) : Cut(v, d, e, f)
      BY DEF IInv, InLine
    <3>2. \A k \in Numbers : m # Data(v, k)
      BY <1>3, <2>4, DataInjective
    <3>3. Segment(Append(proxy.channel, m), v, e, f)
      BY <1>1, <3>1, <3>2, SegmentAppendOther DEF Cut
    <3>4. ws'[v] = ws[v]
      BY <1>1, <2>4
    <3>5. Cut(v, d, e, f)'
      BY <2>1, <3>1, <3>3, <3>4 DEF Cut
    <3> QED BY <3>5 DEF InLine
  <2>5. \A v \in Uploads : Beginning(v)'
    BY DEF IInv, Beginning
  <2> QED BY <1>4, <2>1, <2>2, <2>3, <2>4, <2>5 DEF IInv
<1>5. CASE ~proxy.up
  <2>1. proxy' = proxy
    BY <1>5 DEF send_to_session
  <2>2. UTypeOK'
    BY <1>1, <2>1 DEF IInv, UTypeOK
  <2>3. proxy.channel = <<>> /\ proxy.file_upload_rx = <<>>
    BY <1>5 DEF IInv
  <2>4. InLine(u)'
    <3>1. Segment(<<>>, u, c + 1, c + 1)
      BY <1>3, SegmentOfNothing DEF Numbers
    <3>2. ws'[u] = Tail(ws[u])
      BY <1>1
    <3>3. u \in selected
      BY <1>2 DEF Cut
    <3>4. c + 1 \in 0..(TotalChunks + 1)
      BY <1>3 DEF Numbers
    <3>5. Cut(u, c + 1, c + 1, c + 1)'
      BY <1>3, <1>5, <2>1, <2>3, <3>1, <3>2, <3>3, <3>4 DEF Cut
    <3> QED BY <3>4, <3>5 DEF InLine
  <2>5. ASSUME NEW v \in Uploads, v # u PROVE InLine(v)'
    <3>1. PICK d, e, f \in 0..(TotalChunks + 1) : Cut(v, d, e, f)
      BY DEF IInv, InLine
    <3>2. ws'[v] = ws[v]
      BY <1>1, <2>5
    <3>3. Cut(v, d, e, f)'
      BY <2>1, <3>1, <3>2 DEF Cut
    <3> QED BY <3>3 DEF InLine
  <2>6. \A v \in Uploads : Beginning(v)'
    BY DEF IInv, Beginning
  <2> QED BY <2>1, <2>2, <2>3, <2>4, <2>5, <2>6 DEF IInv
<1> QED BY <1>4, <1>5 DEF IInv, UTypeOK

LEMMA StartKeeps ==
  ASSUME IInv, NEW u \in Uploads, handle_file_upload_start(u)
  PROVE  IInv'
<1>1. Head(ws[u]) \in Messages /\ ws[u] \in Seq(Messages)
  BY DEF handle_file_upload_start, IInv, UTypeOK
<1>2. PICK a, b, c \in 0..(TotalChunks + 1) : Cut(u, a, b, c)
  BY DEF IInv, InLine
<1>3. c \in Numbers /\ Head(ws[u]) = Data(u, c) /\ Head(ws[u]).type = "start"
  BY <1>1, <1>2, RestHead DEF handle_file_upload_start, Cut
<1>4. Head(ws[u]) = Start(u)
  BY <1>3, DataFields DEF Data
<1> QED BY <1>3, <1>4, ForwardKeeps DEF handle_file_upload_start

LEMMA ChunkKeeps ==
  ASSUME IInv, NEW u \in Uploads, handle_file_upload_chunk(u)
  PROVE  IInv'
BY ForwardKeeps DEF handle_file_upload_chunk

LEMMA AnnouncementKeeps ==
  ASSUME IInv, NEW u \in Uploads, handle_announcement(u)
  PROVE  IInv'
<1> USE UploadAssumption
<1>1. /\ ws \in [Uploads -> Seq(Messages)] /\ ws[u] \in Seq(Messages)
      /\ proxy.channel \in Seq(Messages)
  BY DEF IInv, UTypeOK
<1>2. /\ ws[u] # <<>> /\ Head(ws[u]).type = "input" /\ ws' = [ws EXCEPT ![u] = Tail(@)]
      /\ stored' = stored \cup {u} /\ send_to_session(Announce(u))
      /\ UNCHANGED <<selected, disk>>
  BY DEF handle_announcement
<1>3. PICK a0, b0, c0 \in 0..(TotalChunks + 1) : Cut(u, a0, b0, c0)
  BY DEF IInv, InLine
<1>4. ws' = [ws EXCEPT ![u] = <<>>]
  <2>1. Tail(ws[u]) = <<>>
    BY <1>1, <1>2, <1>3, RestHead DEF Cut
  <2> QED BY <1>2, <2>1
<1>5. Announce(u) \in Messages
  BY DEF Messages, Pieces
<1> DEFINE channel == IF proxy.up THEN Append(proxy.channel, Announce(u)) ELSE proxy.channel
<1>6. /\ proxy' = [proxy EXCEPT !.channel = channel]
      /\ proxy'.up = proxy.up /\ proxy'.channel = channel
      /\ proxy'.file_upload_rx = proxy.file_upload_rx
      /\ proxy'.active_uploads = proxy.active_uploads
  BY <1>2 DEF send_to_session, IInv, UTypeOK
<1>7. channel \in Seq(Messages)
  BY <1>1, <1>5
<1>8. ASSUME NEW v \in Uploads PROVE InLine(v)'
  <2>1. PICK a, b, c \in 0..(TotalChunks + 1) : Cut(v, a, b, c)
    BY DEF IInv, InLine
  <2>2. Segment(channel, v, b, c)
    BY <1>1, <1>5, <2>1, AnnounceFields, SegmentAppendOther DEF Cut
  <2>3. ws'[v] = <<>> \/ ws'[v] = ws[v]
    BY <1>1, <1>4
  <2> HIDE DEF channel
  <2>4. Cut(v, a, b, c)'
    BY <1>2, <1>6, <2>1, <2>2, <2>3 DEF Cut
  <2> QED BY <2>4 DEF InLine
<1>9. ~proxy'.up => proxy'.channel = <<>> /\ proxy'.file_upload_rx = <<>>
  BY <1>6 DEF IInv
<1> HIDE DEF channel
<1>10. IsFiniteSet(stored')
  BY <1>2, FS_AddElement DEF IInv, UTypeOK
<1>11. UTypeOK'
  <2>1. ws' \in [Uploads -> Seq(Messages)]
    BY <1>1, <1>4
  <2>2. proxy' \in [up : BOOLEAN, channel : Seq(Messages), file_upload_rx : Seq(Pieces),
                    active_uploads : Known]
    BY <1>6, <1>7 DEF IInv, UTypeOK
  <2> QED BY <2>1, <2>2, <1>2, <1>10 DEF IInv, UTypeOK
<1>12. \A v \in Uploads : Beginning(v)'
  BY <1>2 DEF IInv, Beginning
<1> QED BY <1>8, <1>9, <1>11, <1>12 DEF IInv

\* The reader passes a message on, or hands an announcement to the inputs.
LEMMA ReaderReadsKeeps ==
  ASSUME IInv, ReaderReads
  PROVE  IInv'
<1> USE UploadAssumption
<1> DEFINE m == Head(proxy.channel)
           channel == Tail(proxy.channel)
           rx == IF m.type = "input" THEN proxy.file_upload_rx
                 ELSE Append(proxy.file_upload_rx, m)
<1>1. /\ proxy.channel \in Seq(Messages) /\ proxy.channel # <<>> /\ m \in Messages
      /\ channel \in Seq(Messages) /\ proxy.file_upload_rx \in Seq(Pieces)
      /\ proxy.file_upload_rx \in Seq(Messages)
  BY PiecesAreMessages DEF ReaderReads, IInv, UTypeOK
<1>2. proxy.up
  BY <1>1 DEF IInv
<1>3. rx \in Seq(Pieces)
  <2>1. m.type # "input" => m \in Pieces
    BY <1>1, MessageKinds DEF Pieces
  <2> QED BY <1>1, <2>1
<1>4. /\ proxy' = [proxy EXCEPT !.channel = channel, !.file_upload_rx = rx]
      /\ proxy'.up = proxy.up /\ proxy'.channel = channel /\ proxy'.file_upload_rx = rx
      /\ proxy'.active_uploads = proxy.active_uploads
  BY DEF ReaderReads, IInv, UTypeOK
<1>5. /\ UNCHANGED <<selected, ws, disk>>
      /\ stored' = stored \/ stored' = stored \ {m.upload}
  BY DEF ReaderReads
<1>6. ASSUME NEW u \in Uploads PROVE InLine(u)'
  <2>1. PICK a, b, c \in 0..(TotalChunks + 1) : Cut(u, a, b, c)
    BY DEF IInv, InLine
  <2>2. CASE \A k \in Numbers : m # Data(u, k)
    <3>1. Segment(channel, u, b, c)
      BY <1>1, <2>1, <2>2, SegmentTailOther DEF Cut
    <3>2. Segment(rx, u, a, b)
      BY <1>1, <2>1, <2>2, SegmentAppendOther DEF Cut
    <3> HIDE DEF channel, rx
    <3>3. Cut(u, a, b, c)'
      BY <1>4, <1>5, <2>1, <3>1, <3>2 DEF Cut
    <3> QED BY <3>3 DEF InLine
  <2>3. CASE \E k \in Numbers : m = Data(u, k)
    <3>1. PICK k \in Numbers : m = Data(u, k)
      BY <2>3
    <3>2. k = b /\ b < c /\ Segment(channel, u, b + 1, c)
      BY <1>1, <2>1, <3>1, SegmentTailNext DEF Cut
    <3>3. m.type # "input"
      BY <3>1, DataFields
    <3>4. Segment(rx, u, a, b + 1)
      BY <1>1, <2>1, <3>1, <3>2, <3>3, SegmentAppendNext DEF Cut
    <3> HIDE DEF channel, rx
    <3>5. Cut(u, a, b + 1, c)'
      BY <1>4, <1>5, <2>1, <3>2, <3>4 DEF Cut
    <3>6. b + 1 \in 0..(TotalChunks + 1)
      BY <3>2
    <3> QED BY <3>5, <3>6 DEF InLine
  <2> QED BY <2>2, <2>3
<1>7. stored' \subseteq Uploads /\ IsFiniteSet(stored')
  <2>1. IsFiniteSet(stored) /\ stored \subseteq Uploads
    BY DEF IInv, UTypeOK
  <2> HIDE DEF m
  <2>2. IsFiniteSet(stored \ {m.upload})
    BY <2>1, FS_RemoveElement
  <2> QED BY <1>5, <2>1, <2>2
<1> HIDE DEF channel, rx
<1>8. UTypeOK'
  <2>1. proxy' \in [up : BOOLEAN, channel : Seq(Messages), file_upload_rx : Seq(Pieces),
                    active_uploads : Known]
    BY <1>1, <1>3, <1>4 DEF IInv, UTypeOK
  <2> QED BY <2>1, <1>5, <1>7 DEF IInv, UTypeOK
<1>9. \A u \in Uploads : Beginning(u)'
  BY <1>5 DEF IInv, Beginning
<1> QED BY <1>2, <1>4, <1>6, <1>8, <1>9 DEF IInv

LEMMA MainTakesInputKeeps ==
  ASSUME IInv, MainTakesInput
  PROVE  IInv'
<1>1. UNCHANGED <<selected, ws, stored, proxy, disk>>
  BY DEF MainTakesInput
<1>2. UTypeOK'
  BY <1>1 DEF IInv, UTypeOK
<1>3. ASSUME NEW u \in Uploads PROVE InLine(u)' /\ Beginning(u)'
  <2>1. PICK a, b, c \in 0..(TotalChunks + 1) : Cut(u, a, b, c)
    BY DEF IInv, InLine
  <2>2. Cut(u, a, b, c)'
    BY <1>1, <2>1 DEF Cut
  <2>3. Beginning(u)'
    BY <1>1 DEF IInv, Beginning
  <2> QED BY <2>2, <2>3 DEF InLine
<1> QED BY <1>1, <1>2, <1>3 DEF IInv

\* What was on its way is lost; what the view still has may be sent.
LEMMA DisconnectsKeeps ==
  ASSUME IInv, Disconnects
  PROVE  IInv'
<1> USE UploadAssumption
<1>1. /\ proxy' = [proxy EXCEPT !.up = FALSE, !.channel = <<>>, !.file_upload_rx = <<>>]
      /\ ~proxy'.up /\ proxy'.channel = <<>> /\ proxy'.file_upload_rx = <<>>
      /\ UNCHANGED <<selected, ws, stored, disk>>
  BY DEF Disconnects, IInv, UTypeOK
<1>2. UTypeOK'
  <2>1. <<>> \in Seq(Messages) /\ <<>> \in Seq(Pieces)
    BY NothingKnown
  <2>2. proxy' \in [up : BOOLEAN, channel : Seq(Messages), file_upload_rx : Seq(Pieces),
                    active_uploads : Known]
    BY <1>1, <2>1 DEF IInv, UTypeOK
  <2> QED BY <2>2, <1>1 DEF IInv, UTypeOK
<1>3. ASSUME NEW u \in Uploads PROVE InLine(u)'
  <2>1. PICK a, b, c \in 0..(TotalChunks + 1) : Cut(u, a, b, c)
    BY DEF IInv, InLine
  <2>2. Segment(<<>>, u, c, c)
    BY SegmentOfNothing
  <2>3. Cut(u, c, c, c)'
    BY <1>1, <2>1, <2>2 DEF Cut
  <2> QED BY <2>3 DEF InLine
<1>4. \A u \in Uploads : Beginning(u)'
  BY <1>1 DEF IInv, Beginning
<1> QED BY <1>1, <1>2, <1>3, <1>4 DEF IInv

\* The next connection begins with the stored announcements and knows no upload.
LEMMA ReconnectsKeeps ==
  ASSUME IInv, Reconnects
  PROVE  IInv'
<1> USE UploadAssumption
<1>1. PICK order \in SetToSeqs(stored) :
        proxy' = [Fresh EXCEPT !.channel = [i \in DOMAIN order |-> Announce(order[i])]]
  BY DEF Reconnects
<1>2. UNCHANGED <<selected, ws, stored, disk>>
  BY DEF Reconnects
<1> DEFINE channel == [i \in DOMAIN order |-> Announce(order[i])]
<1>3. order \in [1..Cardinality(stored) -> stored] /\ Cardinality(stored) \in Nat
  BY FS_CardinalityType DEF SetToSeqs, IInv, UTypeOK
<1>4. \A i \in DOMAIN order : order[i] \in Uploads
  BY <1>3 DEF IInv, UTypeOK
<1>5. \A u \in Uploads : Announce(u) \in Messages
  BY DEF Messages, Pieces
<1>6. channel \in Seq(Messages) /\ Len(channel) = Cardinality(stored)
      /\ \A i \in 1..Len(channel) : channel[i] = Announce(order[i]) /\ order[i] \in Uploads
  BY <1>3, <1>4, <1>5
<1>7. /\ proxy' = [up |-> TRUE, channel |-> channel, file_upload_rx |-> <<>>,
                    active_uploads |-> <<>>]
      /\ proxy'.up /\ proxy'.channel = channel /\ proxy'.file_upload_rx = <<>>
      /\ proxy'.active_uploads = <<>>
  BY <1>1 DEF Fresh
<1> HIDE DEF channel
<1>8. UTypeOK'
  <2>1. <<>> \in Known /\ <<>> \in Seq(Messages) /\ <<>> \in Seq(Pieces)
    BY NothingKnown
  <2>2. proxy' \in [up : BOOLEAN, channel : Seq(Messages), file_upload_rx : Seq(Pieces),
                    active_uploads : Known]
    BY <1>6, <1>7, <2>1
  <2> QED BY <2>2, <1>2 DEF IInv, UTypeOK
<1>9. ASSUME NEW u \in Uploads PROVE InLine(u)'
  <2>1. PICK a, b, c \in 0..(TotalChunks + 1) : Cut(u, a, b, c)
    BY DEF IInv, InLine
  <2>2. Segment(<<>>, u, c, c)
    BY SegmentOfNothing
  <2>3. Segment(channel, u, c, c)
    BY <1>6, AnnounceFields DEF Segment, Numbers
  <2>4. Cut(u, c, c, c)'
    BY <1>2, <1>7, <2>1, <2>2, <2>3 DEF Cut
  <2> QED BY <2>4 DEF InLine
<1>10. \A u \in Uploads : Beginning(u)'
  BY <1>2 DEF IInv, Beginning
<1> QED BY <1>7, <1>8, <1>9, <1>10 DEF IInv

\* What the main loop knows of an upload after a piece.
LEMMA KnownUploads ==
  ASSUME NEW f \in Known, NEW u \in Uploads, NEW n \in Nat
  PROVE  /\ With(f, u, n) \in Known /\ With(f, u, n)[u] = n
         /\ DOMAIN With(f, u, n) = DOMAIN f \cup {u}
         /\ \A v \in DOMAIN f \ {u} : With(f, u, n)[v] = f[v]
         /\ Without(f, u) \in Known /\ DOMAIN Without(f, u) = DOMAIN f \ {u}
         /\ \A v \in DOMAIN f \ {u} : Without(f, u)[v] = f[v]
<1>1. PICK D \in SUBSET Uploads : f \in [D -> Nat]
  BY DEF Known
<1>2. With(f, u, n) \in [D \cup {u} -> Nat]
  BY <1>1 DEF With
<1>3. Without(f, u) \in [D \ {u} -> Nat]
  BY <1>1 DEF Without
<1>4. D \cup {u} \in SUBSET Uploads /\ D \ {u} \in SUBSET Uploads
  OBVIOUS
<1>5. With(f, u, n) \in Known /\ Without(f, u) \in Known
  BY <1>2, <1>3, <1>4 DEF Known
<1> QED BY <1>1, <1>5 DEF With, Without

\* A chunk written right behind the end makes the content one longer.
LEMMA WrittenBehind ==
  ASSUME NEW content \in Seq(Messages), NEW m \in Messages
  PROVE  /\ Written(content, Len(content) + 1, m) \in Seq(Messages)
         /\ Len(Written(content, Len(content) + 1, m)) = Len(content) + 1
         /\ Written(content, Len(content) + 1, m)[Len(content) + 1] = m
         /\ \A i \in 1..Len(content) : Written(content, Len(content) + 1, m)[i] = content[i]
<1> DEFINE n == Len(content) + 1
           w == Written(content, n, m)
<1>1. n \in Nat /\ n > Len(content)
  OBVIOUS
<1>2. w = [i \in 1..n |-> CASE i = n -> m
                             [] i # n /\ i <= Len(content) -> content[i]
                             [] OTHER -> [type |-> "gap"]]
  BY <1>1 DEF Written
<1>3. w[n] = m
  BY <1>1, <1>2
<1>4. \A i \in 1..Len(content) : w[i] = content[i]
  BY <1>1, <1>2
<1>5. \A i \in 1..n : w[i] \in Messages
  BY <1>1, <1>3, <1>4
<1> HIDE DEF w
<1>6. w \in [1..n -> Messages]
  BY <1>2, <1>5
<1>7. w \in Seq(Messages) /\ Len(w) = n
  BY <1>1, <1>6
<1> QED BY <1>3, <1>4, <1>7 DEF w

\* The piece at the head is of one upload: the others' files and positions stay.
LEMMA OthersKeep ==
  ASSUME IInv, Separate, proxy.file_upload_rx # <<>>,
         NEW u \in Uploads, Head(proxy.file_upload_rx).upload = u,
         NEW v \in Uploads, v # u,
         proxy'.up = proxy.up, proxy'.channel = proxy.channel,
         proxy'.file_upload_rx = Tail(proxy.file_upload_rx),
         v \in DOMAIN proxy'.active_uploads =>
           v \in DOMAIN proxy.active_uploads
             /\ proxy'.active_uploads[v] = proxy.active_uploads[v],
         disk'[Name[v]] = disk[Name[v]],
         UNCHANGED <<selected, ws>>
  PROVE  InLine(v)' /\ Beginning(v)'
<1>1. PICK a, b, c \in 0..(TotalChunks + 1) : Cut(v, a, b, c)
  BY DEF IInv, InLine
<1>2. proxy.file_upload_rx \in Seq(Messages)
  BY PiecesAreMessages DEF IInv, UTypeOK
<1>3. \A k \in Numbers : Head(proxy.file_upload_rx) # Data(v, k)
  BY DataFields
<1>4. Segment(Tail(proxy.file_upload_rx), v, a, b)
  BY <1>1, <1>2, <1>3, SegmentTailOther DEF Cut
<1>5. Cut(v, a, b, c)'
  BY <1>1, <1>4 DEF Cut
<1>6. Beginning(v)'
  BY DEF IInv, Beginning
<1> QED BY <1>5, <1>6 DEF InLine

\* A step that takes piece a of u and leaves u's file, as content, a beginning.
Takes(u, a, active, content) ==
  /\ proxy.file_upload_rx # <<>> /\ Head(proxy.file_upload_rx) = Data(u, a)
  /\ active \in Known /\ content \in Seq(Messages)
  /\ proxy' = [proxy EXCEPT !.file_upload_rx = Tail(@), !.active_uploads = active]
  /\ disk' = [disk EXCEPT ![Name[u]] = content]
  /\ UNCHANGED <<selected, ws, stored>>
  /\ DOMAIN active \subseteq DOMAIN proxy.active_uploads \cup {u}
  /\ \A v \in DOMAIN active : v # u => active[v] = proxy.active_uploads[v]
  /\ u \in DOMAIN active => active[u] = a /\ a < TotalChunks /\ Len(content) = a
  /\ Len(content) <= TotalChunks
  /\ \A i \in 1..Len(content) : content[i] = Chunk(u, i)

LEMMA TakesKeeps ==
  ASSUME IInv, Separate, NEW u \in Uploads,
         NEW a \in Numbers, NEW b \in 0..(TotalChunks + 1), NEW c \in 0..(TotalChunks + 1),
         Cut(u, a, b, c),
         NEW active, NEW content, Takes(u, a, active, content)
  PROVE  IInv'
<1> USE UploadAssumption DEF Takes
<1>1. /\ proxy.file_upload_rx \in Seq(Pieces) /\ proxy.file_upload_rx \in Seq(Messages)
      /\ Tail(proxy.file_upload_rx) \in Seq(Pieces)
      /\ disk \in [{Name[v] : v \in Uploads} -> Seq(Messages)]
  BY PiecesAreMessages DEF IInv, UTypeOK
<1>2. proxy.up
  BY DEF IInv
<1>3. a < b /\ Segment(Tail(proxy.file_upload_rx), u, a + 1, b)
  BY <1>1, SegmentTailNext DEF Cut, Numbers
<1>4. /\ proxy'.up = proxy.up /\ proxy'.channel = proxy.channel
      /\ proxy'.file_upload_rx = Tail(proxy.file_upload_rx)
      /\ proxy'.active_uploads = active
  BY DEF IInv, UTypeOK
<1>5. /\ disk'[Name[u]] = content
      /\ \A v \in Uploads : v # u => disk'[Name[v]] = disk[Name[v]]
  BY <1>1 DEF Separate
<1>6. UTypeOK'
  <2>1. proxy' \in [up : BOOLEAN, channel : Seq(Messages), file_upload_rx : Seq(Pieces),
                    active_uploads : Known]
    BY <1>1 DEF IInv, UTypeOK
  <2>2. disk' \in [{Name[v] : v \in Uploads} -> Seq(Messages)]
    BY <1>1
  <2> QED BY <2>1, <2>2 DEF IInv, UTypeOK
<1>7. InLine(u)' /\ Beginning(u)'
  <2>1. Cut(u, a + 1, b, c)'
    BY <1>3, <1>4, <1>5 DEF Cut, Numbers
  <2>2. Beginning(u)'
    BY <1>5 DEF Beginning
  <2>3. a + 1 \in 0..(TotalChunks + 1)
    BY DEF Numbers
  <2> QED BY <2>1, <2>2, <2>3 DEF InLine
<1>8. ASSUME NEW v \in Uploads, v # u PROVE InLine(v)' /\ Beginning(v)'
  <2>1. Head(proxy.file_upload_rx).upload = u
    BY DataFields
  <2> QED BY <1>4, <1>5, <1>8, <2>1, OthersKeep
<1> QED BY <1>2, <1>4, <1>6, <1>7, <1>8 DEF IInv

\* A piece is the next of its upload: it is written where it belongs, if at all.
LEMMA HandleKeeps ==
  ASSUME IInv, Separate, handle_file_upload
  PROVE  IInv'
<1> USE UploadAssumption
<1>1. /\ proxy.file_upload_rx # <<>>
      /\ UploadEvent(Head(proxy.file_upload_rx)) \/ FileFails(Head(proxy.file_upload_rx))
      /\ UNCHANGED <<selected, ws, stored>>
  BY DEF handle_file_upload
<1>2. /\ proxy.file_upload_rx \in Seq(Pieces) /\ proxy.file_upload_rx \in Seq(Messages)
      /\ Head(proxy.file_upload_rx) \in Pieces
      /\ proxy.active_uploads \in Known
      /\ disk \in [{Name[v] : v \in Uploads} -> Seq(Messages)]
  BY <1>1, PiecesAreMessages DEF IInv, UTypeOK
<1>3. PICK u \in Uploads, n \in Numbers : Head(proxy.file_upload_rx) = Data(u, n)
  BY <1>2 DEF Pieces
<1>4. PICK a, b, c \in 0..(TotalChunks + 1) : Cut(u, a, b, c)
  BY DEF IInv, InLine
<1>5. n = a
  BY <1>1, <1>2, <1>3, <1>4, SegmentTailNext DEF Cut
<1>6. a \in Numbers /\ Head(proxy.file_upload_rx) = Data(u, a)
  BY <1>3, <1>5
<1>7. proxy.up
  BY <1>1 DEF IInv
<1>8. /\ Data(u, a).type = IF a = 0 THEN "start" ELSE "chunk"
      /\ Data(u, a).upload = u
  BY <1>6, DataFields
<1>9. Name[u] \in DOMAIN disk /\ disk[Name[u]] \in Seq(Messages) /\ Beginning(u)
  BY <1>2 DEF IInv
<1>10. UploadEvent(Data(u, a)) \/ FileFails(Data(u, a))
  BY <1>1, <1>6
<1>11. LET f == proxy.active_uploads IN
       /\ With(f, u, a) \in Known /\ With(f, u, a)[u] = a
       /\ DOMAIN With(f, u, a) = DOMAIN f \cup {u}
       /\ \A v \in DOMAIN f \ {u} : With(f, u, a)[v] = f[v]
       /\ Without(f, u) \in Known /\ DOMAIN Without(f, u) = DOMAIN f \ {u}
       /\ \A v \in DOMAIN f \ {u} : Without(f, u)[v] = f[v]
  <2>1. PICK f \in Known : f = proxy.active_uploads
    BY <1>2
  <2>2. a \in Nat
    OBVIOUS
  <2>3. /\ With(f, u, a) \in Known /\ With(f, u, a)[u] = a
        /\ DOMAIN With(f, u, a) = DOMAIN f \cup {u}
        /\ \A v \in DOMAIN f \ {u} : With(f, u, a)[v] = f[v]
        /\ Without(f, u) \in Known /\ DOMAIN Without(f, u) = DOMAIN f \ {u}
        /\ \A v \in DOMAIN f \ {u} : Without(f, u)[v] = f[v]
    BY <2>2, KnownUploads, Zenon
  <2> QED BY <2>1, <2>3
<1>12. ASSUME u \notin DOMAIN proxy.active_uploads,
              proxy' = [proxy EXCEPT !.file_upload_rx = Tail(@)], UNCHANGED disk
       PROVE  IInv'
  <2> DEFINE active == proxy.active_uploads
             content == disk[Name[u]]
  <2>1. proxy' = [proxy EXCEPT !.file_upload_rx = Tail(@), !.active_uploads = active]
    BY <1>12 DEF IInv, UTypeOK
  <2>2. disk' = [disk EXCEPT ![Name[u]] = content]
    BY <1>2, <1>9, <1>12
  <2>3. Len(content) <= TotalChunks /\ \A i \in 1..Len(content) : content[i] = Chunk(u, i)
    BY <1>9 DEF Beginning
  <2>4. active \in Known /\ content \in Seq(Messages) /\ u \notin DOMAIN active
        /\ DOMAIN active \subseteq DOMAIN proxy.active_uploads \cup {u}
        /\ \A v \in DOMAIN active : v # u => active[v] = proxy.active_uploads[v]
    BY <1>2, <1>9, <1>12
  <2> HIDE DEF active, content
  <2>5. Takes(u, a, active, content)
    BY <1>1, <1>6, <2>1, <2>2, <2>3, <2>4 DEF Takes
  <2> QED BY <1>4, <1>6, <2>5, TakesKeeps
<1>13. CASE FileFails(Data(u, a))
  <2>1. a = 0
    BY <1>8, <1>13 DEF FileFails, Separate
  <2>2. u \notin DOMAIN proxy.active_uploads
    BY <2>1, <1>4, <1>7 DEF Cut
  <2> QED BY <2>2, <1>12, <1>13 DEF FileFails
<1>14. CASE UploadEvent(Data(u, a)) /\ a = 0
  <2> DEFINE active == With(proxy.active_uploads, u, a)
  <2>1. /\ disk' = [disk EXCEPT ![Name[u]] = <<>>]
        /\ proxy' = [proxy EXCEPT !.file_upload_rx = Tail(@), !.active_uploads = With(@, u, 0)]
    BY <1>8, <1>14 DEF UploadEvent
  <2>2. proxy' = [proxy EXCEPT !.file_upload_rx = Tail(@), !.active_uploads = active]
    BY <1>14, <2>1
  <2>3. /\ active \in Known /\ active[u] = a
        /\ DOMAIN active \subseteq DOMAIN proxy.active_uploads \cup {u}
        /\ \A v \in DOMAIN active : v # u => active[v] = proxy.active_uploads[v]
    BY <1>11
  <2> DEFINE content == <<>>
  <2>4. content \in Seq(Messages) /\ Len(content) = 0
    BY NothingKnown
  <2>5. disk' = [disk EXCEPT ![Name[u]] = content]
    BY <2>1
  <2> HIDE DEF active, content
  <2>6. \A i \in 1..Len(content) : content[i] = Chunk(u, i)
    BY <2>4
  <2>7. u \in DOMAIN active => active[u] = a /\ a < TotalChunks /\ Len(content) = a
    BY <1>14, <2>3, <2>4
  <2>8. Len(content) <= TotalChunks
    BY <2>4
  <2>9. Takes(u, a, active, content)
    BY <1>1, <1>6, <2>2, <2>3, <2>4, <2>5, <2>6, <2>7, <2>8 DEF Takes
  <2> QED BY <1>4, <1>6, <2>9, TakesKeeps
<1>15. CASE UploadEvent(Data(u, a)) /\ a # 0 /\ u \notin DOMAIN proxy.active_uploads
  BY <1>8, <1>12, <1>15 DEF UploadEvent
<1>16. CASE UploadEvent(Data(u, a)) /\ a # 0 /\ u \in DOMAIN proxy.active_uploads
  <2> DEFINE active == IF a >= TotalChunks THEN Without(proxy.active_uploads, u)
                       ELSE With(proxy.active_uploads, u, a)
             content == Written(disk[Name[u]], a, Data(u, a))
  <2>1. /\ 0 < a /\ a <= TotalChunks /\ proxy.active_uploads[u] + 1 = a
        /\ a = Len(disk[Name[u]]) + 1
    BY <1>4, <1>7, <1>9, <1>16 DEF Cut
  <2>2. /\ disk' = [disk EXCEPT ![Name[u]] = Written(@, a, Data(u, a))]
        /\ proxy' = [proxy EXCEPT !.file_upload_rx = Tail(@),
                       !.active_uploads = IF a >= TotalChunks THEN Without(@, u)
                                          ELSE With(@, u, a)]
    BY <1>8, <1>16, <2>1 DEF UploadEvent
  <2>3. /\ disk' = [disk EXCEPT ![Name[u]] = content]
        /\ proxy' = [proxy EXCEPT !.file_upload_rx = Tail(@), !.active_uploads = active]
    BY <2>2
  <2>4. /\ active \in Known
        /\ DOMAIN active \subseteq DOMAIN proxy.active_uploads \cup {u}
        /\ \A v \in DOMAIN active : v # u => active[v] = proxy.active_uploads[v]
        /\ u \in DOMAIN active => active[u] = a /\ a < TotalChunks
    BY <1>11
  <2>5. Data(u, a) \in Messages /\ Data(u, a) = Chunk(u, a)
    BY <1>6, <2>1 DEF Data, Messages, Pieces
  <2>6. /\ content \in Seq(Messages) /\ Len(content) = a /\ content[a] = Chunk(u, a)
        /\ \A i \in 1..(a - 1) : content[i] = disk[Name[u]][i]
    <3>1. PICK old \in Seq(Messages) : old = disk[Name[u]]
      BY <1>9
    <3>2. PICK piece \in Messages : piece = Data(u, a)
      BY <2>5
    <3>3. /\ Written(old, Len(old) + 1, piece) \in Seq(Messages)
          /\ Len(Written(old, Len(old) + 1, piece)) = Len(old) + 1
          /\ Written(old, Len(old) + 1, piece)[Len(old) + 1] = piece
          /\ \A i \in 1..Len(old) : Written(old, Len(old) + 1, piece)[i] = old[i]
      BY WrittenBehind
    <3>4. content = Written(old, Len(old) + 1, piece) /\ a = Len(old) + 1 /\ a - 1 = Len(old)
      BY <2>1, <3>1, <3>2
    <3> QED BY <2>5, <3>1, <3>2, <3>3, <3>4
  <2> HIDE DEF content, active
  <2>7. \A i \in 1..Len(content) : content[i] = Chunk(u, i)
    <3> TAKE i \in 1..Len(content)
    <3>1. CASE i = a
      BY <3>1, <2>6
    <3>2. CASE i # a
      <4>1. i \in 1..(a - 1) /\ i \in 1..Len(disk[Name[u]])
        BY <3>2, <2>1, <2>6
      <4> QED BY <4>1, <2>6, <1>9 DEF Beginning
    <3> QED BY <3>1, <3>2
  <2>8. u \in DOMAIN active => active[u] = a /\ a < TotalChunks /\ Len(content) = a
    BY <2>4, <2>6
  <2>9. Len(content) <= TotalChunks
    BY <2>1, <2>6
  <2>10. Takes(u, a, active, content)
    BY <1>1, <1>6, <2>3, <2>4, <2>6, <2>7, <2>8, <2>9 DEF Takes
  <2> QED BY <1>4, <1>6, <2>10, TakesKeeps
<1> QED BY <1>10, <1>13, <1>14, <1>15, <1>16

-----------------------------------------------------------------------------
(* The theorems.                                                            *)

LEMMA NextKeeps ==
  ASSUME IInv, Separate, [UNext]_uvars
  PROVE  IInv'
<1>1. ASSUME NEW u \in Uploads,
             FilesSelected(u) \/ SocketLost(u) \/ handle_file_upload_start(u)
               \/ handle_file_upload_chunk(u) \/ handle_announcement(u)
      PROVE  IInv'
  BY <1>1, FilesSelectedKeeps, SocketLostKeeps, StartKeeps, ChunkKeeps, AnnouncementKeeps
<1>2. CASE UNCHANGED uvars
  <2>1. UNCHANGED <<selected, ws, stored, proxy, disk>>
    BY <1>2 DEF uvars
  <2>2. UTypeOK'
    BY <2>1 DEF IInv, UTypeOK
  <2>3. ASSUME NEW u \in Uploads PROVE InLine(u)' /\ Beginning(u)'
    <3>1. PICK a, b, c \in 0..(TotalChunks + 1) : Cut(u, a, b, c)
      BY DEF IInv, InLine
    <3>2. Cut(u, a, b, c)'
      BY <2>1, <3>1 DEF Cut
    <3>3. Beginning(u)'
      BY <2>1 DEF IInv, Beginning
    <3> QED BY <3>2, <3>3 DEF InLine
  <2> QED BY <2>1, <2>2, <2>3 DEF IInv
<1>3. CASE ReaderReads \/ handle_file_upload \/ MainTakesInput \/ Disconnects \/ Reconnects
  BY <1>3, ReaderReadsKeeps, HandleKeeps, MainTakesInputKeeps, DisconnectsKeeps, ReconnectsKeeps
<1> QED BY <1>1, <1>2, <1>3 DEF UNext

\* The strengthening holds for every number of uploads, chunks and lost connections,
\* when uploads have files of their own and writing to a file does not fail.
THEOREM UploadInvariance == Separate => (USpec => []IInv)
<1> SUFFICES ASSUME Separate PROVE USpec => []IInv
  OBVIOUS
<1>1. UInit => IInv
  BY InitIInv
<1>2. IInv /\ [UNext]_uvars => IInv'
  BY NextKeeps
<1> QED BY <1>1, <1>2, PTL DEF USpec

\* What lost connections, lost sockets and files that cannot be created leave of an
\* upload is a beginning of its file: mod.rs:758-760 takes pieces in their order, and
\* a connection forgets its uploads (mod.rs:658).
THEOREM ReceivedAreBeginnings == Separate => (USpec => []FilesAreBeginnings)
<1>1. IInv => FilesAreBeginnings
  <2> SUFFICES ASSUME IInv, NEW u \in Uploads PROVE IsPrefix(disk[Name[u]], Content(u))
    BY DEF FilesAreBeginnings
  <2> DEFINE content == disk[Name[u]]
  <2>1. content \in Seq(Messages) /\ Beginning(u)
    BY DEF IInv, UTypeOK
  <2>2. Len(content) \in Nat /\ Len(content) <= TotalChunks
        /\ \A i \in 1..Len(content) : content[i] = Chunk(u, i)
    BY <2>1 DEF Beginning
  <2>3. Len(Content(u)) = TotalChunks /\ \A i \in 1..TotalChunks : Content(u)[i] = Chunk(u, i)
    BY UploadAssumption DEF Content
  <2> HIDE DEF content
  <2>4. SubSeq(content, 1, Len(content)) = [i \in 1..Len(content) |-> Chunk(u, i)]
    BY <2>1, <2>2
  <2>5. SubSeq(Content(u), 1, Len(content)) = [i \in 1..Len(content) |-> Chunk(u, i)]
    BY <2>2, <2>3, UploadAssumption DEF Content
  <2> QED BY <2>2, <2>3, <2>4, <2>5 DEF IsPrefix, content
<1> QED BY <1>1, UploadInvariance, PTL

-----------------------------------------------------------------------------
(***************************************************************************)
(* Part 3.  Panels and Records                                             *)
(***************************************************************************)
-----------------------------------------------------------------------------
(* The types of the tables, of requests, dialogs and pages.                 *)

Accounts == [admin : BOOLEAN, disabled : BOOLEAN, voice : BOOLEAN]
UserTable == [Users -> Accounts]
Token == [user : Users, revoked : BOOLEAN, hash : Nat]
Changes == {"admin", "disabled", "voice"} \X BOOLEAN

MemberOps == {"add_session_member", "remove_session_member", "update_session_member_role"}
DeleteOps == {"delete_session", "admin_delete_session"}
DialogOps == DeleteOps \cup {"update_user", "revoke_token", "renew_token"}
\* Requests whose answer becomes a list that is not the users'.
OtherLists == DeleteOps \cup {"revoke_token", "list_all_sessions", "list_sessions", "list_tokens",
                              "list_session_members"}

RequestOK(r) ==
  /\ r \in [by : Users, op : {r.op}, on : {r.on}, val : {r.val}, list : {r.list}, pc : {r.pc},
            got : {r.got}, ids : {r.ids}]
  /\ r.op = "update_user" =>
       /\ r.on \in Users /\ r.val \in Changes /\ r.list \in UserTable
       /\ r.pc = "members" => \A s \in r.ids : Owner[s] = r.on
  /\ r.op = "list_users" => r.val = "users" /\ r.got \in UserTable \cup {None}
  /\ r.op \in OtherLists => r.val # "users"
  /\ r.op \in MemberOps =>
       /\ r.on \in Sessions /\ r.val \in Users \X (Roles \cup {None})
       /\ r.op # "remove_session_member" => r.val[2] \in Roles
       /\ r.pc \in {"insert", "delete", "update"} => r.val[1] # Owner[r.on]
  /\ r.op = "register" => r.on \in Sessions
  /\ r.op = "create_token" => "tokens" \in Shown

DialogOK(d) ==
  /\ d.op \in DialogOps
  /\ d.op = "update_user" => d.on \in Users /\ d.val \in Changes /\ d.list \in UserTable
  /\ d.op # "update_user" => d.val # "users"

PTypeOK ==
  /\ users \in UserTable /\ tokens \in Seq(Token) /\ sessions \subseteq Sessions
  /\ members \in [Sessions -> [Users -> Roles \cup {"owner", None}]]
  /\ requests = [i \in Slots |-> requests[i]]
  /\ \A i \in Slots : requests[i] = Idle \/ RequestOK(requests[i])
  /\ dialog = [u \in Actors |-> dialog[u]]
  /\ page = [u \in Actors |-> page[u]]
  /\ \A u \in Actors :
       /\ dialog[u] = None \/ DialogOK(dialog[u])
       /\ dialog[u] # None /\ dialog[u].op = "update_user" => page[u]["users"] \in UserTable
       /\ page[u] = [p \in Pages |-> page[u][p]]
       /\ page[u]["users"] \in UserTable \cup {None}

-----------------------------------------------------------------------------
(* The strengthening.                                                       *)

\* The request r accounts for session s being without its owner for the moment.
Excuses(r, s) ==
  \/ r.op = "register" /\ r.pc = "owner" /\ r.on = s
  \/ r.op \in DeleteOps /\ r.pc = "delete" /\ r.on = s
  \/ r.op = "update_user" /\ r.pc = "delete" /\ r.on = Owner[s]

Owned ==
  /\ \A s \in Sessions : \A u \in Users :
       /\ members[s][u] = "owner" => u = Owner[s]
       /\ members[s][u] # None => s \in sessions
  /\ \A s \in Sessions : members[s][Owner[s]] \in {"owner", None}
  /\ \A s \in sessions :
       members[s][Owner[s]] = "owner" \/ \E i \in Slots : Excuses(requests[i], s)

\* The token that the proxy of a registration has is its owner's.
OwnTokens ==
  \A i \in Slots : requests[i].op = "register" /\ requests[i].pc # "idle" =>
    /\ requests[i].val[1] \in DOMAIN tokens
    /\ tokens[requests[i].val[1]].user = Owner[requests[i].on]

\* One request at a time: what its next step relies on, and what is left of a ban.
Serial ==
  LET r == requests[1] banning == r.op = "update_user" IN
  /\ AnAdminRemains
  /\ banning /\ r.pc = "update" => MayUpdate(r)
  /\ r.op = "register" /\ r.pc \in {"insert", "owner"} => ~users[Owner[r.on]].disabled
  /\ \A u \in Users : users[u].disabled =>
       /\ (\A t \in TokensOf(u) : tokens[t].revoked) \/ (banning /\ r.pc = "revoke" /\ r.on = u)
       /\ \/ OwnedBy(u) = {}
          \/ banning /\ r.pc \in {"revoke", "sessions", "members", "delete"} /\ r.on = u

PInv ==
  /\ PTypeOK /\ Owned /\ OwnTokens
  /\ Slots = {1} /\ Administrators # {} /\ "tokens" \notin Shown => Serial
LEMMA NoneIsNoRole == None # "owner" /\ None \notin Roles
BY RecordsAssumption

-----------------------------------------------------------------------------
(* Requests and their slots.                                                *)

LEMMA PcChanged ==
  ASSUME NEW r, RequestOK(r), NEW p, r.op = "update_user" => p # "members",
         r.op \in MemberOps /\ p \in {"insert", "delete", "update"} => r.val[1] # Owner[r.on]
  PROVE  LET q == [r EXCEPT !.pc = p] IN
         /\ RequestOK(q) /\ q.pc = p /\ q.by = r.by /\ q.op = r.op /\ q.on = r.on
         /\ q.val = r.val /\ q.list = r.list /\ q.ids = r.ids /\ q.got = r.got
<1> DEFINE q == [r EXCEPT !.pc = p]
<1>1. /\ q.pc = p /\ q.by = r.by /\ q.op = r.op /\ q.on = r.on
      /\ q.val = r.val /\ q.list = r.list /\ q.ids = r.ids /\ q.got = r.got
      /\ q \in [by : Users, op : {r.op}, on : {r.on}, val : {r.val}, list : {r.list}, pc : {p},
                got : {r.got}, ids : {r.ids}]
  BY DEF RequestOK
<1> HIDE DEF q
<1>2. RequestOK(q)
  BY <1>1 DEF RequestOK
<1> QED BY <1>1, <1>2 DEF q

WithAnswer(r, g) == [r EXCEPT !.pc = "answered", !.got = g]

LEMMA AnswerGiven ==
  ASSUME NEW r, RequestOK(r), NEW g, r.op = "list_users" => g \in UserTable \cup {None}
  PROVE  LET q == WithAnswer(r, g) IN
         /\ RequestOK(q) /\ q.pc = "answered" /\ q.by = r.by /\ q.op = r.op /\ q.on = r.on
         /\ q.val = r.val /\ q.list = r.list /\ q.got = g
<1> DEFINE q == WithAnswer(r, g)
<1>1. /\ q.pc = "answered" /\ q.by = r.by /\ q.op = r.op /\ q.on = r.on
      /\ q.val = r.val /\ q.list = r.list /\ q.ids = r.ids /\ q.got = g
      /\ q \in [by : Users, op : {r.op}, on : {r.on}, val : {r.val}, list : {r.list},
                pc : {"answered"}, got : {g}, ids : {r.ids}]
  BY DEF RequestOK, WithAnswer
<1> HIDE DEF q
<1>2. RequestOK(q)
  BY <1>1 DEF RequestOK
<1> QED BY <1>1, <1>2 DEF q

\* A step changes the request in slot i.
Slot(i) ==
  /\ requests' = [requests EXCEPT ![i] = requests'[i]]
  /\ requests'[i] = Idle \/ RequestOK(requests'[i])

LEMMA SlotFacts ==
  ASSUME PTypeOK, NEW i \in Slots, Slot(i)
  PROVE  /\ Slots' = Slots /\ requests' = [j \in Slots |-> requests'[j]]
         /\ \A j \in Slots : j # i => requests'[j] = requests[j]
         /\ \A j \in Slots : requests'[j] = Idle \/ RequestOK(requests'[j])
BY DEF PTypeOK, Slot, Slots

LEMMA Taken ==
  ASSUME PTypeOK, NEW i \in Slots, requests[i].pc # "idle"
  PROVE  RequestOK(requests[i])
BY DEF PTypeOK, Idle

LEMMA GotoSlot ==
  ASSUME PTypeOK, NEW i \in Slots, requests[i].pc # "idle", NEW p, Goto(i, p), p # "idle",
         requests[i].op = "update_user" => p # "members",
         requests[i].op \in MemberOps /\ p \in {"insert", "delete", "update"} =>
           requests[i].val[1] # Owner[requests[i].on]
  PROVE  /\ Slot(i) /\ RequestOK(requests[i]) /\ RequestOK(requests'[i])
         /\ requests'[i].pc = p /\ requests'[i].by = requests[i].by
         /\ requests'[i].op = requests[i].op /\ requests'[i].on = requests[i].on
         /\ requests'[i].val = requests[i].val /\ requests'[i].ids = requests[i].ids
<1>1. RequestOK(requests[i])
  BY Taken
<1>2. /\ requests' = [requests EXCEPT ![i] = requests'[i]]
      /\ requests'[i] = [requests[i] EXCEPT !.pc = p]
  BY DEF Goto, PTypeOK, Slots
<1>3. LET q == [requests[i] EXCEPT !.pc = p] IN
      /\ RequestOK(q) /\ q.pc = p /\ q.by = requests[i].by /\ q.op = requests[i].op
      /\ q.on = requests[i].on /\ q.val = requests[i].val /\ q.ids = requests[i].ids
  BY <1>1, PcChanged
<1> QED BY <1>1, <1>2, <1>3 DEF Slot

LEMMA AnswerSlot ==
  ASSUME PTypeOK, NEW i \in Slots, requests[i].pc # "idle", NEW g, Answer(i, g),
         requests[i].op = "list_users" => g \in UserTable \cup {None}
  PROVE  /\ Slot(i) /\ RequestOK(requests[i]) /\ RequestOK(requests'[i])
         /\ requests'[i].pc = "answered" /\ requests'[i].by = requests[i].by
         /\ requests'[i].op = requests[i].op /\ requests'[i].on = requests[i].on
         /\ requests'[i].val = requests[i].val
<1>1. RequestOK(requests[i])
  BY Taken
<1>2. /\ requests' = [requests EXCEPT ![i] = requests'[i]]
      /\ requests'[i] = WithAnswer(requests[i], g)
  BY DEF Answer, PTypeOK, Slots, WithAnswer
<1>3. /\ RequestOK(requests'[i]) /\ requests'[i].pc = "answered"
      /\ requests'[i].by = requests[i].by /\ requests'[i].op = requests[i].op
      /\ requests'[i].on = requests[i].on /\ requests'[i].val = requests[i].val
  BY <1>1, <1>2, AnswerGiven
<1> QED BY <1>1, <1>2, <1>3 DEF Slot

LEMMA FinishSlot ==
  ASSUME PTypeOK, NEW i \in Slots, Finish(i)
  PROVE  Slot(i) /\ requests'[i] = Idle /\ requests'[i].pc = "idle"
<1>1. /\ requests' = [requests EXCEPT ![i] = requests'[i]] /\ requests'[i] = Idle
  BY DEF Finish, PTypeOK, Slots
<1> QED BY <1>1 DEF Slot, Idle

LEMMA NewSlot ==
  ASSUME PTypeOK, NEW by \in Users, NEW op, NEW on, NEW val, NEW list,
         Request(by, op, on, val, list),
         op = "update_user" => on \in Users /\ val \in Changes /\ list \in UserTable,
         op = "list_users" => val = "users",
         op \in OtherLists => val # "users",
         op \in MemberOps => /\ on \in Sessions /\ val \in Users \X (Roles \cup {None})
                             /\ op # "remove_session_member" => val[2] \in Roles,
         op = "register" => on \in Sessions,
         op = "create_token" => "tokens" \in Shown
  PROVE  \E i \in Slots :
           /\ Slot(i) /\ requests[i].pc = "idle"
           /\ RequestOK(requests'[i]) /\ requests'[i].pc = "start" /\ requests'[i].op = op
           /\ requests'[i].on = on /\ requests'[i].val = val
<1> DEFINE r == [by |-> by, op |-> op, on |-> on, val |-> val, list |-> list,
                 pc |-> "start", got |-> None, ids |-> {}]
<1>1. PICK i \in Slots : requests[i] = Idle /\ requests' = [requests EXCEPT ![i] = r]
  BY DEF Request
<1>2. requests' = [requests EXCEPT ![i] = requests'[i]] /\ requests'[i] = r
  BY <1>1 DEF PTypeOK, Slots
<1>3. /\ r.by = by /\ r.op = op /\ r.on = on /\ r.val = val /\ r.list = list /\ r.pc = "start"
      /\ r.got = None /\ r.ids = {}
      /\ r \in [by : Users, op : {r.op}, on : {r.on}, val : {r.val}, list : {r.list}, pc : {r.pc},
                got : {r.got}, ids : {r.ids}]
  OBVIOUS
<1> HIDE DEF r
<1>4. RequestOK(r)
  BY <1>3 DEF RequestOK
<1>5. Slot(i) /\ requests[i].pc = "idle"
  BY <1>1, <1>2, <1>4 DEF Slot, Idle
<1>6. RequestOK(requests'[i])
  BY <1>2, <1>4
<1> QED BY <1>2, <1>3, <1>5, <1>6

LEMMA TypesKept ==
  ASSUME PTypeOK, NEW i \in Slots, Slot(i), users' \in UserTable, tokens' \in Seq(Token),
         sessions' \subseteq Sessions, UNCHANGED <<page, dialog>>,
         members' \in [Sessions -> [Users -> Roles \cup {"owner", None}]]
  PROVE  PTypeOK'
<1>1. /\ Slots' = Slots /\ requests' = [j \in Slots |-> requests'[j]]
      /\ \A j \in Slots : requests'[j] = Idle \/ RequestOK(requests'[j])
  BY SlotFacts
<1> QED BY <1>1 DEF PTypeOK

-----------------------------------------------------------------------------
(* Steps that leave the tables.                                             *)

OneByOne == Slots = {1} /\ Administrators # {} /\ "tokens" \notin Shown

LEMMA OwnTokensKept ==
  ASSUME PInv, NEW i \in Slots, Slot(i),
         \A t \in DOMAIN tokens : t \in DOMAIN tokens' /\ tokens'[t].user = tokens[t].user,
         requests'[i].op = "register" /\ requests'[i].pc # "idle" =>
           \/ /\ requests[i].op = "register" /\ requests[i].pc # "idle"
              /\ requests'[i].val = requests[i].val /\ requests'[i].on = requests[i].on
           \/ /\ requests'[i].val[1] \in DOMAIN tokens
              /\ tokens[requests'[i].val[1]].user = Owner[requests'[i].on]
  PROVE  OwnTokens'
<1> SUFFICES ASSUME NEW j \in Slots, requests'[j].op = "register", requests'[j].pc # "idle"
             PROVE  /\ requests'[j].val[1] \in DOMAIN tokens'
                    /\ tokens'[requests'[j].val[1]].user = Owner[requests'[j].on]
  BY SlotFacts DEF OwnTokens, PInv
<1>1. CASE j # i
  <2>1. requests'[j] = requests[j]
    BY <1>1, SlotFacts DEF PInv
  <2> QED BY <2>1 DEF PInv, OwnTokens
<1>2. CASE j = i
  BY <1>2 DEF PInv, OwnTokens
<1> QED BY <1>1, <1>2

LEMMA OwnedKept ==
  ASSUME PInv, NEW i \in Slots, Slot(i), UNCHANGED <<sessions, members>>,
         \A s \in Sessions : Excuses(requests[i], s) => Excuses(requests'[i], s)
  PROVE  Owned'
<1>1. Slots' = Slots /\ \A j \in Slots : j # i => requests'[j] = requests[j]
  BY SlotFacts DEF PInv
<1>2. ASSUME NEW s \in sessions, NEW j \in Slots, Excuses(requests[j], s)
      PROVE  \E k \in Slots : Excuses(requests'[k], s)
  BY <1>1, <1>2 DEF PInv, PTypeOK
<1> QED BY <1>1, <1>2 DEF PInv, Owned

LEMMA SerialKept ==
  ASSUME PInv, OneByOne, UNCHANGED <<users, tokens, sessions>>,
         ~(requests[1].op = "update_user"
           /\ requests[1].pc \in {"revoke", "sessions", "members", "delete"}),
         requests'[1].op = "update_user" /\ requests'[1].pc = "update" => MayUpdate(requests'[1]),
         requests'[1].op = "register" /\ requests'[1].pc \in {"insert", "owner"} =>
           ~users[Owner[requests'[1].on]].disabled
  PROVE  Serial'
<1>1. Serial
  BY DEF PInv, OneByOne
<1>2. AnAdminRemains'
  BY <1>1 DEF Serial, AnAdminRemains, require_admin
<1>3. requests'[1].op = "update_user" /\ requests'[1].pc = "update" => MayUpdate(requests[1])'
  BY DEF MayUpdate, require_admin
<1>4. ASSUME NEW u \in Users, users[u].disabled
      PROVE  (\A t \in TokensOf(u)' : tokens'[t].revoked) /\ OwnedBy(u)' = {}
  BY <1>1, <1>4 DEF Serial, TokensOf, OwnedBy
<1> QED BY <1>2, <1>3, <1>4 DEF Serial

\* A step of a handler or of a page, when it leaves the tables.
LEMMA TablesKept ==
  ASSUME PInv, NEW i \in Slots, Slot(i), PTypeOK', UNCHANGED <<users, tokens, sessions, members>>,
         \A s \in Sessions : ~Excuses(requests[i], s),
         ~(requests[i].op = "update_user"
           /\ requests[i].pc \in {"revoke", "sessions", "members", "delete"}),
         requests'[i].op = "update_user" /\ requests'[i].pc = "update" => MayUpdate(requests'[i]),
         requests'[i].op = "register" /\ requests'[i].pc \in {"insert", "owner"} =>
           ~users[Owner[requests'[i].on]].disabled,
         requests'[i].op = "register" /\ requests'[i].pc # "idle" =>
           \/ /\ requests[i].op = "register" /\ requests[i].pc # "idle"
              /\ requests'[i].val = requests[i].val /\ requests'[i].on = requests[i].on
           \/ /\ requests'[i].val[1] \in DOMAIN tokens
              /\ tokens[requests'[i].val[1]].user = Owner[requests'[i].on]
  PROVE  PInv'
<1>1. OwnTokens'
  BY OwnTokensKept
<1>2. Owned'
  BY OwnedKept
<1>3. ASSUME OneByOne' PROVE Serial'
  <2>1. OneByOne /\ i = 1
    BY <1>3, SlotFacts DEF OneByOne, PInv
  <2> QED BY <2>1, SerialKept
<1> QED BY <1>1, <1>2, <1>3 DEF PInv, OneByOne

\* Where a handler has changed nothing yet.
Early == {"start", "verify", "reactivate"}

LEMMA GotoKept ==
  ASSUME PInv, NEW i \in Slots, requests[i].pc \in Early, NEW p, p # "idle", Goto(i, p),
         UNCHANGED <<users, tokens, sessions, members, page, dialog>>,
         requests[i].op = "update_user" => p = "update" /\ MayUpdate(requests[i]),
         requests[i].op \in MemberOps => requests[i].val[1] # Owner[requests[i].on],
         requests[i].op = "register" =>
           \/ p \in {"verify", "reactivate"}
           \/ p = "insert" /\ ~users[Owner[requests[i].on]].disabled
  PROVE  PInv'
<1>1. PTypeOK /\ requests[i].pc # "idle"
  BY DEF PInv, Early
<1>2. /\ Slot(i) /\ RequestOK(requests[i]) /\ RequestOK(requests'[i])
      /\ requests'[i].pc = p /\ requests'[i].by = requests[i].by
      /\ requests'[i].op = requests[i].op /\ requests'[i].on = requests[i].on
      /\ requests'[i].val = requests[i].val
  BY <1>1, GotoSlot
<1>3. PTypeOK'
  <2>1. /\ users' \in UserTable /\ tokens' \in Seq(Token) /\ sessions' \subseteq Sessions
        /\ members' \in [Sessions -> [Users -> Roles \cup {"owner", None}]]
    BY <1>1 DEF PTypeOK
  <2> QED BY <1>1, <1>2, <2>1, TypesKept
<1>4. MayUpdate(requests[i]) => MayUpdate(requests'[i])
  BY <1>2 DEF MayUpdate
<1>5. \A s \in Sessions : ~Excuses(requests[i], s)
  BY DEF Excuses, Early
<1>6. ~(requests[i].op = "update_user"
         /\ requests[i].pc \in {"revoke", "sessions", "members", "delete"})
  BY DEF Early
<1> QED BY <1>1, <1>2, <1>3, <1>4, <1>5, <1>6, TablesKept

LEMMA AnswerKept ==
  ASSUME PInv, NEW i \in Slots, requests[i].pc \in Early, NEW g, Answer(i, g),
         UNCHANGED <<users, tokens, sessions, members, page, dialog>>,
         requests[i].op # "register", requests[i].op = "list_users" => g \in UserTable \cup {None}
  PROVE  PInv'
<1>1. PTypeOK /\ requests[i].pc # "idle"
  BY DEF PInv, Early
<1>2. /\ Slot(i) /\ RequestOK(requests'[i]) /\ requests'[i].pc = "answered"
      /\ requests'[i].op = requests[i].op
  BY <1>1, AnswerSlot
<1>3. PTypeOK'
  <2>1. /\ users' \in UserTable /\ tokens' \in Seq(Token) /\ sessions' \subseteq Sessions
        /\ members' \in [Sessions -> [Users -> Roles \cup {"owner", None}]]
    BY <1>1 DEF PTypeOK
  <2> QED BY <1>1, <1>2, <2>1, TypesKept
<1>4. \A s \in Sessions : ~Excuses(requests[i], s)
  BY DEF Excuses, Early
<1>5. ~(requests[i].op = "update_user"
         /\ requests[i].pc \in {"revoke", "sessions", "members", "delete"})
  BY DEF Early
<1> QED BY <1>2, <1>3, <1>4, <1>5, TablesKept

\* A request is done with: a page has its answer, or a proxy was refused.
LEMMA FinishKept ==
  ASSUME PInv, NEW i \in Slots, requests[i].pc \in Early \cup {"answered"}, Finish(i), PTypeOK',
         UNCHANGED <<users, tokens, sessions, members>>
  PROVE  PInv'
<1>1. Slot(i) /\ requests'[i].pc = "idle"
  BY FinishSlot DEF PInv
<1>2. \A s \in Sessions : ~Excuses(requests[i], s)
  BY DEF Excuses, Early
<1>3. ~(requests[i].op = "update_user"
         /\ requests[i].pc \in {"revoke", "sessions", "members", "delete"})
  BY DEF Early
<1> QED BY <1>1, <1>2, <1>3, TablesKept

-----------------------------------------------------------------------------
(* Handlers that only read, or only check.                                  *)

LEMMA Reading ==
  ASSUME PInv, NEW i \in Slots, UNCHANGED Unseen,
         list_users(i) \/ list_all_sessions(i) \/ list_sessions(i) \/ list_session_members(i)
         \/ list_tokens_handler(i)
  PROVE  PInv'
<1>1. requests[i].pc = "start" /\ requests[i].op # "register"
  BY DEF list_users, list_all_sessions, list_sessions, list_session_members, list_tokens_handler, At
<1>2. /\ UNCHANGED <<users, tokens, sessions, members, page, dialog>>
      /\ \E g : Answer(i, g) /\ (requests[i].op = "list_users" => g \in UserTable \cup {None})
  <2>1. CASE list_users(i)
    <3>1. (IF require_admin(requests[i].by) THEN users ELSE None) \in UserTable \cup {None}
      BY DEF PInv, PTypeOK
    <3> QED BY <2>1, <3>1 DEF list_users, Unseen
  <2>2. CASE list_all_sessions(i)
    BY <2>2 DEF list_all_sessions, At, Unseen
  <2>3. CASE list_sessions(i)
    BY <2>3 DEF list_sessions, At, Unseen
  <2>4. CASE list_session_members(i)
    BY <2>4 DEF list_session_members, At, Unseen
  <2>5. CASE list_tokens_handler(i)
    BY <2>5 DEF list_tokens_handler, At, Unseen
  <2> QED BY <2>1, <2>2, <2>3, <2>4, <2>5
<1> QED BY <1>1, <1>2, AnswerKept DEF Early

LEMMA Starting ==
  ASSUME PInv, NEW i \in Slots, requests[i].pc = "start", UNCHANGED Unseen,
         update_user(i) \/ admin_delete_session(i) \/ delete_session(i)
  PROVE  PInv'
<1>1. /\ UNCHANGED <<users, tokens, sessions, members, page, dialog>>
      /\ requests[i].op \notin MemberOps \cup {"register", "list_users"}
      /\ \/ Answer(i, None)
         \/ \E p : p # "idle" /\ Goto(i, p)
                    /\ (requests[i].op = "update_user" => p = "update" /\ MayUpdate(requests[i]))
  <2>1. CASE update_user(i)
    BY <2>1 DEF update_user, At, Unseen, MemberOps
  <2>2. CASE admin_delete_session(i)
    BY <2>2 DEF admin_delete_session, At, Unseen, MemberOps
  <2>3. CASE delete_session(i)
    BY <2>3 DEF delete_session, At, Unseen, MemberOps
  <2> QED BY <2>1, <2>2, <2>3
<1> QED BY <1>1, GotoKept, AnswerKept DEF Early

\* Only the owner manages members, and not herself.
LEMMA MemberStarting ==
  ASSUME PInv, NEW i \in Slots, requests[i].pc = "start", UNCHANGED Unseen,
         add_session_member(i) \/ remove_session_member(i) \/ update_session_member_role(i)
  PROVE  PInv'
<1> DEFINE r == requests[i]
<1>1. /\ UNCHANGED <<users, tokens, sessions, members, page, dialog>>
      /\ r.op \in MemberOps
      /\ \/ Answer(i, None)
         \/ \E p \in {"insert", "delete", "update"} :
              /\ Goto(i, p) /\ members[r.on][r.by] # None
              /\ \/ members[r.on][r.by] = "owner"
                    /\ (members[r.on][r.val[1]] = None \/ r.by # r.val[1])
                 \/ members[r.on][r.by] # "owner" /\ r.by = r.val[1]
  <2>1. CASE add_session_member(i)
    BY <2>1, NoneIsNoRole DEF add_session_member, At, Unseen, MemberOps
  <2>2. CASE remove_session_member(i)
    BY <2>2 DEF remove_session_member, At, Unseen, MemberOps
  <2>3. CASE update_session_member_role(i)
    BY <2>3, NoneIsNoRole DEF update_session_member_role, At, Unseen, MemberOps
  <2> QED BY <2>1, <2>2, <2>3
<1>2. /\ r.by \in Users /\ r.on \in Sessions /\ r.val[1] \in Users
  <2>1. RequestOK(r)
    BY Taken DEF PInv
  <2> QED BY <1>1, <2>1 DEF RequestOK
<1>3. /\ members[r.on][r.by] = "owner" => r.by = Owner[r.on]
      /\ members[r.on][Owner[r.on]] \in {"owner", None}
  BY <1>2 DEF PInv, Owned
<1>4. CASE Answer(i, None)
  BY <1>1, <1>4, AnswerKept DEF Early, MemberOps
<1>5. ASSUME NEW p \in {"insert", "delete", "update"}, Goto(i, p), members[r.on][r.by] # None,
             \/ members[r.on][r.by] = "owner"
                /\ (members[r.on][r.val[1]] = None \/ r.by # r.val[1])
             \/ members[r.on][r.by] # "owner" /\ r.by = r.val[1]
      PROVE  PInv'
  <2>1. r.val[1] # Owner[r.on]
    BY <1>2, <1>3, <1>5, NoneIsNoRole
  <2> QED BY <1>1, <1>5, <2>1, GotoKept DEF Early, MemberOps
<1> QED BY <1>1, <1>4, <1>5

LEMMA RenewStarting ==
  ASSUME PInv, NEW i \in Slots, requests[i].pc = "start", UNCHANGED Unseen,
         renew_token_handler(i)
  PROVE  PInv'
<1>1. /\ UNCHANGED <<users, tokens, sessions, members, page, dialog>>
      /\ requests[i].op = "renew_token"
      /\ Answer(i, None) \/ Goto(i, "update")
  BY DEF renew_token_handler, At, Unseen
<1> QED BY <1>1, GotoKept, AnswerKept DEF Early, MemberOps

\* A proxy registers with a token of its owner: verify_and_get_user asks about
\* her account.
LEMMA ProxyRegistering ==
  ASSUME PInv, NEW i \in Slots, UNCHANGED Unseen,
         register_session(i) \/ (At(i, "register", "verify") /\ create_new_session(i))
  PROVE  PInv'
<1> DEFINE r == requests[i]
<1>1. /\ UNCHANGED <<users, tokens, sessions, members, page, dialog>>
      /\ r.op = "register" /\ r.pc \in Early
      /\ \/ Finish(i) \/ (\E p \in {"verify", "reactivate"} : Goto(i, p))
         \/ verify_and_get_user(r.val[1], r.val[2]) /\ Goto(i, "insert")
  <2>1. CASE register_session(i)
    BY <2>1 DEF register_session, At, Unseen, Early
  <2>2. CASE At(i, "register", "verify") /\ create_new_session(i)
    BY <2>2 DEF create_new_session, At, Unseen, Early
  <2> QED BY <2>1, <2>2
<1>2. verify_and_get_user(r.val[1], r.val[2]) => ~users[Owner[r.on]].disabled
  BY <1>1 DEF verify_and_get_user, PInv, OwnTokens, Early
<1>3. CASE Finish(i)
  <2>1. Slot(i)
    BY <1>3, FinishSlot DEF PInv
  <2>2. PTypeOK'
    <3>1. /\ users' \in UserTable /\ tokens' \in Seq(Token) /\ sessions' \subseteq Sessions
          /\ members' \in [Sessions -> [Users -> Roles \cup {"owner", None}]]
      BY <1>1 DEF PTypeOK, PInv
    <3> QED BY <1>1, <2>1, <3>1, TypesKept DEF PInv
  <2> QED BY <1>1, <1>3, <2>2, FinishKept
<1>4. CASE \E p \in {"verify", "reactivate"} : Goto(i, p)
  BY <1>1, <1>4, GotoKept DEF MemberOps
<1>5. CASE verify_and_get_user(r.val[1], r.val[2]) /\ Goto(i, "insert")
  BY <1>1, <1>2, <1>5, GotoKept DEF MemberOps
<1> QED BY <1>1, <1>3, <1>4, <1>5

-----------------------------------------------------------------------------
(* Members are deleted, and sessions.                                       *)

LEMMA OwnedWithout ==
  ASSUME PInv, NEW i \in Slots, Slot(i), NEW S, members' = WithoutMembers(S),
         sessions' \subseteq sessions, sessions \ sessions' \subseteq S,
         \A s \in S \cap sessions' : Excuses(requests'[i], s),
         \A s \in sessions' \ S : ~Excuses(requests[i], s)
  PROVE  Owned'
<1>1. Slots' = Slots /\ \A j \in Slots : j # i => requests'[j] = requests[j]
  BY SlotFacts DEF PInv
<1>2. sessions \subseteq Sessions /\ \A s \in Sessions : Owner[s] \in Users
  BY RecordsAssumption DEF PInv, PTypeOK
<1>3. /\ \A s \in Sessions \ S : members'[s] = members[s]
      /\ \A s \in Sessions : s \in S => \A u \in Users : members'[s][u] = None
  BY DEF WithoutMembers
<1>4. ASSUME NEW s \in Sessions
      PROVE  /\ \A u \in Users : members'[s][u] = "owner" => u = Owner[s]
             /\ \A u \in Users : members'[s][u] # None => s \in sessions'
             /\ members'[s][Owner[s]] \in {"owner", None}
  BY <1>2, <1>3, NoneIsNoRole DEF PInv, Owned
<1>5. ASSUME NEW s \in sessions'
      PROVE  members'[s][Owner[s]] = "owner" \/ \E k \in Slots : Excuses(requests'[k], s)
  <2>1. CASE s \in S
    BY <2>1
  <2>2. CASE s \notin S
    <3>1. members'[s] = members[s]
      BY <1>2, <1>3, <2>2
    <3>2. members[s][Owner[s]] = "owner" \/ \E k \in Slots : Excuses(requests[k], s)
      BY DEF PInv, Owned
    <3>3. ASSUME NEW k \in Slots, Excuses(requests[k], s)
          PROVE  Excuses(requests'[k], s)
      <4>1. k # i
        BY <2>2, <3>3
      <4>2. requests'[k] = requests[k]
        BY <1>1, <4>1
      <4> QED BY <3>3, <4>2
    <3> QED BY <3>1, <3>2, <3>3
  <2> QED BY <2>1, <2>2
<1> QED BY <1>1, <1>4, <1>5 DEF Owned

\* What every step of a handler past its checks keeps: the types, and the tokens
\* of the registrations.
LEMMA HandlerKeeps ==
  ASSUME PInv, NEW i \in Slots, Slot(i), UNCHANGED <<page, dialog>>,
         users' \in UserTable, sessions' \subseteq Sessions,
         members' \in [Sessions -> [Users -> Roles \cup {"owner", None}]],
         tokens' \in Seq(Token),
         \A t \in DOMAIN tokens : t \in DOMAIN tokens' /\ tokens'[t].user = tokens[t].user,
         requests'[i].op = "register" /\ requests'[i].pc # "idle" =>
           /\ requests[i].op = "register" /\ requests[i].pc # "idle"
           /\ requests'[i].val = requests[i].val /\ requests'[i].on = requests[i].on
  PROVE  PTypeOK' /\ OwnTokens'
<1>1. PTypeOK'
  BY TypesKept DEF PInv
<1>2. OwnTokens'
  BY OwnTokensKept
<1> QED BY <1>1, <1>2

LEMMA MembersTyped ==
  ASSUME PInv, NEW S
  PROVE  WithoutMembers(S) \in [Sessions -> [Users -> Roles \cup {"owner", None}]]
BY DEF PInv, PTypeOK, WithoutMembers

\* A deletion first deletes the members, then the session with the members it has
\* by then.
LEMMA Deleting ==
  ASSUME PInv, NEW i \in Slots, UNCHANGED Unseen, delete_session_with_data(i)
  PROVE  PInv'
<1> DEFINE r == requests[i]
<1>1. /\ UNCHANGED <<users, tokens, page, dialog>> /\ r.op \in DeleteOps /\ r.pc # "idle"
      /\ members' = WithoutMembers({r.on})
      /\ \/ r.pc = "members" /\ Goto(i, "delete") /\ sessions' = sessions
         \/ r.pc = "delete" /\ Answer(i, "ok") /\ sessions' = sessions \ {r.on}
  BY DEF delete_session_with_data, Unseen, DeleteOps
<1>2. /\ Slot(i) /\ requests'[i].op = r.op /\ requests'[i].on = r.on
      /\ requests'[i].pc = IF r.pc = "members" THEN "delete" ELSE "answered"
  BY <1>1, GotoSlot, AnswerSlot DEF PInv, DeleteOps, MemberOps
<1>3. PTypeOK' /\ OwnTokens'
  <2>1. /\ users' \in UserTable /\ sessions' \subseteq Sessions /\ tokens' \in Seq(Token)
        /\ members' \in [Sessions -> [Users -> Roles \cup {"owner", None}]]
    BY <1>1, MembersTyped DEF PInv, PTypeOK
  <2> QED BY <1>1, <1>2, <2>1, HandlerKeeps DEF DeleteOps
<1>4. Owned'
  <2>1. \A s \in {r.on} \cap sessions' : Excuses(requests'[i], s)
    BY <1>1, <1>2 DEF Excuses
  <2>2. \A s \in sessions' \ {r.on} : ~Excuses(requests[i], s)
    BY <1>1 DEF Excuses, DeleteOps
  <2> QED BY <1>1, <1>2, <2>1, <2>2, OwnedWithout
<1>5. ASSUME OneByOne' PROVE Serial'
  <2>1. OneByOne /\ i = 1 /\ Serial
    BY <1>2, <1>5, SlotFacts DEF OneByOne, PInv
  <2>2. AnAdminRemains'
    BY <1>1, <2>1 DEF Serial, AnAdminRemains, require_admin
  <2>3. ASSUME NEW u \in Users, users[u].disabled
        PROVE  (\A t \in TokensOf(u)' : tokens'[t].revoked) /\ OwnedBy(u)' = {}
    BY <1>1, <2>1, <2>3 DEF Serial, TokensOf, OwnedBy, DeleteOps
  <2> QED BY <1>1, <1>2, <2>1, <2>2, <2>3 DEF Serial, DeleteOps
<1> QED BY <1>3, <1>4, <1>5 DEF PInv, OneByOne

-----------------------------------------------------------------------------
(* An account is changed, and a ban taken to its end.                       *)

WithIds(r, S) == [r EXCEPT !.pc = "members", !.ids = S]

LEMMA IdsGiven ==
  ASSUME NEW r, RequestOK(r), r.op = "update_user", NEW S, \A s \in S : Owner[s] = r.on
  PROVE  LET q == WithIds(r, S) IN
         RequestOK(q) /\ q.pc = "members" /\ q.op = r.op /\ q.on = r.on
<1> DEFINE q == WithIds(r, S)
<1>1. /\ q.pc = "members" /\ q.by = r.by /\ q.op = r.op /\ q.on = r.on
      /\ q.val = r.val /\ q.list = r.list /\ q.ids = S /\ q.got = r.got
      /\ q \in [by : Users, op : {r.op}, on : {r.on}, val : {r.val}, list : {r.list},
                pc : {"members"}, got : {r.got}, ids : {S}]
  BY DEF RequestOK, WithIds
<1> HIDE DEF q
<1>2. RequestOK(q)
  BY <1>1 DEF RequestOK, MemberOps, OtherLists, DeleteOps
<1> QED BY <1>1, <1>2 DEF q

\* The request of an update is at the next of its places.
Next4(i, pc) ==
  /\ Slot(i) /\ requests'[i].op = "update_user" /\ requests'[i].on = requests[i].on
  /\ requests'[i].pc = pc

LEMMA AccountChanged ==
  ASSUME PInv, NEW i \in Slots, UNCHANGED Unseen, At(i, "update_user", "update"), update_user(i)
  PROVE  PInv'
<1> DEFINE r == requests[i]
           field == r.val[1]
           value == r.val[2]
           ban == field = "disabled" /\ value
<1>1. /\ UNCHANGED <<tokens, sessions, members, page, dialog>>
      /\ r.op = "update_user" /\ r.pc = "update"
      /\ users' = [users EXCEPT ![r.on][field] = value]
      /\ IF ban THEN Goto(i, "revoke") ELSE Answer(i, "ok")
  BY DEF update_user, At, Unseen
<1>2. RequestOK(r)
  BY <1>1, Taken DEF PInv
<1>3. /\ r.on \in Users /\ r.by \in Users
      /\ field \in {"admin", "disabled", "voice"} /\ value \in BOOLEAN
      /\ r.val = <<field, value>>
  BY <1>1, <1>2 DEF RequestOK, Changes
<1>4. Next4(i, IF ban THEN "revoke" ELSE "answered")
  BY <1>1, GotoSlot, AnswerSlot DEF PInv, MemberOps, Next4
<1> HIDE DEF field, value, ban
<1>5. /\ users' \in UserTable
      /\ \A u \in Users : u # r.on => users'[u] = users[u]
      /\ users'[r.on] = [users[r.on] EXCEPT ![field] = value]
  <2>1. users \in UserTable
    BY DEF PInv, PTypeOK
  <2>2. [users[r.on] EXCEPT ![field] = value] \in Accounts
    BY <1>3, <2>1 DEF UserTable, Accounts
  <2> QED BY <1>1, <1>3, <2>1, <2>2 DEF UserTable
<1>6. PTypeOK' /\ OwnTokens'
  <2>1. /\ sessions' \subseteq Sessions /\ tokens' \in Seq(Token)
        /\ members' \in [Sessions -> [Users -> Roles \cup {"owner", None}]]
    BY <1>1 DEF PInv, PTypeOK
  <2> QED BY <1>1, <1>4, <1>5, <2>1, HandlerKeeps DEF Next4
<1>7. Owned'
  BY <1>1, <1>4, OwnedKept DEF Next4, Excuses, DeleteOps
<1>8. ASSUME OneByOne' PROVE Serial'
  <2>1. OneByOne /\ i = 1 /\ Serial
    BY <1>4, <1>8, SlotFacts DEF OneByOne, PInv, Next4
  <2>2. /\ require_admin(r.by)
        /\ ~(r.on = r.by /\ r.val \in {<<"disabled", TRUE>>, <<"admin", FALSE>>})
    BY <1>1, <2>1 DEF Serial, MayUpdate
  <2>3. users \in UserTable /\ users[r.by] \in Accounts /\ users[r.on] \in Accounts
    BY <1>3 DEF PInv, PTypeOK, UserTable
  <2>4. AnAdminRemains'
    <3>1. PICK a \in Users : a = r.by
      BY <1>3
    <3>2. ~users'[a].disabled /\ users'[a].admin
      <4>1. CASE r.on # a
        BY <1>3, <1>5, <2>2, <3>1, <4>1 DEF require_admin
      <4>2. CASE r.on = a
        <5>1. ~(field = "disabled" /\ value) /\ ~(field = "admin" /\ ~value)
          BY <1>3, <2>2, <3>1, <4>2
        <5>2. /\ ~users[a].disabled /\ users[a].admin /\ users[a] \in Accounts
              /\ users'[a] = [users[a] EXCEPT ![field] = value]
          BY <1>5, <2>2, <2>3, <3>1, <4>2 DEF require_admin
        <5> QED BY <1>3, <5>1, <5>2 DEF Accounts
      <4> QED BY <4>1, <4>2
    <3>3. a \in DOMAIN users'
      BY <1>5, <3>1 DEF UserTable
    <3> QED BY <3>2, <3>3 DEF AnAdminRemains, require_admin
  <2>5. ASSUME NEW u \in Users, users'[u].disabled, ~(ban /\ u = r.on)
        PROVE  (\A t \in TokensOf(u)' : tokens'[t].revoked) /\ OwnedBy(u)' = {}
    <3>1. users[u].disabled
      <4>1. CASE u # r.on
        BY <1>5, <2>5, <4>1
      <4>2. CASE u = r.on
        BY <1>3, <1>5, <2>3, <2>5, <4>2 DEF Accounts, ban
      <4> QED BY <4>1, <4>2
    <3> QED BY <1>1, <2>1, <3>1 DEF Serial, TokensOf, OwnedBy
  <2> QED BY <1>4, <2>1, <2>4, <2>5 DEF Serial, Next4
<1> QED BY <1>6, <1>7, <1>8 DEF PInv, OneByOne

\* The rows of tokens keep their users when they are revoked or renewed.
LEMMA TokensTyped ==
  ASSUME PInv, NEW f, f = [t \in DOMAIN tokens |-> f[t]],
         \A t \in DOMAIN tokens : f[t] \in Token
  PROVE  f \in Seq(Token)
<1>1. tokens \in Seq(Token)
  BY DEF PInv, PTypeOK
<1>2. Len(tokens) \in Nat /\ DOMAIN tokens = 1 .. Len(tokens)
  BY <1>1, LenProperties
<1>3. f \in [1 .. Len(tokens) -> Token]
  BY <1>2
<1> QED BY <1>2, <1>3, SeqDef

LEMMA TokenRow ==
  ASSUME PInv, NEW t \in DOMAIN tokens
  PROVE  tokens[t] \in Token
<1>1. tokens \in Seq(Token)
  BY DEF PInv, PTypeOK
<1> QED BY <1>1, LenProperties, ElementOfSeq

LEMMA TokensRevoked ==
  ASSUME PInv, NEW i \in Slots, UNCHANGED Unseen, At(i, "update_user", "revoke"), update_user(i)
  PROVE  PInv'
<1> DEFINE r == requests[i]
<1>1. /\ UNCHANGED <<users, sessions, members, page, dialog>>
      /\ r.op = "update_user" /\ r.pc = "revoke"
      /\ tokens' = [t \in DOMAIN tokens |->
                      [tokens[t] EXCEPT !.revoked = @ \/ tokens[t].user = r.on]]
      /\ Goto(i, "sessions")
  BY DEF update_user, At, Unseen
<1>2. Next4(i, "sessions")
  BY <1>1, GotoSlot DEF PInv, MemberOps, Next4
<1>3. /\ DOMAIN tokens' = DOMAIN tokens
      /\ \A t \in DOMAIN tokens :
           /\ tokens'[t] \in Token /\ tokens'[t].user = tokens[t].user
           /\ tokens[t].revoked \/ tokens[t].user = r.on => tokens'[t].revoked
  BY <1>1, TokenRow DEF Token
<1>4. tokens' \in Seq(Token)
  <2>1. tokens' = [t \in DOMAIN tokens |-> tokens'[t]]
    BY <1>1
  <2> QED BY <1>3, <2>1, TokensTyped
<1>5. PTypeOK' /\ OwnTokens'
  <2>1. /\ users' \in UserTable /\ sessions' \subseteq Sessions
        /\ members' \in [Sessions -> [Users -> Roles \cup {"owner", None}]]
    BY <1>1 DEF PInv, PTypeOK
  <2> QED BY <1>1, <1>2, <1>3, <1>4, <2>1, HandlerKeeps DEF Next4
<1>6. Owned'
  BY <1>1, <1>2, OwnedKept DEF Next4, Excuses, DeleteOps
<1>7. ASSUME OneByOne' PROVE Serial'
  <2>1. OneByOne /\ i = 1 /\ Serial
    BY <1>2, <1>7, SlotFacts DEF OneByOne, PInv, Next4
  <2>2. AnAdminRemains'
    BY <1>1, <2>1 DEF Serial, AnAdminRemains, require_admin
  <2>3. ASSUME NEW u \in Users, users[u].disabled
        PROVE  \A t \in TokensOf(u)' : tokens'[t].revoked
    <3>1. \A t \in TokensOf(u) : tokens[t].revoked \/ r.on = u
      BY <2>1, <2>3 DEF Serial
    <3>2. \A t \in TokensOf(u) : tokens[t].revoked \/ tokens[t].user = r.on
      BY <3>1 DEF TokensOf
    <3> QED BY <1>3, <3>2 DEF TokensOf
  <2>4. ASSUME NEW u \in Users, users[u].disabled
        PROVE  OwnedBy(u)' = {} \/ u = r.on
    BY <1>1, <2>1, <2>4 DEF Serial, OwnedBy
  <2> QED BY <1>1, <1>2, <2>1, <2>2, <2>3, <2>4 DEF Serial, Next4
<1> QED BY <1>5, <1>6, <1>7 DEF PInv, OneByOne

\* The rest of a ban takes the sessions it has read, with their members.
LEMMA BanGoesOn ==
  ASSUME PInv, NEW i \in Slots, UNCHANGED Unseen, delete_user_sessions(i)
  PROVE  PInv'
<1> DEFINE r == requests[i]
<1>1. /\ UNCHANGED <<users, tokens, page, dialog>> /\ r.op = "update_user" /\ r.pc # "idle"
      /\ \/ /\ r.pc = "sessions" /\ UNCHANGED <<sessions, members>>
            /\ IF OwnedBy(r.on) = {} THEN Answer(i, "ok")
               ELSE requests' = [requests EXCEPT ![i].pc = "members", ![i].ids = OwnedBy(r.on)]
         \/ /\ r.pc = "members" /\ members' = WithoutMembers(r.ids)
            /\ Goto(i, "delete") /\ UNCHANGED sessions
         \/ /\ r.pc = "delete" /\ sessions' = SessionsWithout(r.on)
            /\ members' = WithoutMembers(OwnedBy(r.on)) /\ Answer(i, "ok")
  BY DEF delete_user_sessions, At, Unseen
<1>2. RequestOK(r)
  BY <1>1, Taken DEF PInv
<1>3. /\ r.pc = "sessions" /\ OwnedBy(r.on) # {} => Next4(i, "members")
      /\ r.pc = "sessions" /\ OwnedBy(r.on) = {} => Next4(i, "answered")
      /\ r.pc = "members" => Next4(i, "delete")
      /\ r.pc = "delete" => Next4(i, "answered")
  <2>1. CASE r.pc = "sessions" /\ OwnedBy(r.on) # {}
    <3>1. /\ requests' = [requests EXCEPT ![i] = requests'[i]]
          /\ requests'[i] = WithIds(r, OwnedBy(r.on))
      BY <1>1, <2>1 DEF PInv, PTypeOK, Slots, WithIds
    <3>2. \A s \in OwnedBy(r.on) : Owner[s] = r.on
      BY DEF OwnedBy
    <3>3. /\ RequestOK(requests'[i]) /\ requests'[i].pc = "members"
          /\ requests'[i].op = r.op /\ requests'[i].on = r.on
      BY <1>1, <1>2, <3>1, <3>2, IdsGiven
    <3> QED BY <1>1, <2>1, <3>1, <3>3 DEF Next4, Slot
  <2>2. CASE (r.pc = "sessions" /\ OwnedBy(r.on) = {}) \/ r.pc = "delete"
    <3>1. Answer(i, "ok")
      BY <1>1, <2>2
    <3> QED BY <1>1, <2>2, <3>1, AnswerSlot DEF PInv, Next4
  <2>3. CASE r.pc = "members"
    BY <1>1, <2>3, GotoSlot DEF PInv, Next4, MemberOps
  <2> QED BY <1>1, <2>1, <2>2, <2>3
<1>4. /\ Slot(i) /\ requests'[i].op = "update_user" /\ requests'[i].on = r.on
      /\ requests'[i].pc \in {"members", "delete", "answered"}
      /\ requests'[i].pc = "answered" => OwnedBy(r.on)' = {}
  <2>1. r.pc = "delete" => \A s \in sessions' : Owner[s] # r.on
    BY <1>1 DEF SessionsWithout, OwnedBy
  <2> QED BY <1>1, <1>3, <2>1 DEF Next4, OwnedBy
<1>5. PTypeOK' /\ OwnTokens'
  <2>1. /\ users' \in UserTable /\ sessions' \subseteq Sessions /\ tokens' \in Seq(Token)
        /\ members' \in [Sessions -> [Users -> Roles \cup {"owner", None}]]
    BY <1>1, MembersTyped DEF PInv, PTypeOK, SessionsWithout
  <2> QED BY <1>1, <1>4, <2>1, HandlerKeeps
<1>6. Owned'
  <2>1. CASE r.pc = "sessions"
    BY <1>1, <1>4, <2>1, OwnedKept DEF Excuses, DeleteOps
  <2>2. CASE r.pc = "members"
    <3>1. \A s \in r.ids : Owner[s] = r.on
      BY <1>1, <1>2, <2>2 DEF RequestOK
    <3>2. /\ members' = WithoutMembers(r.ids) /\ sessions' = sessions
          /\ \A s \in r.ids \cap sessions' : Excuses(requests'[i], s)
      BY <1>1, <1>3, <2>2, <3>1 DEF Next4, Excuses
    <3>3. \A s \in sessions' \ r.ids : ~Excuses(requests[i], s)
      BY <1>1, <2>2 DEF Excuses
    <3> QED BY <1>4, <3>2, <3>3, OwnedWithout
  <2>3. CASE r.pc = "delete"
    <3>1. /\ members' = WithoutMembers(OwnedBy(r.on)) /\ sessions' = sessions \ OwnedBy(r.on)
      BY <1>1, <2>3 DEF SessionsWithout
    <3>2. \A s \in sessions' \ OwnedBy(r.on) : ~Excuses(requests[i], s)
      BY <1>1, <2>3, <3>1 DEF Excuses, OwnedBy, DeleteOps
    <3> QED BY <1>4, <3>1, <3>2, OwnedWithout
  <2> QED BY <1>1, <2>1, <2>2, <2>3
<1>7. ASSUME OneByOne' PROVE Serial'
  <2>1. OneByOne /\ i = 1 /\ Serial
    BY <1>4, <1>7, SlotFacts DEF OneByOne, PInv
  <2>2. AnAdminRemains'
    BY <1>1, <2>1 DEF Serial, AnAdminRemains, require_admin
  <2>3. sessions' \subseteq sessions
    BY <1>1 DEF SessionsWithout
  <2>4. ASSUME NEW u \in Users, users[u].disabled
        PROVE  (\A t \in TokensOf(u)' : tokens'[t].revoked) /\ (OwnedBy(u)' = {} \/ u = r.on)
    BY <1>1, <2>1, <2>3, <2>4 DEF Serial, TokensOf, OwnedBy
  <2>5. PICK a : a = r.on
    OBVIOUS
  <2>6. requests'[1].pc = "answered" => OwnedBy(a)' = {}
    BY <1>4, <2>1, <2>5 DEF OwnedBy
  <2>7. ASSUME NEW u \in Users, users'[u].disabled
        PROVE  \/ OwnedBy(u)' = {}
               \/ requests'[1].pc \in {"members", "delete"} /\ requests'[1].on = u
    <3>1. OwnedBy(u)' = {} \/ u = a
      BY <1>1, <2>4, <2>5, <2>7
    <3>2. CASE u = a
      <4>1. requests'[1].pc = "answered" => OwnedBy(u)' = {}
        BY <2>6, <3>2
      <4>2. requests'[1].on = u /\ requests'[1].pc \in {"members", "delete", "answered"}
        BY <1>4, <2>1, <2>5, <3>2
      <4> QED BY <4>1, <4>2
    <3> QED BY <3>1, <3>2
  <2>8. /\ requests'[1].op = "update_user"
        /\ requests'[1].pc \in {"members", "delete", "answered"}
        /\ \A u \in Users : users'[u].disabled => \A t \in TokensOf(u)' : tokens'[t].revoked
    BY <1>1, <1>4, <2>1, <2>4
  <2> QED BY <2>2, <2>7, <2>8 DEF Serial
<1> QED BY <1>5, <1>6, <1>7 DEF PInv, OneByOne

-----------------------------------------------------------------------------
(* The owner changes who else is a member; nobody changes the owner.        *)

LEMMA OwnedWithMember ==
  ASSUME PInv, NEW i \in Slots, Slot(i), requests[i].op \in MemberOps, UNCHANGED sessions,
         NEW s \in Sessions, NEW u \in Users, u # Owner[s], NEW role \in Roles \cup {None},
         role # None => s \in sessions,
         members' = [members EXCEPT ![s][u] = role]
  PROVE  Owned' /\ members' \in [Sessions -> [Users -> Roles \cup {"owner", None}]]
<1>1. members \in [Sessions -> [Users -> Roles \cup {"owner", None}]]
  BY DEF PInv, PTypeOK
<1>2. /\ members' \in [Sessions -> [Users -> Roles \cup {"owner", None}]]
      /\ members'[s][u] = role
      /\ \A x \in Sessions, v \in Users : x # s \/ v # u => members'[x][v] = members[x][v]
  BY <1>1
<1>3. Slots' = Slots /\ \A j \in Slots : j # i => requests'[j] = requests[j]
  BY SlotFacts DEF PInv
<1>4. role # "owner"
  BY NoneIsNoRole DEF Roles
<1>5. sessions \subseteq Sessions /\ \A x \in Sessions : Owner[x] \in Users
  BY RecordsAssumption DEF PInv, PTypeOK
<1>6. \A x \in Sessions : members'[x][Owner[x]] = members[x][Owner[x]]
  BY <1>2, <1>5
<1>7. ASSUME NEW x \in Sessions, NEW v \in Users
      PROVE  /\ members'[x][v] = "owner" => v = Owner[x]
             /\ members'[x][v] # None => x \in sessions'
  BY <1>2, <1>4 DEF PInv, Owned
<1>8. ASSUME NEW x \in sessions
      PROVE  members'[x][Owner[x]] = "owner" \/ \E j \in Slots : Excuses(requests'[j], x)
  <2>1. members[x][Owner[x]] = "owner" \/ \E j \in Slots : Excuses(requests[j], x)
    BY DEF PInv, Owned
  <2>2. ASSUME NEW j \in Slots, Excuses(requests[j], x)
        PROVE  Excuses(requests'[j], x)
    <3>1. j # i
      BY <2>2 DEF Excuses, MemberOps, DeleteOps
    <3> QED BY <1>3, <2>2, <3>1
  <2> QED BY <1>5, <1>6, <2>1, <2>2
<1>9. \A x \in Sessions : members'[x][Owner[x]] \in {"owner", None}
  BY <1>6 DEF PInv, Owned
<1> QED BY <1>2, <1>3, <1>7, <1>8, <1>9 DEF Owned

LEMMA MemberChanging ==
  ASSUME PInv, NEW i \in Slots, requests[i].pc # "start", UNCHANGED Unseen,
         add_session_member(i) \/ remove_session_member(i) \/ update_session_member_role(i)
  PROVE  PInv'
<1> DEFINE r == requests[i]
<1>1. /\ UNCHANGED <<users, tokens, sessions, page, dialog>>
      /\ r.op \in MemberOps /\ r.pc \in {"insert", "delete", "update"}
      /\ \E got : Answer(i, got)
      /\ \/ UNCHANGED members
         \/ members' = [members EXCEPT ![r.on][r.val[1]] = None]
         \/ /\ r.op # "remove_session_member"
            /\ r.on \in sessions \/ members[r.on][r.val[1]] # None
            /\ members' = [members EXCEPT ![r.on][r.val[1]] = r.val[2]]
  <2>1. CASE add_session_member(i)
    BY <2>1 DEF add_session_member, At, Unseen, MemberOps
  <2>2. CASE remove_session_member(i)
    <3>1. /\ UNCHANGED <<users, tokens, sessions, page, dialog>>
          /\ r.op = "remove_session_member" /\ r.pc = "delete"
          /\ members' = [members EXCEPT ![r.on][r.val[1]] = None]
          /\ Answer(i, IF members[r.on][r.val[1]] = None THEN None ELSE "ok")
      BY <2>2 DEF remove_session_member, At, Unseen
    <3> QED BY <3>1 DEF MemberOps
  <2>3. CASE update_session_member_role(i)
    BY <2>3 DEF update_session_member_role, At, Unseen, MemberOps
  <2> QED BY <2>1, <2>2, <2>3
<1>2. RequestOK(r)
  BY <1>1, Taken DEF PInv
<1>3. /\ r.on \in Sessions /\ r.val[1] \in Users /\ r.val[1] # Owner[r.on]
      /\ r.op # "remove_session_member" => r.val[2] \in Roles
  BY <1>1, <1>2 DEF RequestOK
<1>4. /\ Slot(i) /\ requests'[i].op = r.op /\ requests'[i].pc = "answered"
  BY <1>1, AnswerSlot DEF PInv, MemberOps
<1>5. /\ Owned'
      /\ members' \in [Sessions -> [Users -> Roles \cup {"owner", None}]]
  <2>1. CASE UNCHANGED members
    <3>1. \A s \in Sessions : ~Excuses(requests[i], s)
      BY <1>1 DEF Excuses, MemberOps, DeleteOps
    <3> QED BY <1>1, <1>4, <2>1, <3>1, OwnedKept DEF PInv, PTypeOK
  <2>2. CASE members' = [members EXCEPT ![r.on][r.val[1]] = None]
    BY <1>1, <1>3, <1>4, <2>2, OwnedWithMember
  <2>3. CASE /\ r.op # "remove_session_member"
             /\ r.on \in sessions \/ members[r.on][r.val[1]] # None
             /\ members' = [members EXCEPT ![r.on][r.val[1]] = r.val[2]]
    <3>1. r.on \in sessions
      BY <1>3, <2>3 DEF PInv, Owned
    <3> QED BY <1>1, <1>3, <1>4, <2>3, <3>1, OwnedWithMember
  <2> QED BY <1>1, <2>1, <2>2, <2>3
<1>6. PTypeOK' /\ OwnTokens'
  <2>1. users' \in UserTable /\ sessions' \subseteq Sessions /\ tokens' \in Seq(Token)
    BY <1>1 DEF PInv, PTypeOK
  <2> QED BY <1>1, <1>4, <1>5, <2>1, HandlerKeeps DEF MemberOps
<1>7. ASSUME OneByOne' PROVE Serial'
  <2>1. OneByOne /\ i = 1
    BY <1>4, <1>7, SlotFacts DEF OneByOne, PInv
  <2> QED BY <1>1, <1>4, <2>1, SerialKept DEF MemberOps
<1> QED BY <1>5, <1>6, <1>7 DEF PInv, OneByOne

-----------------------------------------------------------------------------
(* Tokens are made, revoked and renewed.                                    *)

\* Where a page of tokens is open none of the claims about one request at a time
\* is made: a proxy may then be verified with a token that a user has created.
LEMMA TokenCreating ==
  ASSUME PInv, NEW i \in Slots, UNCHANGED Unseen, create_token_handler(i)
  PROVE  PInv'
<1> DEFINE t == [user |-> requests[i].by, revoked |-> FALSE, hash |-> 0]
<1>1. /\ UNCHANGED <<users, sessions, members, page, dialog>>
      /\ requests[i].op = "create_token" /\ requests[i].pc = "start"
      /\ tokens' = Append(tokens, t) /\ \E got : Answer(i, got)
  BY DEF create_token_handler, At, Unseen
<1>2. RequestOK(requests[i])
  BY <1>1, Taken DEF PInv
<1>3. tokens \in Seq(Token) /\ t \in Token
  BY <1>2 DEF PInv, PTypeOK, RequestOK, Token
<1> HIDE DEF t
<1>4. /\ tokens' \in Seq(Token)
      /\ \A k \in DOMAIN tokens : k \in DOMAIN tokens' /\ tokens'[k] = tokens[k]
  BY <1>1, <1>3, AppendProperties, LenProperties
<1>5. Slot(i) /\ requests'[i].op = "create_token" /\ requests'[i].pc = "answered"
  BY <1>1, AnswerSlot DEF PInv
<1>6. PTypeOK' /\ OwnTokens'
  <2>1. /\ users' \in UserTable /\ sessions' \subseteq Sessions
        /\ members' \in [Sessions -> [Users -> Roles \cup {"owner", None}]]
    BY <1>1 DEF PInv, PTypeOK
  <2> QED BY <1>1, <1>4, <1>5, <2>1, HandlerKeeps
<1>7. Owned'
  BY <1>1, <1>5, OwnedKept DEF Excuses, DeleteOps
<1>8. ~OneByOne'
  BY <1>1, <1>2 DEF OneByOne, RequestOK
<1> QED BY <1>6, <1>7, <1>8 DEF PInv, OneByOne

LEMMA TokenChanging ==
  ASSUME PInv, NEW i \in Slots, UNCHANGED Unseen,
         \/ revoke_token_handler(i)
         \/ requests[i].pc # "start" /\ renew_token_handler(i)
  PROVE  PInv'
<1>1. /\ UNCHANGED <<users, sessions, members, page, dialog>>
      /\ requests[i].op \in {"revoke_token", "renew_token"}
      /\ requests[i].pc \in {"start", "update"}
      /\ \E got : Answer(i, got)
      /\ \/ tokens' = [tokens EXCEPT ![requests[i].on].revoked = TRUE]
         \/ tokens' = [tokens EXCEPT ![requests[i].on].hash = @ + 1]
  BY DEF revoke_token_handler, renew_token_handler, At, Unseen
<1>2. /\ tokens' = [t \in DOMAIN tokens |-> tokens'[t]]
      /\ \A t \in DOMAIN tokens :
           /\ tokens'[t] \in Token /\ tokens'[t].user = tokens[t].user
           /\ tokens[t].revoked => tokens'[t].revoked
  <2>1. ASSUME NEW x \in Token
        PROVE  /\ [x EXCEPT !.revoked = TRUE] \in Token
               /\ [x EXCEPT !.revoked = TRUE].user = x.user
               /\ [x EXCEPT !.revoked = TRUE].revoked
               /\ [x EXCEPT !.hash = x.hash + 1] \in Token
               /\ [x EXCEPT !.hash = x.hash + 1].user = x.user
               /\ [x EXCEPT !.hash = x.hash + 1].revoked = x.revoked
    <3>1. x.hash + 1 \in Nat
      BY DEF Token
    <3> QED BY <3>1 DEF Token
  <2>2. \/ /\ tokens' = [t \in DOMAIN tokens |-> tokens'[t]]
           /\ \A t \in DOMAIN tokens :
                tokens'[t] = tokens[t] \/ tokens'[t] = [tokens[t] EXCEPT !.revoked = TRUE]
        \/ /\ tokens' = [t \in DOMAIN tokens |-> tokens'[t]]
           /\ \A t \in DOMAIN tokens :
                \/ tokens'[t] = tokens[t]
                \/ tokens'[t] = [tokens[t] EXCEPT !.hash = tokens[t].hash + 1]
    <3>1. tokens = [t \in DOMAIN tokens |-> tokens[t]]
      BY LenProperties, SeqDef DEF PInv, PTypeOK
    <3>2. CASE tokens' = [tokens EXCEPT ![requests[i].on].revoked = TRUE]
      BY <3>1, <3>2
    <3>3. CASE tokens' = [tokens EXCEPT ![requests[i].on].hash = @ + 1]
      BY <3>1, <3>3
    <3> QED BY <1>1, <3>2, <3>3
  <2>3. ASSUME NEW t \in DOMAIN tokens
        PROVE  /\ tokens'[t] \in Token /\ tokens'[t].user = tokens[t].user
               /\ tokens[t].revoked => tokens'[t].revoked
    <3>1. tokens[t] \in Token
      BY TokenRow
    <3>2. \/ tokens'[t] = tokens[t]
          \/ tokens'[t] = [tokens[t] EXCEPT !.revoked = TRUE]
          \/ tokens'[t] = [tokens[t] EXCEPT !.hash = tokens[t].hash + 1]
      BY <2>2
    <3>3. CASE tokens'[t] = tokens[t]
      BY <3>1, <3>3
    <3>4. CASE tokens'[t] = [tokens[t] EXCEPT !.revoked = TRUE]
      BY <2>1, <3>1, <3>4
    <3>5. CASE tokens'[t] = [tokens[t] EXCEPT !.hash = tokens[t].hash + 1]
      BY <2>1, <3>1, <3>5
    <3> QED BY <3>2, <3>3, <3>4, <3>5
  <2> QED BY <2>2, <2>3
<1>3. tokens' \in Seq(Token) /\ DOMAIN tokens' = DOMAIN tokens
  BY <1>2, TokensTyped
<1>4. Slot(i) /\ requests'[i].op = requests[i].op /\ requests'[i].pc = "answered"
  BY <1>1, AnswerSlot DEF PInv
<1>5. PTypeOK' /\ OwnTokens'
  <2>1. /\ users' \in UserTable /\ sessions' \subseteq Sessions
        /\ members' \in [Sessions -> [Users -> Roles \cup {"owner", None}]]
    BY <1>1 DEF PInv, PTypeOK
  <2> QED BY <1>1, <1>2, <1>3, <1>4, <2>1, HandlerKeeps
<1>6. Owned'
  BY <1>1, <1>4, OwnedKept DEF Excuses, DeleteOps
<1>7. ASSUME OneByOne' PROVE Serial'
  <2>1. OneByOne /\ i = 1 /\ Serial
    BY <1>4, <1>7, SlotFacts DEF OneByOne, PInv
  <2>2. AnAdminRemains'
    BY <1>1, <2>1 DEF Serial, AnAdminRemains, require_admin
  <2>3. ASSUME NEW u \in Users, users[u].disabled
        PROVE  \A t \in TokensOf(u)' : tokens'[t].revoked
    <3>1. \A t \in TokensOf(u) : tokens[t].revoked
      BY <1>1, <2>1, <2>3 DEF Serial
    <3> QED BY <1>2, <1>3, <3>1 DEF TokensOf
  <2>4. ASSUME NEW u \in Users, users[u].disabled
        PROVE  OwnedBy(u)' = {}
    BY <1>1, <2>1, <2>4 DEF Serial, OwnedBy
  <2> QED BY <1>1, <1>4, <2>1, <2>2, <2>3, <2>4 DEF Serial
<1> QED BY <1>5, <1>6, <1>7 DEF PInv, OneByOne

-----------------------------------------------------------------------------
(* A new session, then its owner.                                           *)

LEMMA Inserting ==
  ASSUME PInv, NEW i \in Slots, UNCHANGED Unseen, At(i, "register", "insert"),
         create_new_session(i)
  PROVE  PInv'
<1> DEFINE r == requests[i]
<1>1. /\ UNCHANGED <<users, tokens, members, page, dialog>>
      /\ r.op = "register" /\ r.pc = "insert" /\ sessions' = sessions \cup {r.on}
      /\ Goto(i, "owner")
  BY DEF create_new_session, At, Unseen
<1>2. /\ Slot(i) /\ RequestOK(r) /\ requests'[i].pc = "owner" /\ requests'[i].op = "register"
      /\ requests'[i].on = r.on /\ requests'[i].val = r.val
  BY <1>1, GotoSlot DEF PInv, MemberOps
<1>3. r.on \in Sessions
  BY <1>1, <1>2 DEF RequestOK
<1>4. PTypeOK' /\ OwnTokens'
  <2>1. /\ users' \in UserTable /\ sessions' \subseteq Sessions /\ tokens' \in Seq(Token)
        /\ members' \in [Sessions -> [Users -> Roles \cup {"owner", None}]]
    BY <1>1, <1>3 DEF PInv, PTypeOK
  <2> QED BY <1>1, <1>2, <2>1, HandlerKeeps
<1>5. Owned'
  <2>1. Slots' = Slots /\ \A j \in Slots : j # i => requests'[j] = requests[j]
    BY <1>2, SlotFacts DEF PInv
  <2>2. Excuses(requests'[i], r.on) /\ \A s \in Sessions : ~Excuses(requests[i], s)
    BY <1>1, <1>2 DEF Excuses, DeleteOps
  <2>3. ASSUME NEW s \in sessions
        PROVE  members[s][Owner[s]] = "owner" \/ \E j \in Slots : Excuses(requests'[j], s)
    <3>1. members[s][Owner[s]] = "owner" \/ \E j \in Slots : Excuses(requests[j], s)
      BY DEF PInv, Owned
    <3>2. s \in Sessions
      BY DEF PInv, PTypeOK
    <3> QED BY <2>1, <2>2, <3>1, <3>2
  <2>4. /\ \A s \in Sessions : \A u \in Users :
             /\ members[s][u] = "owner" => u = Owner[s]
             /\ members[s][u] # None => s \in sessions'
        /\ \A s \in Sessions : members[s][Owner[s]] \in {"owner", None}
    BY <1>1 DEF PInv, Owned
  <2> QED BY <1>1, <2>1, <2>2, <2>3, <2>4 DEF Owned
<1>6. ASSUME OneByOne' PROVE Serial'
  <2>1. OneByOne /\ i = 1 /\ Serial
    BY <1>2, <1>6, SlotFacts DEF OneByOne, PInv
  <2>2. ~users[Owner[r.on]].disabled
    BY <1>1, <2>1 DEF Serial
  <2>3. AnAdminRemains'
    BY <1>1, <2>1 DEF Serial, AnAdminRemains, require_admin
  <2>4. ASSUME NEW u \in Users, users[u].disabled
        PROVE  (\A t \in TokensOf(u)' : tokens'[t].revoked) /\ OwnedBy(u)' = {}
    BY <1>1, <2>1, <2>2, <2>4 DEF Serial, TokensOf, OwnedBy
  <2> QED BY <1>1, <1>2, <2>1, <2>2, <2>3, <2>4 DEF Serial
<1> QED BY <1>4, <1>5, <1>6 DEF PInv, OneByOne

LEMMA OwnerAdded ==
  ASSUME PInv, NEW i \in Slots, UNCHANGED Unseen, At(i, "register", "owner"),
         create_new_session(i)
  PROVE  PInv'
<1> DEFINE s == requests[i].on
<1>1. /\ UNCHANGED <<users, tokens, sessions, page, dialog>>
      /\ requests[i].op = "register" /\ requests[i].pc = "owner"
      /\ members' = WithOwner(s) /\ Finish(i)
  BY DEF create_new_session, At, Unseen
<1>2. Slot(i) /\ requests'[i].pc = "idle"
  BY <1>1, FinishSlot DEF PInv
<1>3. s \in Sessions /\ Owner[s] \in Users
  <2>1. RequestOK(requests[i])
    BY <1>1, Taken DEF PInv
  <2> QED BY <1>1, <2>1, RecordsAssumption DEF RequestOK
<1>4. members \in [Sessions -> [Users -> Roles \cup {"owner", None}]]
  BY DEF PInv, PTypeOK
<1>5. /\ members' \in [Sessions -> [Users -> Roles \cup {"owner", None}]]
      /\ s \in sessions => members'[s][Owner[s]] = "owner"
      /\ \A x \in Sessions, u \in Users :
           members'[x][u] = members[x][u]
           \/ (x = s /\ u = Owner[s] /\ s \in sessions /\ members'[x][u] = "owner")
  BY <1>1, <1>3, <1>4 DEF WithOwner
<1>6. PTypeOK' /\ OwnTokens'
  <2>1. users' \in UserTable /\ sessions' \subseteq Sessions /\ tokens' \in Seq(Token)
    BY <1>1 DEF PInv, PTypeOK
  <2> QED BY <1>1, <1>2, <1>5, <2>1, HandlerKeeps
<1>7. Owned'
  <2>1. Slots' = Slots /\ \A j \in Slots : j # i => requests'[j] = requests[j]
    BY <1>2, SlotFacts DEF PInv
  <2>2. \A x \in Sessions : Owner[x] \in Users
    BY RecordsAssumption
  <2>3. ASSUME NEW x \in sessions
        PROVE  members'[x][Owner[x]] = "owner" \/ \E j \in Slots : Excuses(requests'[j], x)
    <3>1. x \in Sessions
      BY DEF PInv, PTypeOK
    <3>2. CASE x = s
      BY <1>5, <3>2
    <3>3. CASE x # s
      <4>1. members[x][Owner[x]] = "owner" \/ \E j \in Slots : Excuses(requests[j], x)
        BY DEF PInv, Owned
      <4>2. ~Excuses(requests[i], x)
        BY <1>1, <3>3 DEF Excuses, DeleteOps
      <4> QED BY <1>5, <2>1, <2>2, <3>1, <3>3, <4>1, <4>2
    <3> QED BY <3>2, <3>3
  <2>4. \A x \in Sessions : \A u \in Users :
          /\ members'[x][u] = "owner" => u = Owner[x]
          /\ members'[x][u] # None => x \in sessions
    BY <1>5 DEF PInv, Owned
  <2>5. \A x \in Sessions : members'[x][Owner[x]] \in {"owner", None}
    BY <1>5, <2>2 DEF PInv, Owned
  <2> QED BY <1>1, <2>1, <2>3, <2>4, <2>5 DEF Owned
<1>8. ASSUME OneByOne' PROVE Serial'
  <2>1. OneByOne /\ i = 1
    BY <1>2, <1>8, SlotFacts DEF OneByOne, PInv
  <2> QED BY <1>1, <1>2, <2>1, SerialKept
<1> QED BY <1>6, <1>7, <1>8 DEF PInv, OneByOne

-----------------------------------------------------------------------------
(* Pages and dialogs.                                                       *)

LEMMA PagesKept ==
  ASSUME PTypeOK, NEW i \in Slots, Slot(i), UNCHANGED <<users, tokens, sessions, members>>,
         dialog' = [u \in Actors |-> dialog'[u]], page' = [u \in Actors |-> page'[u]],
         \A u \in Actors :
           /\ dialog'[u] \in {None, dialog[u]}
           /\ page'[u] = [p \in Pages |-> page'[u][p]]
           /\ page'[u]["users"] \in UserTable \/ page'[u]["users"] = page[u]["users"]
  PROVE  PTypeOK'
<1>1. /\ Slots' = Slots /\ requests' = [j \in Slots |-> requests'[j]]
      /\ \A j \in Slots : requests'[j] = Idle \/ RequestOK(requests'[j])
  BY SlotFacts
<1>2. ASSUME NEW u \in Actors
      PROVE  /\ dialog'[u] = None \/ DialogOK(dialog'[u])
             /\ dialog'[u] # None /\ dialog'[u].op = "update_user" =>
                  page'[u]["users"] \in UserTable
             /\ page'[u]["users"] \in UserTable \cup {None}
  BY DEF PTypeOK
<1> QED BY <1>1, <1>2 DEF PTypeOK

\* The list of a page is replaced, or nothing is.
LEMMA PageGiven ==
  ASSUME PTypeOK, NEW by, NEW p, NEW list, p = "users" => list \in UserTable,
         page' = page \/ page' = [page EXCEPT ![by][p] = list]
  PROVE  /\ page' = [u \in Actors |-> page'[u]]
         /\ \A u \in Actors :
              /\ page'[u] = [q \in Pages |-> page'[u][q]]
              /\ page'[u]["users"] \in UserTable \/ page'[u]["users"] = page[u]["users"]
<1>1. page = [u \in Actors |-> page[u]] /\ \A u \in Actors : page[u] = [q \in Pages |-> page[u][q]]
  BY DEF PTypeOK
<1>2. "users" \in Pages
  BY DEF Pages
<1>3. CASE page' = page
  BY <1>1, <1>3
<1>4. CASE page' = [page EXCEPT ![by][p] = list]
  <2>1. page' = [u \in Actors |-> page'[u]]
    BY <1>1, <1>4
  <2>2. ASSUME NEW u \in Actors
        PROVE  page'[u] = page[u] \/ page'[u] = [page[u] EXCEPT ![p] = list]
    BY <1>1, <1>4
  <2>3. ASSUME NEW u \in Actors
        PROVE  /\ page'[u] = [q \in Pages |-> page'[u][q]]
               /\ page'[u]["users"] \in UserTable \/ page'[u]["users"] = page[u]["users"]
    BY <1>1, <1>2, <2>2
  <2> QED BY <2>1, <2>3
<1> QED BY <1>3, <1>4

\* The answer to a request is shown, and the request is done with.
LEMMA AnswerShown ==
  ASSUME PInv, NEW i \in Slots, Answered(i), Finish(i),
         UNCHANGED <<users, tokens, sessions, members>>,
         Closes(i) \/ dialog' = dialog,
         NEW p, NEW list, p = "users" => list \in UserTable,
         page' = page \/ page' = [page EXCEPT ![requests[i].by][p] = list]
  PROVE  PInv'
<1>1. Slot(i)
  BY FinishSlot DEF PInv
<1>2. dialog' = [u \in Actors |-> dialog'[u]] /\ \A u \in Actors : dialog'[u] \in {None, dialog[u]}
  BY DEF PInv, PTypeOK, Closes
<1>3. /\ page' = [u \in Actors |-> page'[u]]
      /\ \A u \in Actors :
           /\ page'[u] = [q \in Pages |-> page'[u][q]]
           /\ page'[u]["users"] \in UserTable \/ page'[u]["users"] = page[u]["users"]
  BY PageGiven DEF PInv
<1>4. PTypeOK'
  BY <1>1, <1>2, <1>3, PagesKept DEF PInv
<1> QED BY <1>4, FinishKept DEF Answered

LEMMA Answering ==
  ASSUME PInv, NEW i \in Slots,
         ListFetched(i) \/ UserUpdated(i) \/ SessionDeleted(i) \/ TokenRevoked(i)
         \/ MemberChanged(i)
  PROVE  PInv'
<1> DEFINE r == requests[i]
<1>1. Answered(i)
  BY DEF ListFetched, UserUpdated, SessionDeleted, TokenRevoked, MemberChanged, AskedBy
<1>2. RequestOK(r)
  BY <1>1, Taken DEF PInv, Answered
<1>3. CASE ListFetched(i)
  <2>1. /\ Finish(i) /\ UNCHANGED <<users, tokens, sessions, members, dialog>>
        /\ \/ page' = page
           \/ r.got # None /\ page' = [page EXCEPT ![r.by][r.val] = r.got]
        /\ r.op \in {"list_users", "list_all_sessions", "list_sessions", "list_tokens",
                      "list_session_members"}
    BY <1>3 DEF ListFetched, Showing, AskedBy
  <2>2. r.val = "users" /\ r.got # None => r.got \in UserTable
    BY <1>2, <2>1 DEF RequestOK, OtherLists
  <2>3. CASE page' = page
    <3>1. PICK p \in {"mine"} : p # "users"
      OBVIOUS
    <3> QED BY <1>1, <2>1, <2>3, <3>1, AnswerShown
  <2>4. CASE r.got # None /\ page' = [page EXCEPT ![r.by][r.val] = r.got]
    BY <1>1, <2>1, <2>2, <2>4, AnswerShown
  <2> QED BY <2>1, <2>3, <2>4
<1>4. CASE UserUpdated(i)
  <2>1. /\ Finish(i) /\ UNCHANGED <<users, tokens, sessions, members>> /\ Closes(i)
        /\ r.op = "update_user"
        /\ \/ page' = page
           \/ page' = [page EXCEPT ![r.by]["users"] = [r.list EXCEPT ![r.on][r.val[1]] = r.val[2]]]
    BY <1>4 DEF UserUpdated, AskedBy, PageAnswered
  <2>2. [r.list EXCEPT ![r.on][r.val[1]] = r.val[2]] \in UserTable
    <3>1. r.list \in UserTable /\ r.on \in Users /\ r.val \in Changes
      BY <1>2, <2>1 DEF RequestOK
    <3>2. [r.list[r.on] EXCEPT ![r.val[1]] = r.val[2]] \in Accounts
      BY <3>1 DEF UserTable, Accounts, Changes
    <3> QED BY <3>1, <3>2 DEF UserTable
  <2> QED BY <1>1, <2>1, <2>2, AnswerShown
<1>5. CASE SessionDeleted(i)
  <2>1. /\ Finish(i) /\ UNCHANGED <<users, tokens, sessions, members>> /\ Closes(i)
        /\ r.op \in OtherLists
        /\ page' = page \/ page' = [page EXCEPT ![r.by][r.val] = r.list \ {r.on}]
    BY <1>5 DEF SessionDeleted, AskedBy, PageAnswered, Showing, OtherLists, DeleteOps
  <2>2. r.val # "users"
    BY <1>2, <2>1 DEF RequestOK
  <2> QED BY <1>1, <2>1, <2>2, AnswerShown, SMTT(30)
<1>6. CASE TokenRevoked(i)
  <2>1. /\ Finish(i) /\ UNCHANGED <<users, tokens, sessions, members>> /\ Closes(i)
        /\ r.op \in OtherLists
        /\ page' = page \/ page' = [page EXCEPT ![r.by][r.val] = [r.list EXCEPT ![r.on] = TRUE]]
    BY <1>6 DEF TokenRevoked, AskedBy, PageAnswered, Showing, OtherLists
  <2>2. r.val # "users"
    BY <1>2, <2>1 DEF RequestOK
  <2> QED BY <1>1, <2>1, <2>2, AnswerShown
<1>7. CASE MemberChanged(i)
  <2>1. /\ Finish(i) /\ UNCHANGED <<users, tokens, sessions, members, dialog>>
        /\ \/ page' = page
           \/ page' = [page EXCEPT ![r.by]["members"] =
                          [page[r.by]["members"] EXCEPT ![r.val[1]] = r.val[2]]]
    BY <1>7 DEF MemberChanged, PageAnswered
  <2> QED BY <1>1, <2>1, AnswerShown
<1> QED BY <1>3, <1>4, <1>5, <1>6, <1>7

\* The list is asked for again in the slot of the request that was answered.
Refetched(r, p) ==
  [r EXCEPT !.op = ListOf(p), !.pc = "start", !.on = Subject(p), !.val = p, !.got = None,
            !.list = None]

LEMMA Refetching ==
  ASSUME PInv, NEW i \in Slots, Answered(i), NEW p \in {"tokens", "members"}, Refetch(i, p),
         UNCHANGED <<users, tokens, sessions, members, page>>, Closes(i) \/ dialog' = dialog
  PROVE  PInv'
<1> DEFINE r == requests[i]
           q == Refetched(r, p)
<1>1. RequestOK(r) /\ r.pc = "answered"
  BY Taken DEF PInv, Answered
<1>2. /\ q.pc = "start" /\ q.by = r.by /\ q.op = ListOf(p) /\ q.val = p /\ q.got = None
      /\ q.on = Subject(p) /\ q.list = None /\ q.ids = r.ids
      /\ q \in [by : Users, op : {q.op}, on : {q.on}, val : {q.val}, list : {q.list}, pc : {q.pc},
                got : {q.got}, ids : {q.ids}]
  BY <1>1 DEF RequestOK, Refetched
<1>3. ListOf(p) \in {"list_tokens", "list_session_members"}
  BY DEF ListOf
<1>4. requests' = [requests EXCEPT ![i] = requests'[i]] /\ requests'[i] = q
  BY DEF Refetch, PInv, PTypeOK, Slots, Refetched
<1> HIDE DEF q
<1>5. RequestOK(q)
  BY <1>2, <1>3 DEF RequestOK, OtherLists, DeleteOps, MemberOps
<1>6. Slot(i)
  BY <1>4, <1>5 DEF Slot
<1>7. PTypeOK'
  <2>1. /\ dialog' = [u \in Actors |-> dialog'[u]]
        /\ \A u \in Actors : dialog'[u] \in {None, dialog[u]}
    BY DEF PInv, PTypeOK, Closes
  <2>2. /\ page' = [u \in Actors |-> page'[u]]
        /\ \A u \in Actors :
             page'[u] = [x \in Pages |-> page'[u][x]] /\ page'[u]["users"] = page[u]["users"]
    BY DEF PInv, PTypeOK
  <2> QED BY <1>6, <2>1, <2>2, PagesKept DEF PInv
<1>8. /\ requests'[i].op # "update_user" /\ requests'[i].op # "register"
      /\ \A s \in Sessions : ~Excuses(requests[i], s)
  BY <1>1, <1>2, <1>3, <1>4 DEF Excuses
<1> QED BY <1>1, <1>6, <1>7, <1>8, TablesKept

LEMMA AnsweringWithList ==
  ASSUME PInv, NEW i \in Slots, TokenRenewed(i) \/ TokenCreated(i) \/ MemberAdded(i)
  PROVE  PInv'
<1>1. Answered(i)
  BY DEF TokenRenewed, TokenCreated, MemberAdded, AskedBy
<1>2. /\ UNCHANGED <<users, tokens, sessions, members, page>>
      /\ Closes(i) \/ dialog' = dialog
      /\ Finish(i) \/ \E p \in {"tokens", "members"} : Refetch(i, p)
  <2>1. CASE TokenRenewed(i)
    BY <2>1 DEF TokenRenewed
  <2>2. CASE TokenCreated(i)
    BY <2>2 DEF TokenCreated
  <2>3. CASE MemberAdded(i)
    BY <2>3 DEF MemberAdded
  <2> QED BY <2>1, <2>2, <2>3
<1>3. CASE Finish(i)
  <2>1. PICK p \in {"mine"} : p # "users"
    OBVIOUS
  <2> QED BY <1>1, <1>2, <1>3, <2>1, AnswerShown
<1>4. CASE \E p \in {"tokens", "members"} : Refetch(i, p)
  BY <1>1, <1>2, <1>4, Refetching
<1> QED BY <1>2, <1>3, <1>4

-----------------------------------------------------------------------------
(* What a user asks for.                                                    *)

\* No handler takes a step.
LEMMA RequestsKept ==
  ASSUME PInv, PTypeOK', UNCHANGED <<users, tokens, sessions, members, requests>>
  PROVE  PInv'
<1>1. Owned'
  BY DEF PInv, Owned, Slots
<1>2. OwnTokens'
  BY DEF PInv, OwnTokens, Slots
<1>3. ASSUME OneByOne' PROVE Serial'
  <2>1. OneByOne /\ Serial
    BY <1>3 DEF OneByOne, PInv, Slots
  <2>2. requests'[1].op = "update_user" /\ requests'[1].pc = "update" => MayUpdate(requests[1])'
    BY <2>1 DEF Serial, MayUpdate, require_admin
  <2>3. AnAdminRemains'
    BY <2>1 DEF Serial, AnAdminRemains, require_admin
  <2>4. \A u \in Users : OwnedBy(u)' = OwnedBy(u) /\ TokensOf(u)' = TokensOf(u)
    BY DEF OwnedBy, TokensOf
  <2>5. \A u \in Users : users[u].disabled =>
          /\ \/ \A t \in TokensOf(u)' : tokens[t].revoked
             \/ requests[1].op = "update_user" /\ requests[1].pc = "revoke" /\ requests[1].on = u
          /\ \/ OwnedBy(u)' = {}
             \/ /\ requests[1].op = "update_user" /\ requests[1].on = u
                /\ requests[1].pc \in {"revoke", "sessions", "members", "delete"}
    BY <2>1, <2>4 DEF Serial
  <2>6. requests[1].op = "register" /\ requests[1].pc \in {"insert", "owner"} =>
          ~users[Owner[requests[1].on]].disabled
    BY <2>1 DEF Serial
  <2> QED BY <2>2, <2>3, <2>5, <2>6 DEF Serial
<1> QED BY <1>1, <1>2, <1>3 DEF PInv, OneByOne

LEMMA DialogOpened ==
  ASSUME PInv, NEW u \in Actors, UNCHANGED <<rvars, page>>, NEW d, d = None \/ DialogOK(d),
         d # None /\ d.op = "update_user" => page[u]["users"] \in UserTable,
         dialog' = [dialog EXCEPT ![u] = d]
  PROVE  PInv'
<1>1. PTypeOK
  BY DEF PInv
<1>2. /\ UNCHANGED <<users, tokens, sessions, members, requests, page>> /\ Slots' = Slots
      /\ dialog' = [v \in Actors |-> dialog'[v]] /\ dialog'[u] = d
      /\ \A v \in Actors : v # u => dialog'[v] = dialog[v]
  BY <1>1 DEF PTypeOK, rvars, Slots
<1>3. \A v \in Actors :
        /\ dialog'[v] = None \/ DialogOK(dialog'[v])
        /\ dialog'[v] # None /\ dialog'[v].op = "update_user" => page'[v]["users"] \in UserTable
        /\ page'[v] = [p \in Pages |-> page'[v][p]]
        /\ page'[v]["users"] \in UserTable \cup {None}
  BY <1>1, <1>2 DEF PTypeOK
<1>4. PTypeOK'
  BY <1>1, <1>2, <1>3 DEF PTypeOK
<1> QED BY <1>2, <1>4, RequestsKept

LEMMA Opening ==
  ASSUME PInv, NEW u \in Actors, UsersTab(u) \/ SessionsTab(u) \/ SessionsPanel(u)
         \/ (\E t \in DOMAIN tokens : on_revoke_token(u, t) \/ on_renew_token(u, t))
  PROVE  PInv'
<1>1. CASE UsersTab(u)
  <2>1. PICK v \in Users, f \in Fields : on_toggle(u, v, f)
    BY <1>1 DEF UsersTab
  <2>2. page[u]["users"] \in UserTable
    BY <2>1 DEF on_toggle, PInv, PTypeOK
  <2>3. <<f, ~page[u]["users"][v][f]>> \in Changes
    <3>1. f \in {"admin", "disabled", "voice"} /\ page[u]["users"][v] \in Accounts
      BY <2>2, PanelsAssumption DEF UserTable
    <3> QED BY <3>1 DEF Changes, Accounts
  <2> DEFINE d == [page |-> "users", op |-> "update_user", on |-> v,
                   val |-> <<f, ~page[u]["users"][v][f]>>, list |-> page[u]["users"]]
  <2>4. UNCHANGED <<rvars, page>> /\ dialog' = [dialog EXCEPT ![u] = d]
    BY <2>1 DEF on_toggle, Dialog
  <2>5. /\ d.op = "update_user" /\ d.on = v /\ d.list = page[u]["users"]
        /\ d.val = <<f, ~page[u]["users"][v][f]>>
    OBVIOUS
  <2> HIDE DEF d
  <2>6. DialogOK(d)
    BY <2>2, <2>3, <2>5 DEF DialogOK, DialogOps
  <2> QED BY <2>2, <2>4, <2>6, DialogOpened
<1>2. ASSUME NEW p, NEW on, NEW op \in DialogOps \ {"update_user"}, p # "users",
             Dialog(u, p, op, on, p)
      PROVE  PInv'
  <2> DEFINE d == [page |-> p, op |-> op, on |-> on, val |-> p, list |-> page[u][p]]
  <2>1. UNCHANGED <<rvars, page>> /\ dialog' = [dialog EXCEPT ![u] = d]
    BY <1>2 DEF Dialog
  <2>2. d.op = op /\ d.val = p
    OBVIOUS
  <2> HIDE DEF d
  <2>3. DialogOK(d)
    BY <1>2, <2>2 DEF DialogOK
  <2> QED BY <1>2, <2>1, <2>2, <2>3, DialogOpened
<1>3. CASE SessionsTab(u)
  BY <1>2, <1>3 DEF SessionsTab, on_delete_all, DialogOps, DeleteOps
<1>4. CASE SessionsPanel(u)
  BY <1>2, <1>4 DEF SessionsPanel, on_delete_session, DialogOps, DeleteOps
<1>5. CASE \E t \in DOMAIN tokens : on_revoke_token(u, t) \/ on_renew_token(u, t)
  BY <1>2, <1>5 DEF on_revoke_token, on_renew_token, DialogOps
<1> QED BY <1>1, <1>3, <1>4, <1>5

\* A request that nothing is known of yet but that it may be made.
LEMMA RequestMade ==
  ASSUME PInv, NEW by \in Users, NEW op, NEW on, NEW val, NEW list,
         Request(by, op, on, val, list),
         UNCHANGED <<users, tokens, sessions, members, page, dialog>>,
         op = "update_user" => on \in Users /\ val \in Changes /\ list \in UserTable,
         op = "list_users" => val = "users",
         op \in OtherLists => val # "users",
         op \in MemberOps => /\ on \in Sessions /\ val \in Users \X (Roles \cup {None})
                             /\ op # "remove_session_member" => val[2] \in Roles,
         op = "register" => /\ on \in Sessions /\ val[1] \in DOMAIN tokens
                            /\ tokens[val[1]].user = Owner[on],
         op = "create_token" => "tokens" \in Shown
  PROVE  PInv'
<1>1. PICK i \in Slots :
        /\ Slot(i) /\ requests[i].pc = "idle"
        /\ RequestOK(requests'[i]) /\ requests'[i].pc = "start" /\ requests'[i].op = op
        /\ requests'[i].on = on /\ requests'[i].val = val
  BY NewSlot DEF PInv
<1>2. PTypeOK'
  <2>1. /\ users' \in UserTable /\ tokens' \in Seq(Token) /\ sessions' \subseteq Sessions
        /\ members' \in [Sessions -> [Users -> Roles \cup {"owner", None}]]
    BY DEF PInv, PTypeOK
  <2> QED BY <1>1, <2>1, TypesKept DEF PInv
<1>3. \A s \in Sessions : ~Excuses(requests[i], s)
  BY <1>1 DEF Excuses
<1> QED BY <1>1, <1>2, <1>3, TablesKept

LEMMA OpeningPage ==
  ASSUME PInv, NEW u \in Actors, NEW p \in Shown, OpenPage(u, p)
  PROVE  PInv'
<1>1. p \in Pages /\ u \in Users
  BY PanelsAssumption
<1>2. /\ ListOf("users") = "list_users" /\ ListOf("all") = "list_all_sessions"
      /\ ListOf("mine") = "list_sessions" /\ ListOf("tokens") = "list_tokens"
      /\ ListOf("members") = "list_session_members"
  BY DEF ListOf
<1>3. /\ Request(u, ListOf(p), Subject(p), p, None)
      /\ UNCHANGED <<users, tokens, sessions, members, page, dialog>>
  BY DEF OpenPage, Asks
<1>4. /\ ListOf(p) \in OtherLists \cup {"list_users"} /\ ListOf(p) \notin DeleteOps
      /\ ListOf(p) # "revoke_token" /\ (ListOf(p) = "list_users" <=> p = "users")
  BY <1>1, <1>2 DEF Pages, OtherLists, DeleteOps
<1>5. ListOf(p) \notin {"update_user", "register", "create_token"} \cup MemberOps
  BY <1>1, <1>2 DEF Pages, MemberOps
<1>6. ListOf(p) \in OtherLists => p # "users"
  BY <1>2 DEF OtherLists, DeleteOps
<1> QED BY <1>1, <1>3, <1>4, <1>5, <1>6, RequestMade

LEMMA Confirming ==
  ASSUME PInv, NEW u \in Actors, Confirm(u)
  PROVE  PInv'
<1> DEFINE d == dialog[u]
<1>1. /\ d # None /\ UNCHANGED <<users, tokens, sessions, members, page, dialog>>
      /\ \E list \in {page[u]["users"], d.list} : Request(u, d.op, d.on, d.val, list)
  BY DEF Confirm
<1>2. DialogOK(d) /\ (d.op = "update_user" => page[u]["users"] \in UserTable) /\ u \in Users
  BY <1>1, PanelsAssumption DEF PInv, PTypeOK
<1>3. PICK list \in {page[u]["users"], d.list} : Request(u, d.op, d.on, d.val, list)
  BY <1>1
<1>4. /\ d.op = "update_user" => d.on \in Users /\ d.val \in Changes /\ list \in UserTable
      /\ d.op \notin MemberOps \cup {"list_users", "register", "create_token"}
      /\ d.op \in OtherLists => d.val # "users"
  BY <1>2, <1>3 DEF DialogOK, DialogOps, DeleteOps, MemberOps, OtherLists
<1> HIDE DEF d
<1> QED BY <1>1, <1>2, <1>3, <1>4, RequestMade

LEMMA Sharing ==
  ASSUME PInv, NEW u \in Actors, ShareDialog(u)
  PROVE  PInv'
<1>1. Subject("members") \in Sessions
  BY PanelsAssumption DEF Subject, PInv, PTypeOK
<1>2. PICK v \in Users :
        \/ \E role \in Roles :
             Request(u, "add_session_member", Subject("members"), <<v, role>>, None)
        \/ Request(u, "remove_session_member", Subject("members"), <<v, None>>, None)
        \/ \E role \in Roles :
             Request(u, "update_session_member_role", Subject("members"), <<v, role>>, None)
  BY DEF ShareDialog
<1>3. UNCHANGED <<users, tokens, sessions, members, page, dialog>> /\ u \in Users
  BY PanelsAssumption DEF ShareDialog
<1>4. PICK op \in MemberOps, role \in Roles \cup {None} :
        /\ Request(u, op, Subject("members"), <<v, role>>, None)
        /\ op # "remove_session_member" => role \in Roles
  BY <1>2 DEF MemberOps
<1>5. /\ <<v, role>> \in Users \X (Roles \cup {None}) /\ <<v, role>>[2] = role
      /\ op \notin OtherLists \cup {"update_user", "list_users", "register", "create_token"}
  BY DEF MemberOps, OtherLists, DeleteOps
<1>6. op # "remove_session_member" => <<v, role>>[2] \in Roles
  BY <1>4, <1>5
<1> QED BY <1>1, <1>3, <1>4, <1>5, <1>6, RequestMade

LEMMA ClickKeeps ==
  ASSUME PInv, NEW u \in Actors, ClickStep(u)
  PROVE  PInv'
<1>1. CASE \E p \in Shown : OpenPage(u, p)
  BY <1>1, OpeningPage
<1>2. CASE \/ UsersTab(u) \/ SessionsTab(u) \/ SessionsPanel(u)
           \/ \E t \in DOMAIN tokens : on_revoke_token(u, t) \/ on_renew_token(u, t)
  BY <1>2, Opening
<1>3. CASE "tokens" \in Shown /\ on_create_token(u)
  <2>1. /\ Request(u, "create_token", None, None, None)
        /\ UNCHANGED <<users, tokens, sessions, members, page, dialog>> /\ u \in Users
    BY <1>3, PanelsAssumption DEF on_create_token
  <2>2. "create_token" \notin OtherLists \cup MemberOps
    BY DEF OtherLists, DeleteOps, MemberOps
  <2> QED BY <1>3, <2>1, <2>2, RequestMade
<1>4. CASE ShareDialog(u)
  BY <1>4, Sharing
<1>5. CASE Confirm(u)
  BY <1>5, Confirming
<1>6. CASE Cancel(u)
  <2>1. UNCHANGED <<rvars, page>> /\ dialog' = [dialog EXCEPT ![u] = None]
    BY <1>6 DEF Cancel
  <2> QED BY <2>1, DialogOpened
<1> QED BY <1>1, <1>2, <1>3, <1>4, <1>5, <1>6 DEF ClickStep, TokensPanel

-----------------------------------------------------------------------------
(* Every step keeps the invariant.                                          *)

LEMMA HandlerStep ==
  ASSUME PInv, NEW i \in Slots, "db_error" \notin RecordFaults,
         AdminStep(i) \/ MemberStep(i) \/ SessionStep(i) \/ TokenStep(i) \/ RegistrationStep(i)
  PROVE  PInv'
<1>1. CASE AdminStep(i)
  <2>1. CASE update_user(i) /\ UNCHANGED Unseen
    <3>1. \/ requests[i].pc = "start" \/ At(i, "update_user", "update")
          \/ At(i, "update_user", "revoke")
      BY <2>1 DEF update_user, At
    <3> QED BY <2>1, <3>1, Starting, AccountChanged, TokensRevoked
  <2>2. CASE admin_delete_session(i) /\ UNCHANGED Unseen
    <3>1. requests[i].pc = "start"
      BY <2>2 DEF admin_delete_session, At
    <3> QED BY <2>2, <3>1, Starting
  <2> QED BY <1>1, <2>1, <2>2, Reading, BanGoesOn DEF AdminStep, AdminHandlers
<1>2. CASE MemberStep(i)
  BY <1>2, Reading, MemberStarting, MemberChanging DEF MemberStep, MemberHandlers
<1>3. CASE SessionStep(i)
  <2>1. CASE delete_session(i) /\ UNCHANGED Unseen
    <3>1. requests[i].pc = "start"
      BY <2>1 DEF delete_session, At
    <3> QED BY <2>1, <3>1, Starting
  <2> QED BY <1>3, <2>1, Reading, Deleting DEF SessionStep, SessionHandlers
<1>4. CASE TokenStep(i)
  BY <1>4, Reading, TokenCreating, TokenChanging, RenewStarting DEF TokenStep, TokenHandlers
<1>5. CASE RegistrationStep(i)
  <2>1. CASE create_new_session(i) /\ UNCHANGED Unseen
    <3>1. \/ At(i, "register", "verify") \/ At(i, "register", "insert")
          \/ At(i, "register", "owner")
      BY <2>1 DEF create_new_session
    <3> QED BY <2>1, <3>1, ProxyRegistering, Inserting, OwnerAdded
  <2>2. ~StatementFails(i)
    BY DEF StatementFails
  <2> QED BY <1>5, <2>1, <2>2, ProxyRegistering DEF RegistrationStep, ProxyHandlers
<1> QED BY <1>1, <1>2, <1>3, <1>4, <1>5

LEMMA ProxyKeeps ==
  ASSUME PInv, NEW s \in Sessions, Proxy(s)
  PROVE  PInv'
<1>1. CASE Register(s) /\ UNCHANGED Unseen
  <2>1. PICK t \in TokensOf(Owner[s]) :
          Request(Owner[s], "register", s, <<t, tokens[t].hash>>, None)
    BY <1>1 DEF Register
  <2>2. UNCHANGED <<users, tokens, sessions, members, page, dialog>>
    BY <1>1 DEF Register, Unseen
  <2>3. /\ Owner[s] \in Users /\ <<t, tokens[t].hash>>[1] = t
        /\ t \in DOMAIN tokens /\ tokens[t].user = Owner[s]
    BY <2>1, RecordsAssumption DEF TokensOf
  <2>4. "register" \notin OtherLists \cup MemberOps
    BY DEF OtherLists, DeleteOps, MemberOps
  <2> QED BY <2>1, <2>2, <2>3, <2>4, RequestMade
<1>2. CASE ProxyEnds(s) /\ UNCHANGED Unseen
  <2>1. UNCHANGED <<users, tokens, sessions, members, requests, page, dialog>>
    BY <1>2 DEF ProxyEnds, Unseen
  <2>2. PTypeOK'
    BY <2>1 DEF PInv, PTypeOK, Slots
  <2> QED BY <2>1, <2>2, RequestsKept
<1> QED BY <1>1, <1>2 DEF Proxy

LEMMA PNextKeeps ==
  ASSUME PInv, [PNext]_pvars, "db_error" \notin RecordFaults
  PROVE  PInv'
<1>1. CASE UNCHANGED pvars
  <2>1. UNCHANGED <<users, tokens, sessions, members, requests, page, dialog>>
    BY <1>1 DEF pvars, rvars
  <2>2. PTypeOK'
    BY <2>1 DEF PInv, PTypeOK, Slots
  <2> QED BY <2>1, <2>2, RequestsKept
<1>2. ASSUME NEW i \in Slots, AnswerStep(i)
      PROVE  PInv'
  BY <1>2, Answering, AnsweringWithList DEF AnswerStep
<1>3. ASSUME NEW i \in Slots,
             AdminStep(i) \/ MemberStep(i) \/ SessionStep(i) \/ TokenStep(i) \/ RegistrationStep(i)
      PROVE  PInv'
  BY <1>3, HandlerStep
<1> QED BY <1>1, <1>2, <1>3, ClickKeeps, ProxyKeeps DEF PNext

-----------------------------------------------------------------------------
(* The tables at the start.                                                 *)

LEMMA FirstTokens ==
  LET S == {[user |-> u, revoked |-> FALSE, hash |-> 0] : u \in Users} IN
  SetToSeq(S) \in Seq(Token) /\ \A t \in DOMAIN SetToSeq(S) : ~SetToSeq(S)[t].revoked
<1> DEFINE First(u) == [user |-> u, revoked |-> FALSE, hash |-> 0]
           S == {First(u) : u \in Users}
           f == [u \in Users |-> First(u)]
<1>1. ExistsBijection(Users, S)
  <2>1. f \in Bijection(Users, S)
    BY DEF Bijection, Injection, Surjection, IsInjective
  <2> QED BY <2>1 DEF ExistsBijection
<1>2. IsFiniteSet(S)
  BY <1>1, FS_Bijection, RecordsAssumption
<1>3. Cardinality(S) \in Nat /\ ExistsBijection(1 .. Cardinality(S), S)
  BY <1>2, FS_CardinalityType
<1>4. SetToSeq(S) \in [1 .. Cardinality(S) -> S]
  BY <1>3 DEF SetToSeq, ExistsBijection, Bijection, Injection
<1>5. ASSUME NEW x \in S
      PROVE  x \in Token /\ ~x.revoked
  <2>1. PICK u \in Users : x = First(u)
    OBVIOUS
  <2> QED BY <2>1 DEF Token
<1>6. /\ SetToSeq(S) \in [1 .. Cardinality(S) -> Token]
      /\ \A t \in DOMAIN SetToSeq(S) : ~SetToSeq(S)[t].revoked
  BY <1>4, <1>5
<1> QED BY <1>3, <1>6, SeqDef

LEMMA PInitKeeps == PInit => PInv
<1> SUFFICES ASSUME PInit PROVE PInv
  OBVIOUS
<1>1. /\ users \in UserTable
      /\ \A u \in Users : ~users[u].disabled /\ (users[u].admin <=> u \in Administrators)
  <2> DEFINE First(u) == [admin |-> u \in Administrators, disabled |-> FALSE, voice |-> FALSE]
  <2>1. users = [u \in Users |-> First(u)]
    BY DEF PInit, RInit
  <2>2. ASSUME NEW u \in Users
        PROVE  /\ First(u) \in Accounts /\ ~First(u).disabled
               /\ First(u).admin <=> u \in Administrators
    <3> DEFINE b == u \in Administrators
    <3>1. b \in BOOLEAN /\ First(u) = [admin |-> b, disabled |-> FALSE, voice |-> FALSE]
      OBVIOUS
    <3> HIDE DEF b
    <3>2. First(u) \in Accounts /\ ~First(u).disabled /\ (First(u).admin <=> b)
      BY <3>1 DEF Accounts
    <3> QED BY <3>2 DEF b
  <2> HIDE DEF First
  <2> QED BY <2>1, <2>2 DEF UserTable
<1>2. tokens \in Seq(Token)
  BY FirstTokens DEF PInit, RInit
<1>3. members \in [Sessions -> [Users -> Roles \cup {"owner", None}]]
  BY DEF PInit, RInit
<1>4. /\ requests = [i \in Slots |-> requests[i]]
      /\ \A i \in Slots : requests[i] = Idle /\ requests[i].pc = "idle" /\ requests[i].op = None
  BY DEF PInit, RInit, Slots, Idle
<1>5. PTypeOK
  <2>1. "users" \in Pages
    BY DEF Pages
  <2> QED BY <1>1, <1>2, <1>3, <1>4, <2>1, RecordsAssumption DEF PInit, RInit, PTypeOK
<1>6. Owned
  BY RecordsAssumption, NoneIsNoRole DEF PInit, RInit, Owned
<1>7. OwnTokens
  BY <1>4 DEF OwnTokens
<1>8. ASSUME OneByOne PROVE Serial
  <2>1. AnAdminRemains
    BY <1>1, <1>8, RecordsAssumption DEF OneByOne, AnAdminRemains, require_admin, UserTable
  <2>2. requests[1].pc = "idle"
    BY <1>4, <1>8 DEF OneByOne
  <2> QED BY <1>1, <2>1, <2>2 DEF Serial
<1> QED BY <1>5, <1>6, <1>7, <1>8 DEF PInv, OneByOne

\* The types and the strengthening hold of every reachable state.
THEOREM RecordsInvariance ==
  ASSUME "db_error" \notin RecordFaults
  PROVE  PSpec => []PInv
<1>1. PInv /\ [PNext]_pvars => PInv'
  BY PNextKeeps
<1> QED BY <1>1, PInitKeeps, PTL DEF PSpec

\* Whatever overlaps, when no handler is at work the owner of every session in the
\* table is its only owner, and a session that is gone has no members: deletion in
\* two statements, registration in two, and changes of members between them.
THEOREM SessionsHaveOwners ==
  ASSUME "db_error" \notin RecordFaults
  PROVE  PSpec => []SessionHasOwner
<1>1. PInv => SessionHasOwner
  <2> SUFFICES ASSUME PInv, Quiet, NEW s \in DOMAIN members, NEW u \in DOMAIN members[s]
               PROVE  /\ (members[s][u] = "owner") <=> (s \in sessions /\ u = Owner[s])
                      /\ members[s][u] # None => s \in sessions
    BY DEF SessionHasOwner
  <2>1. s \in Sessions /\ u \in Users
    BY DEF PInv, PTypeOK
  <2>2. \A i \in Slots : requests[i].pc \in {"idle", "answered"}
    BY DEF Quiet, Answered, Idle
  <2>3. \A i \in Slots : ~Excuses(requests[i], s)
    BY <2>2 DEF Excuses
  <2> QED BY <2>1, <2>3, NoneIsNoRole DEF PInv, Owned
<1> QED BY <1>1, RecordsInvariance, PTL

\* Where requests are handled one at a time an administrator remains, and a ban
\* leaves its user no session and no token.
THEOREM SerialAccounts ==
  ASSUME "db_error" \notin RecordFaults, Administrators # {}, "tokens" \notin Shown
  PROVE  PSpec => []SerialAccountsAreWhole
<1>1. PInv => SerialAccountsAreWhole
  <2> SUFFICES ASSUME PInv, Slots = {1} PROVE AnAdminRemains /\ BannedHasNothing
    BY DEF SerialAccountsAreWhole
  <2>1. Serial
    BY DEF PInv
  <2>2. Quiet => requests[1].pc \in {"idle", "answered"}
    BY DEF Quiet, Answered, Idle
  <2>3. DOMAIN users = Users
    BY DEF PInv, PTypeOK, UserTable
  <2> QED BY <2>1, <2>2, <2>3 DEF Serial, BannedHasNothing
<1> QED BY <1>1, RecordsInvariance, PTL

-----------------------------------------------------------------------------
(***************************************************************************)
(* Part 4.  Retention                                                      *)
(***************************************************************************)
-----------------------------------------------------------------------------
CONSTANTS max_messages_per_session, MaxDeletions, Mishaps

VARIABLES
  stats, messages, inserted, aged, storing, pending_truncations, cleaner, deleting, aging,
  deleted_session_costs, counted, spent, spend, stale_tokens, deletions

Kept == INSTANCE Retention WITH row <- stats, written <- inserted

Deletions == [by : {"user", "age"}, session : Sessions, cost : Nat,
              pc : {"record", "messages", "session"}]

Row == [cost : Nat, old : BOOLEAN, exists : BOOLEAN]
Work == [pc : {"idle", "insert", "cost", "queue", "touch"}, result : BOOLEAN]

TTypeOK ==
  /\ stats \in [Sessions -> Row]
  /\ counted \in [Sessions -> Nat] /\ inserted \in [Sessions -> Nat] /\ aged \in [Sessions -> Nat]
  /\ storing \in [Sessions -> Work]
  /\ messages \in [Sessions -> SUBSET Nat]
  /\ pending_truncations \subseteq Sessions
  /\ deleting \subseteq Deletions
  /\ aging \in [on : BOOLEAN, rows : SUBSET Deletions] /\ \A d \in aging.rows : d.pc = "record"
  /\ cleaner \in [pc : {"idle", "drain", "age", "next", "count", "select", "delete"},
                  ids : SUBSET Sessions, left : SUBSET Sessions, session : Sessions \cup {None},
                  excess : Nat, doomed : SUBSET Nat]

\* The session is in the table and no deletion has begun to take its messages.
Stays(s) == stats[s].exists /\ \A d \in deleting : d.session = s => d.pc = "record"

\* The newest messages of s that are within the limit and not too old are stored.
NewestStored(s) ==
  \A n \in 1 .. inserted[s] :
    n > aged[s] /\ n + max_messages_per_session > inserted[s] => n \in messages[s]

\* What the truncation of s has counted is still there, and what it has chosen has
\* enough newer ones, however many were stored since.
TruncationOK(s) ==
  /\ cleaner.pc = "select" =>
       cleaner.excess + max_messages_per_session <= Cardinality(messages[s])
  /\ cleaner.pc = "delete" =>
       \A n \in cleaner.doomed : n + max_messages_per_session <= inserted[s]

TInv ==
  /\ TTypeOK
  /\ \A s \in Sessions :
       /\ messages[s] \subseteq 1 .. inserted[s]
       /\ Stays(s) => NewestStored(s)
       /\ Stays(s) /\ cleaner.session = s => TruncationOK(s)
  /\ cleaner.pc \in {"count", "select", "delete"} => cleaner.session \in Sessions

\* A session's row whose age or cost changes is a row, and stays in the table or out.
LEMMA RowTouched ==
  ASSUME NEW t \in [Sessions -> Row], NEW s \in Sessions, NEW o \in BOOLEAN
  PROVE  /\ [t EXCEPT ![s].old = o] \in [Sessions -> Row]
         /\ \A r \in Sessions : [t EXCEPT ![s].old = o][r].exists = t[r].exists
<1>1. t[s] \in Row
  OBVIOUS
<1>2. [t[s] EXCEPT !.old = o] \in Row
  BY <1>1 DEF Row
<1>3. [t EXCEPT ![s].old = o] \in [Sessions -> Row]
  BY <1>2, Zenon
<1>4. \A r \in Sessions : [t EXCEPT ![s].old = o][r].exists = t[r].exists
  BY <1>1 DEF Row
<1> QED BY <1>3, <1>4

LEMMA RowPriced ==
  ASSUME NEW t \in [Sessions -> Row], NEW s \in Sessions, NEW c \in Nat
  PROVE  /\ [t EXCEPT ![s].cost = c] \in [Sessions -> Row]
         /\ \A r \in Sessions : [t EXCEPT ![s].cost = c][r].exists = t[r].exists
<1>1. t[s] \in Row
  OBVIOUS
<1>2. [t[s] EXCEPT !.cost = c] \in Row
  BY <1>1 DEF Row
<1>3. [t EXCEPT ![s].cost = c] \in [Sessions -> Row]
  BY <1>2, Zenon
<1>4. \A r \in Sessions : [t EXCEPT ![s].cost = c][r].exists = t[r].exists
  BY <1>1 DEF Row
<1> QED BY <1>3, <1>4

\* The next step of a handler is one of its steps.
LEMMA GoesOnIsWork ==
  ASSUME storing \in [Sessions -> Work], NEW s \in Sessions
  PROVE  /\ Kept!Following(s) \in {"idle", "insert", "cost", "queue", "touch"}
         /\ [storing EXCEPT ![s].pc = Kept!Following(s)] \in [Sessions -> Work]
<1>1. storing[s] \in Work
  OBVIOUS
<1>2. Kept!Following(s) \in {"idle", "insert", "cost", "queue", "touch"}
  BY <1>1 DEF Kept!Following, Work
<1>3. [storing[s] EXCEPT !.pc = Kept!Following(s)] \in Work
  BY <1>1, <1>2 DEF Work
<1> QED BY <1>2, <1>3, Zenon

(* Retention counts with the same definition.                               *)
LEMMA SameCardinality ==
  ASSUME NEW S
  PROVE  Kept!Cardinality(S) = Cardinality(S)
BY DEF Kept!Cardinality, Cardinality

\* Of the oldest e of M, each has at least `limit' newer ones in M when M has that
\* many more than e: their numbers are between 1 and w.
LEMMA ChosenHaveNewer ==
  ASSUME NEW M, NEW w \in Nat, M \subseteq 1 .. w, NEW e \in Nat, NEW limit \in Nat,
         e + limit <= Cardinality(M), NEW n \in Kept!Oldest(M, e)
  PROVE  n + limit <= w
<1> DEFINE Low == {k \in M : k < n}
           High == {k \in M : ~(k < n)}
<1>1. n \in M /\ n \in Nat /\ n <= w /\ Cardinality(Low) < e
  BY SameCardinality DEF Kept!Oldest
<1>2. IsFiniteSet(1 .. w) /\ IsFiniteSet(n .. w) /\ Cardinality(n .. w) = w - n + 1
  BY <1>1, FS_Interval
<1>3. IsFiniteSet(M)
  BY <1>2, FS_Subset
<1>4. IsFiniteSet(Low) /\ IsFiniteSet(High)
  BY <1>3, FS_Subset
<1>5. Cardinality(M) = Cardinality(Low) + Cardinality(High)
  <2>1. M = Low \cup High /\ Low \cap High = {}
    OBVIOUS
  <2> HIDE DEF Low, High
  <2>2. Low \cap High = {} => Cardinality(Low \cap High) = 0
    BY FS_EmptySet
  <2>3. Cardinality(Low \cup High)
          = Cardinality(Low) + Cardinality(High) - Cardinality(Low \cap High)
    BY <1>4, FS_Union
  <2>4. Cardinality(Low) \in Nat /\ Cardinality(High) \in Nat
    BY <1>4, FS_CardinalityType
  <2> QED BY <2>1, <2>2, <2>3, <2>4
<1>6. Cardinality(High) <= w - n + 1
  <2>1. High \subseteq n .. w
    <3> SUFFICES ASSUME NEW k \in M, ~(k < n) PROVE k \in n .. w
      OBVIOUS
    <3> QED BY <1>1
  <2> HIDE DEF High
  <2> QED BY <1>2, <2>1, FS_Subset
<1>7. Cardinality(Low) \in Nat /\ Cardinality(High) \in Nat
  BY <1>4, FS_CardinalityType
<1> HIDE DEF Low, High
<1> QED BY <1>1, <1>5, <1>6, <1>7

\* A message that is added to those stored makes them no fewer.
LEMMA CountOfStored ==
  ASSUME NEW M, NEW w \in Nat, M \subseteq 1 .. w
  PROVE  /\ IsFiniteSet(M) /\ Cardinality(M) \in Nat
         /\ Cardinality(M) <= Cardinality(M \cup {w + 1})
<1>1. IsFiniteSet(1 .. w)
  BY FS_Interval
<1>2. IsFiniteSet(M) /\ Cardinality(M) \in Nat
  BY <1>1, FS_Subset, FS_CardinalityType
<1>3. IsFiniteSet(M \cup {w + 1})
  BY <1>2, FS_AddElement
<1> QED BY <1>2, <1>3, FS_Subset

LEMMA TInitKeeps == Kept!TInit => TInv
<1> SUFFICES ASSUME Kept!TInit PROVE TInv
  OBVIOUS
<1>1. TTypeOK
  BY DEF Kept!TInit, Kept!Idle, TTypeOK, Row, Work
<1> QED BY <1>1 DEF Kept!TInit, Kept!Idle, TInv, Stays, NewestStored, TruncationOK

-----------------------------------------------------------------------------
(* The outputs                                                              *)

LEMMA StoreMessageKeeps ==
  ASSUME TInv, max_messages_per_session \in Nat, NEW s \in Sessions, Kept!StoreMessage(s)
  PROVE  TInv'
<1>0. stats' = stats \/ stats' = [stats EXCEPT ![s].old = FALSE]
  BY DEF Kept!StoreMessage
<1> USE DEF Kept!StoreMessage
<1>1. TTypeOK'
  <2>0. TTypeOK
    BY DEF TInv
  <2>1. storing' \in [Sessions -> Work]
    <3>1. Kept!Following(s) \in {"idle", "insert", "cost", "queue", "touch"}
      BY <2>0, GoesOnIsWork DEF TTypeOK
    <3>2. CASE Kept!GoesOn(s)
      BY <2>0, <3>2, GoesOnIsWork DEF TTypeOK, Kept!GoesOn
    <3>3. CASE \E result \in BOOLEAN :
                 storing' = [storing EXCEPT ![s] = [pc |-> Kept!Following(s), result |-> result]]
      <4>1. PICK result \in BOOLEAN :
              storing' = [storing EXCEPT ![s] = [pc |-> Kept!Following(s), result |-> result]]
        BY <3>3
      <4>2. [pc |-> Kept!Following(s), result |-> result] \in Work
        BY <3>1 DEF Work
      <4> QED BY <2>0, <4>1, <4>2 DEF TTypeOK
    <3> QED BY <3>2, <3>3
  <2>2. stats' \in [Sessions -> Row]
    <3>1. stats \in [Sessions -> Row]
      BY <2>0 DEF TTypeOK
    <3>2. [stats EXCEPT ![s].old = FALSE] \in [Sessions -> Row]
      BY <3>1, RowTouched, Zenon
    <3> HIDE DEF Kept!StoreMessage
    <3> QED BY <1>0, <3>1, <3>2, Zenon
  <2>3. messages' \in [Sessions -> SUBSET Nat]
    <3>1. messages[s] \cup {inserted[s] + 1} \in SUBSET Nat
      BY <2>0 DEF TTypeOK
    <3>2. messages \in [Sessions -> SUBSET Nat]
      BY <2>0 DEF TTypeOK
    <3>3. \/ messages' = messages
          \/ messages' = [messages EXCEPT ![s] = messages[s] \cup {inserted[s] + 1}]
      OBVIOUS
    <3> QED BY <3>1, <3>2, <3>3
  <2>5. inserted' \in [Sessions -> Nat]
    BY <2>0 DEF TTypeOK
  <2>4. pending_truncations' \subseteq Sessions
    BY <2>0 DEF TTypeOK
  <2> QED BY <2>0, <2>1, <2>2, <2>3, <2>4, <2>5 DEF TTypeOK
<1>2. deleting' = deleting /\ aged' = aged /\ cleaner' = cleaner
  OBVIOUS
<1>3. ASSUME NEW t \in Sessions PROVE stats'[t].exists = stats[t].exists
  <2>1. stats \in [Sessions -> Row]
    BY DEF TInv, TTypeOK
  <2>2. [stats EXCEPT ![s].old = FALSE][t].exists = stats[t].exists
    BY <2>1, RowTouched, Zenon
  <2> HIDE DEF Kept!StoreMessage
  <2> QED BY <1>0, <2>2, Zenon
<1>4. ASSUME NEW t \in Sessions PROVE Stays(t)' = Stays(t)
  BY <1>2, <1>3 DEF Stays
<1>5. CASE messages' = messages /\ inserted' = inserted
  BY <1>1, <1>2, <1>4, <1>5 DEF TInv, NewestStored, TruncationOK
<1>6. CASE storing[s].pc = "insert"
  <2>1. inserted' = [inserted EXCEPT ![s] = @ + 1]
    BY <1>6
  <2>2. messages' = IF stats[s].exists
                    THEN [messages EXCEPT ![s] = @ \cup {inserted[s] + 1}] ELSE messages
    BY <1>6
  <2>3. ASSUME NEW t \in Sessions
        PROVE  /\ (messages[t] \subseteq 1 .. inserted[t])'
               /\ (Stays(t) => NewestStored(t))'
               /\ (Stays(t) /\ cleaner.session = t => TruncationOK(t))'
    <3>0. inserted[t] \in Nat /\ aged[t] \in Nat /\ messages[t] \subseteq 1 .. inserted[t]
      BY DEF TInv, TTypeOK
    <3>1. CASE t # s
      <4>1. messages'[t] = messages[t] /\ inserted'[t] = inserted[t]
        BY <2>1, <2>2, <3>1 DEF TInv, TTypeOK
      <4> QED BY <1>2, <1>4, <4>1 DEF TInv, NewestStored, TruncationOK
    <3>2. CASE t = s
      <4>1. inserted'[t] = inserted[t] + 1
        BY <2>1, <3>2 DEF TInv, TTypeOK
      <4>2. messages'[t] \subseteq 1 .. inserted'[t]
        BY <2>2, <3>0, <3>2, <4>1 DEF TInv, TTypeOK
      <4>3. ASSUME Stays(t) PROVE messages'[t] = messages[t] \cup {inserted[t] + 1}
        BY <2>2, <3>2, <4>3 DEF TInv, TTypeOK, Stays
      <4>4. ASSUME Stays(t) PROVE NewestStored(t)'
        BY <1>2, <3>0, <4>1, <4>3, <4>4 DEF TInv, NewestStored
      <4>5. ASSUME Stays(t), cleaner.session = t PROVE TruncationOK(t)'
        <5>1. TruncationOK(t)
          BY <4>5 DEF TInv
        <5>2. Cardinality(messages[t]) <= Cardinality(messages'[t])
              /\ Cardinality(messages[t]) \in Nat /\ Cardinality(messages'[t]) \in Nat
          <6>1. IsFiniteSet(messages[t]) /\ IsFiniteSet(messages'[t])
            <7>1. inserted'[t] \in Nat
              BY <3>0, <4>1
            <7>2. IsFiniteSet(messages[t])
              BY <3>0, CountOfStored
            <7>3. IsFiniteSet(messages'[t])
              BY <4>2, <7>1, CountOfStored
            <7> QED BY <7>2, <7>3
          <6>2. messages'[t] = messages[t] \cup {inserted[t] + 1}
            BY <4>3, <4>5
          <6> QED BY <3>0, <6>1, <6>2, CountOfStored, FS_CardinalityType
        <5>3. cleaner.excess \in Nat /\ cleaner.doomed \subseteq Nat
          BY DEF TInv, TTypeOK
        <5> QED BY <1>2, <3>0, <4>1, <5>1, <5>2, <5>3 DEF TruncationOK
      <4> QED BY <1>2, <1>4, <4>2, <4>4, <4>5
    <3> QED BY <3>1, <3>2
  <2> QED BY <1>1, <1>2, <2>3 DEF TInv
<1> QED BY <1>5, <1>6

LEMMA store_result_metadataKeeps ==
  ASSUME TInv, NEW s \in Sessions, Kept!store_result_metadata(s)
  PROVE  TInv'
<1> USE DEF Kept!store_result_metadata, Kept!truncation
<1>1. TTypeOK'
  <2>0. TTypeOK
    BY DEF TInv
  <2>1. storing' \in [Sessions -> Work]
    BY <2>0, GoesOnIsWork DEF TTypeOK, Kept!GoesOn
  <2>2. counted' \in [Sessions -> Nat] /\ Kept!NewCost(s) \in Nat
    BY <2>0 DEF TTypeOK, Kept!NewCost
  <2>3. stats' \in [Sessions -> Row]
    BY <2>0, <2>2, RowPriced DEF TTypeOK
  <2> QED BY <2>0, <2>1, <2>2, <2>3 DEF TTypeOK
<1>2. /\ deleting' = deleting /\ aged' = aged /\ cleaner' = cleaner
      /\ messages' = messages /\ inserted' = inserted
  OBVIOUS
<1>3. ASSUME NEW t \in Sessions PROVE stats'[t].exists = stats[t].exists
  BY RowPriced DEF TInv, TTypeOK
<1>4. ASSUME NEW t \in Sessions PROVE Stays(t)' = Stays(t)
  BY <1>2, <1>3 DEF Stays
<1> QED BY <1>1, <1>2, <1>4 DEF TInv, NewestStored, TruncationOK

LEMMA MessageAgesKeeps ==
  ASSUME TInv, NEW s \in Sessions, Kept!MessageAges(s)
  PROVE  TInv'
<1> USE DEF Kept!MessageAges, Kept!records, Kept!truncation
<1>1. TTypeOK'
  BY DEF TInv, TTypeOK
<1>2. /\ deleting' = deleting /\ stats' = stats /\ cleaner' = cleaner
      /\ messages' = messages /\ inserted' = inserted
  OBVIOUS
<1>3. ASSUME NEW t \in Sessions PROVE aged'[t] >= aged[t]
  BY DEF TInv, TTypeOK
<1>4. ASSUME NEW t \in Sessions, NewestStored(t) PROVE NewestStored(t)'
  <2>1. aged[t] \in Nat /\ aged'[t] \in Nat /\ inserted[t] \in Nat
    BY <1>1 DEF TInv, TTypeOK
  <2> QED BY <1>2, <1>3, <1>4, <2>1 DEF NewestStored
<1> QED BY <1>1, <1>2, <1>4 DEF TInv, Stays, TruncationOK

LEMMA AgentResumesKeeps ==
  ASSUME TInv, NEW s \in Sessions, Kept!AgentResumes(s)
  PROVE  TInv'
<1> USE DEF Kept!AgentResumes, Kept!records, Kept!truncation
<1>1. TTypeOK'
  BY DEF TInv, TTypeOK
<1> QED BY <1>1 DEF TInv, Stays, NewestStored, TruncationOK

LEMMA get_user_usageKeeps ==
  ASSUME TInv, Kept!get_user_usage
  PROVE  TInv'
<1> USE DEF Kept!get_user_usage, Kept!records, Kept!truncation, Kept!agents
<1> HIDE DEF Kept!ActiveCosts
<1> QED BY DEF TInv, TTypeOK, Stays, NewestStored, TruncationOK

-----------------------------------------------------------------------------
(* The truncation task                                                      *)

CleanerType ==
  [pc : {"idle", "drain", "age", "next", "count", "select", "delete"},
   ids : SUBSET Sessions, left : SUBSET Sessions, session : Sessions \cup {None},
   excess : Nat, doomed : SUBSET Nat]

\* The task's steps that delete nothing, and leave what was counted or chosen.
LEMMA CleanerMoves ==
  ASSUME TInv, UNCHANGED <<Kept!records, Kept!agents, messages>>,
         pending_truncations' \subseteq pending_truncations, cleaner' \in CleanerType,
         cleaner'.pc \in {"idle", "drain", "age", "next", "count"},
         cleaner'.pc = "count" => cleaner'.session \in Sessions
  PROVE  TInv'
<1> USE DEF Kept!records, Kept!agents
<1>1. TTypeOK'
  BY DEF TInv, TTypeOK, CleanerType
<1> QED BY <1>1 DEF TInv, Stays, NewestStored, TruncationOK

LEMMA CleanerStepKeeps ==
  ASSUME TInv, max_messages_per_session \in Nat, Kept!CleanerStep
  PROVE  TInv'
<1>0. cleaner \in CleanerType /\ pending_truncations \subseteq Sessions
  BY DEF TInv, TTypeOK, CleanerType
<1>1. CASE Kept!drain_pending_truncations
  <2>1. cleaner' \in CleanerType /\ cleaner'.pc \in {"idle", "drain"}
    <3>1. CASE cleaner' = [Kept!Idle EXCEPT !.pc = "drain", !.ids = pending_truncations,
                                            !.left = pending_truncations]
      BY <1>0, <3>1 DEF CleanerType, Kept!Idle
    <3>2. CASE cleaner.pc = "drain" /\ \E s \in cleaner.left :
                 cleaner' = [cleaner EXCEPT !.left = @ \ {s}]
      BY <1>0, <3>2 DEF CleanerType
    <3> QED BY <1>1, <3>1, <3>2 DEF Kept!drain_pending_truncations
  <2>2. pending_truncations' \subseteq pending_truncations
    BY <1>1 DEF Kept!drain_pending_truncations
  <2>3. UNCHANGED <<Kept!records, Kept!agents, messages>>
    BY <1>1 DEF Kept!drain_pending_truncations
  <2> QED BY <2>1, <2>2, <2>3, CleanerMoves
<1>2. CASE Kept!run_retention_cleanup
  <2>1. cleaner' \in CleanerType /\ cleaner'.pc \in {"idle", "age"}
    BY <1>0, <1>2 DEF CleanerType, Kept!Idle, Kept!run_retention_cleanup
  <2>2. UNCHANGED <<Kept!records, Kept!agents, messages, pending_truncations>>
    BY <1>2 DEF Kept!run_retention_cleanup
  <2> QED BY <2>1, <2>2, CleanerMoves
<1>3. CASE Kept!delete_old_messages
  <2>1. cleaner' \in CleanerType /\ cleaner'.pc = "next"
    BY <1>0, <1>3 DEF CleanerType, Kept!delete_old_messages
  <2>2. messages' = [s \in Sessions |-> {n \in messages[s] : n > aged[s]}]
    BY <1>3 DEF Kept!delete_old_messages
  <2>3. UNCHANGED <<Kept!records, Kept!agents, pending_truncations>>
    BY <1>3 DEF Kept!delete_old_messages
  <2>4. messages' \in [Sessions -> SUBSET Nat]
    BY <2>2 DEF TInv, TTypeOK
  <2>5. TTypeOK'
    BY <2>1, <2>3, <2>4 DEF TInv, TTypeOK, CleanerType, Kept!records, Kept!agents
  <2>6. ASSUME NEW s \in Sessions
        PROVE  /\ messages'[s] \subseteq messages[s]
               /\ \A n \in messages[s] : n > aged[s] => n \in messages'[s]
    BY <2>2
  <2>7. ASSUME NEW s \in Sessions, NewestStored(s) PROVE NewestStored(s)'
    BY <2>3, <2>6, <2>7 DEF NewestStored, Kept!agents
  <2> QED BY <2>1, <2>3, <2>5, <2>6, <2>7
          DEF TInv, Stays, TruncationOK, Kept!records, Kept!agents
<1>4. CASE Kept!truncate_session_messages
  <2> DEFINE s == cleaner.session
             count == Cardinality(messages[s])
  <2>0. UNCHANGED <<Kept!records, Kept!agents, pending_truncations>>
    BY <1>4 DEF Kept!truncate_session_messages
  <2>00. Kept!Cardinality(messages[s]) = count
    BY SameCardinality
  <2>1. CASE cleaner.pc = "next"
    <3>1. messages' = messages
      BY <1>4, <2>1 DEF Kept!truncate_session_messages
    <3>2. \/ cleaner' = Kept!Idle
          \/ \E t \in cleaner.ids :
               cleaner' = [cleaner EXCEPT !.pc = "count", !.session = t, !.ids = @ \ {t}]
      BY <1>4, <2>1 DEF Kept!truncate_session_messages
    <3>3. /\ cleaner' \in CleanerType /\ cleaner'.pc \in {"idle", "count"}
          /\ cleaner'.pc = "count" => cleaner'.session \in Sessions
      <4>1. CASE cleaner' = Kept!Idle
        BY <4>1 DEF CleanerType, Kept!Idle
      <4>2. CASE \E t \in cleaner.ids :
                   cleaner' = [cleaner EXCEPT !.pc = "count", !.session = t, !.ids = @ \ {t}]
        <5>1. PICK t \in cleaner.ids :
                cleaner' = [cleaner EXCEPT !.pc = "count", !.session = t, !.ids = @ \ {t}]
          BY <4>2
        <5>2. t \in Sessions
          BY <1>0 DEF CleanerType
        <5> QED BY <1>0, <5>1, <5>2 DEF CleanerType
      <4> QED BY <3>2, <4>1, <4>2
    <3> QED BY <2>0, <3>1, <3>3, CleanerMoves
  <2> HIDE DEF count
  <2>2. CASE cleaner.pc = "count"
    <3>1. messages' = messages
      BY <1>4, <2>2 DEF Kept!truncate_session_messages
    <3>2. cleaner' = IF count <= max_messages_per_session THEN [cleaner EXCEPT !.pc = "next"]
                     ELSE [cleaner EXCEPT !.pc = "select",
                                          !.excess = count - max_messages_per_session]
      BY <1>4, <2>00, <2>2 DEF Kept!truncate_session_messages
    <3>3. s \in Sessions /\ count \in Nat
      <4>1. s \in Sessions
        BY <2>2 DEF TInv
      <4>2. inserted[s] \in Nat /\ messages[s] \subseteq 1 .. inserted[s]
        BY <4>1 DEF TInv, TTypeOK
      <4> QED BY <4>1, <4>2, CountOfStored DEF count
    <3>4. CASE count <= max_messages_per_session
      <4>1. cleaner' \in CleanerType /\ cleaner'.pc = "next"
        BY <1>0, <3>2, <3>4 DEF CleanerType
      <4> QED BY <2>0, <3>1, <4>1, CleanerMoves
    <3>5. CASE ~(count <= max_messages_per_session)
      <4>1. count - max_messages_per_session \in Nat
        BY <3>3, <3>5
      <4>2. /\ cleaner' \in CleanerType /\ cleaner'.pc = "select" /\ cleaner'.session = s
            /\ cleaner'.excess = count - max_messages_per_session
        BY <1>0, <3>2, <3>5, <4>1 DEF CleanerType
      <4>3. TTypeOK'
        BY <2>0, <3>1, <4>2 DEF TInv, TTypeOK, CleanerType, Kept!records, Kept!agents
      <4>4. cleaner'.excess + max_messages_per_session = count
        BY <3>3, <4>2
      <4>5. ASSUME NEW t \in Sessions, cleaner'.session = t PROVE TruncationOK(t)'
        <5>1. Cardinality(messages'[t]) = count
          BY <3>1, <4>2, <4>5 DEF count
        <5> QED BY <3>3, <4>2, <4>4, <5>1 DEF TruncationOK
      <4> QED BY <2>0, <3>1, <3>3, <4>2, <4>3, <4>5
              DEF TInv, Stays, NewestStored, Kept!records, Kept!agents
    <3> QED BY <3>4, <3>5
  <2>3. CASE cleaner.pc = "select"
    <3>1. messages' = messages
      BY <1>4, <2>3 DEF Kept!truncate_session_messages
    <3>2. cleaner' = [cleaner EXCEPT !.pc = "delete",
                                     !.doomed = Kept!Oldest(messages[s], cleaner.excess)]
      BY <1>4, <2>3 DEF Kept!truncate_session_messages
    <3>3. s \in Sessions
      BY <2>3 DEF TInv
    <3>4. inserted[s] \in Nat /\ messages[s] \subseteq 1 .. inserted[s]
      BY <3>3 DEF TInv, TTypeOK
    <3>5. Kept!Oldest(messages[s], cleaner.excess) \in SUBSET Nat
      BY <3>4 DEF Kept!Oldest
    <3>6. /\ cleaner' \in CleanerType /\ cleaner'.pc = "delete" /\ cleaner'.session = s
          /\ cleaner'.doomed = Kept!Oldest(messages[s], cleaner.excess)
      BY <1>0, <3>2, <3>5 DEF CleanerType
    <3>7. TTypeOK'
      BY <2>0, <3>1, <3>6 DEF TInv, TTypeOK, CleanerType, Kept!records, Kept!agents
    <3>8. ASSUME NEW t \in Sessions, cleaner'.session = t, Stays(t) PROVE TruncationOK(t)'
      <4>1. t = s
        BY <3>6, <3>8
      <4>2. cleaner.excess + max_messages_per_session <= Cardinality(messages[s])
        BY <2>3, <3>3, <3>8, <4>1 DEF TInv, TruncationOK
      <4>3. cleaner.excess \in Nat
        BY <1>0 DEF CleanerType
      <4>4. ASSUME NEW n \in Kept!Oldest(messages[s], cleaner.excess)
            PROVE  n + max_messages_per_session <= inserted[s]
        BY <3>4, <4>2, <4>3, ChosenHaveNewer
      <4>5. inserted' = inserted
        BY <2>0 DEF Kept!agents
      <4> QED BY <3>6, <4>1, <4>4, <4>5 DEF TruncationOK
    <3> QED BY <2>0, <3>1, <3>3, <3>6, <3>7, <3>8
            DEF TInv, Stays, NewestStored, Kept!records, Kept!agents
  <2>4. CASE cleaner.pc = "delete"
    <3>1. messages' = [messages EXCEPT ![s] = @ \ cleaner.doomed]
      BY <1>4, <2>4 DEF Kept!truncate_session_messages
    <3>2. cleaner' = [cleaner EXCEPT !.pc = "next"]
      BY <1>4, <2>4 DEF Kept!truncate_session_messages
    <3>3. cleaner' \in CleanerType /\ cleaner'.pc = "next"
      BY <1>0, <3>2 DEF CleanerType
    <3>4. s \in Sessions /\ messages \in [Sessions -> SUBSET Nat]
      BY <2>4 DEF TInv, TTypeOK
    <3>5. messages' \in [Sessions -> SUBSET Nat]
      BY <3>1, <3>4
    <3>6. TTypeOK'
      BY <2>0, <3>3, <3>5 DEF TInv, TTypeOK, CleanerType, Kept!records, Kept!agents
    <3>7. ASSUME NEW t \in Sessions
          PROVE  /\ messages'[t] \subseteq messages[t]
                 /\ t # s => messages'[t] = messages[t]
                 /\ messages[t] \ messages'[t] \subseteq cleaner.doomed
      BY <3>1, <3>4
    <3>8. inserted' = inserted /\ aged' = aged /\ stats' = stats /\ deleting' = deleting
      BY <2>0 DEF Kept!records, Kept!agents
    <3>9. ASSUME NEW t \in Sessions, Stays(t) PROVE NewestStored(t)'
      <4>1. NewestStored(t)
        BY <3>9 DEF TInv
      <4>2. CASE t # s
        BY <3>7, <3>8, <4>1, <4>2 DEF NewestStored
      <4>3. CASE t = s
        <5>1. \A n \in cleaner.doomed : n + max_messages_per_session <= inserted[t]
          BY <2>4, <3>9, <4>3 DEF TInv, TruncationOK
        <5>2. inserted[t] \in Nat
          BY DEF TInv, TTypeOK
        <5>3. ASSUME NEW n \in 1 .. inserted[t], n > aged[t],
                     n + max_messages_per_session > inserted[t]
              PROVE  n \in messages'[t]
          <6>1. n \notin cleaner.doomed
            BY <5>1, <5>2, <5>3
          <6> QED BY <3>7, <4>1, <5>3, <6>1 DEF NewestStored
        <5> QED BY <3>8, <5>3 DEF NewestStored
      <4> QED BY <4>2, <4>3
    <3> QED BY <3>3, <3>6, <3>7, <3>8, <3>9 DEF TInv, Stays, TruncationOK
  <2> QED BY <1>4, <2>1, <2>2, <2>3, <2>4 DEF Kept!truncate_session_messages
<1> QED BY <1>1, <1>2, <1>3, <1>4 DEF Kept!CleanerStep

-----------------------------------------------------------------------------
(* Deletions                                                                *)

\* A session's deletion begins with a record of its costs.
LEMMA DeletionTypeOK ==
  ASSUME stats \in [Sessions -> Row], NEW s \in Sessions, NEW by \in {"user", "age"}
  PROVE  /\ Kept!Deletion(by, s) \in Deletions
         /\ Kept!Deletion(by, s).session = s /\ Kept!Deletion(by, s).pc = "record"
BY DEF Kept!Deletion, Deletions, Row

\* Steps that change no message: what stays in the table stayed before.
LEMMA NothingTaken ==
  ASSUME TInv, UNCHANGED <<Kept!truncation, Kept!agents>>, TTypeOK',
         \A s \in Sessions : Stays(s)' => Stays(s)
  PROVE  TInv'
BY DEF TInv, NewestStored, TruncationOK, Kept!truncation, Kept!agents

LEMMA DeletionStepKeeps ==
  ASSUME TInv, Kept!DeletionStep, "db_error" \notin Mishaps
  PROVE  TInv'
<1>0. TTypeOK /\ stats \in [Sessions -> Row] /\ deleting \subseteq Deletions
  BY DEF TInv, TTypeOK
<1>1. ASSUME NEW s \in Sessions, Kept!DeleteSession(s) PROVE TInv'
  <2> DEFINE d == Kept!Deletion("user", s)
  <2>1. d \in Deletions /\ d.session = s /\ d.pc = "record"
    BY <1>0, DeletionTypeOK
  <2>2. deleting' = deleting \cup {d} /\ UNCHANGED <<stats, aging, Kept!truncation, Kept!agents>>
    BY <1>1 DEF Kept!DeleteSession
  <2> HIDE DEF d
  <2>3. TTypeOK'
    BY <1>0, <2>1, <2>2 DEF TTypeOK, Kept!truncation, Kept!agents
  <2>4. ASSUME NEW t \in Sessions, Stays(t)' PROVE Stays(t)
    BY <2>2, <2>4 DEF Stays
  <2> QED BY <2>2, <2>3, <2>4, NothingTaken
<1>2. ASSUME NEW s \in Sessions, Kept!SessionAges(s) PROVE TInv'
  <2>1. /\ stats' = [stats EXCEPT ![s].old = TRUE]
        /\ UNCHANGED <<deleting, aging, Kept!truncation, Kept!agents>>
    BY <1>2 DEF Kept!SessionAges
  <2>2. [stats EXCEPT ![s].old = TRUE] \in [Sessions -> Row]
    BY <1>0, RowTouched, Zenon
  <2>3. ASSUME NEW t \in Sessions PROVE stats'[t].exists = stats[t].exists
    <3>1. [stats EXCEPT ![s].old = TRUE][t].exists = stats[t].exists
      BY <1>0, RowTouched, Zenon
    <3> QED BY <2>1, <3>1, Zenon
  <2>4. TTypeOK'
    <3>1. stats' \in [Sessions -> Row]
      BY <2>1, <2>2, Zenon
    <3>2. UNCHANGED <<deleting, aging, Kept!truncation, Kept!agents>>
      BY <2>1
    <3> QED BY <1>0, <3>1, <3>2 DEF TTypeOK, Kept!truncation, Kept!agents
  <2>5. ASSUME NEW t \in Sessions, Stays(t)' PROVE Stays(t)
    <3>1. deleting' = deleting
      BY <2>1
    <3> QED BY <2>3, <2>5, <3>1 DEF Stays
  <2>6. UNCHANGED <<Kept!truncation, Kept!agents>>
    BY <2>1
  <2> QED BY <2>4, <2>5, <2>6, NothingTaken
<1>3. CASE Kept!run_session_age_cleanup
  <2> DEFINE old == {s \in Kept!Existing : stats[s].old}
  <2>1. /\ aging' = [on |-> TRUE, rows |-> {Kept!Deletion("age", s) : s \in old}]
        /\ UNCHANGED <<stats, deleting, Kept!truncation, Kept!agents>>
    BY <1>3 DEF Kept!run_session_age_cleanup
  <2>2. old \subseteq Sessions
    BY DEF Kept!Existing
  <2> HIDE DEF old
  <2>3. \A s \in old : Kept!Deletion("age", s) \in Deletions /\ Kept!Deletion("age", s).pc = "record"
    BY <1>0, <2>2, DeletionTypeOK
  <2>4. aging' \in [on : BOOLEAN, rows : SUBSET Deletions]
        /\ \A d \in aging'.rows : d.pc = "record"
    BY <2>1, <2>3
  <2>5. TTypeOK'
    BY <1>0, <2>1, <2>4 DEF TTypeOK, Kept!truncation, Kept!agents
  <2>6. ASSUME NEW t \in Sessions, Stays(t)' PROVE Stays(t)
    BY <2>1, <2>6 DEF Stays
  <2> QED BY <2>1, <2>5, <2>6, NothingTaken
<1>4. CASE Kept!DeleteNextOld
  <2>1. aging \in [on : BOOLEAN, rows : SUBSET Deletions] /\ \A d \in aging.rows : d.pc = "record"
    BY <1>0 DEF TTypeOK
  <2>2. /\ aging' \in [on : BOOLEAN, rows : SUBSET Deletions]
        /\ aging'.rows \subseteq aging.rows /\ deleting \subseteq deleting'
        /\ deleting' \subseteq deleting \cup aging.rows
    BY <1>4, <2>1 DEF Kept!DeleteNextOld
  <2>3. UNCHANGED <<stats, Kept!truncation, Kept!agents>>
    BY <1>4 DEF Kept!DeleteNextOld
  <2>4. TTypeOK'
    BY <1>0, <2>1, <2>2, <2>3 DEF TTypeOK, Kept!truncation, Kept!agents
  <2>5. ASSUME NEW t \in Sessions, Stays(t)' PROVE Stays(t)
    BY <2>2, <2>3, <2>5 DEF Stays
  <2> QED BY <2>3, <2>4, <2>5, NothingTaken
<1>5. ASSUME NEW d \in deleting, Kept!delete_session_with_data(d) PROVE TInv'
  <2> USE DEF Kept!delete_session_with_data
  <2>0. d \in Deletions
    BY <1>0
  <2>1. UNCHANGED <<aging, pending_truncations, cleaner, Kept!agents>>
    BY <1>5
  <2>2. CASE d.pc = "record"
    <3>1. /\ deleting' = (deleting \ {d}) \cup {[d EXCEPT !.pc = "messages"]}
          /\ UNCHANGED <<stats, messages>>
      BY <1>5, <2>2
    <3>2. [d EXCEPT !.pc = "messages"] \in Deletions
          /\ [d EXCEPT !.pc = "messages"].session = d.session
          /\ [d EXCEPT !.pc = "messages"].pc = "messages"
      BY <2>0 DEF Deletions
    <3>3. TTypeOK'
      BY <1>0, <2>1, <3>1, <3>2 DEF TTypeOK, Kept!agents
    <3>4. ASSUME NEW t \in Sessions, Stays(t)' PROVE Stays(t)
      <4>1. stats[t].exists
        BY <3>1, <3>4 DEF Stays
      <4>2. ASSUME NEW e \in deleting, e.session = t PROVE e.pc = "record"
        BY <2>2, <3>1, <3>4, <4>2 DEF Stays
      <4> QED BY <4>1, <4>2 DEF Stays
    <3>5. UNCHANGED <<Kept!truncation, Kept!agents>>
      BY <2>1, <3>1 DEF Kept!truncation
    <3> QED BY <3>3, <3>4, <3>5, NothingTaken
  <2>3. CASE d.pc = "messages"
    <3>1. /\ deleting' = (deleting \ {d}) \cup {[d EXCEPT !.pc = "session"]}
          /\ messages' = [messages EXCEPT ![d.session] = {}] /\ stats' = stats
      BY <1>5, <2>3
    <3>2. [d EXCEPT !.pc = "session"] \in Deletions
          /\ [d EXCEPT !.pc = "session"].session = d.session
          /\ [d EXCEPT !.pc = "session"].pc = "session"
      BY <2>0 DEF Deletions
    <3>3. messages' \in [Sessions -> SUBSET Nat]
      BY <1>0, <3>1 DEF TTypeOK
    <3>4. TTypeOK'
      BY <1>0, <2>1, <3>1, <3>2, <3>3 DEF TTypeOK, Kept!agents
    <3>5. ~Stays(d.session)'
      BY <3>1, <3>2 DEF Stays
    <3>6. ASSUME NEW t \in Sessions, Stays(t)' PROVE Stays(t) /\ messages'[t] = messages[t]
      <4>1. t # d.session
        BY <3>5, <3>6
      <4>2. messages'[t] = messages[t]
        BY <1>0, <3>1, <4>1 DEF TTypeOK
      <4>3. ASSUME NEW e \in deleting, e.session = t PROVE e.pc = "record"
        BY <3>1, <3>6, <4>1, <4>3 DEF Stays
      <4> QED BY <3>1, <3>6, <4>2, <4>3 DEF Stays
    <3>7. ASSUME NEW t \in Sessions PROVE messages'[t] \subseteq messages[t]
      BY <1>0, <3>1 DEF TTypeOK
    <3> QED BY <2>1, <3>4, <3>6, <3>7 DEF TInv, NewestStored, TruncationOK, Kept!agents
  <2>4. CASE d.pc = "session"
    <3>1. /\ deleting' = deleting \ {d}
          /\ messages' = [messages EXCEPT ![d.session] = {}]
          /\ stats' = [stats EXCEPT ![d.session] = [cost |-> 0, old |-> FALSE, exists |-> FALSE]]
      BY <1>5, <2>4
    <3>2. d.session \in Sessions
      BY <2>0 DEF Deletions
    <3>3. stats' \in [Sessions -> Row] /\ ~stats'[d.session].exists
          /\ \A t \in Sessions \ {d.session} : stats'[t] = stats[t]
      <4>1. [cost |-> 0, old |-> FALSE, exists |-> FALSE] \in Row
        BY DEF Row
      <4> QED BY <1>0, <3>1, <3>2, <4>1
    <3>4. messages' \in [Sessions -> SUBSET Nat]
      BY <1>0, <3>1 DEF TTypeOK
    <3>5. TTypeOK'
      BY <1>0, <2>1, <3>1, <3>3, <3>4 DEF TTypeOK, Kept!agents
    <3>6. ASSUME NEW t \in Sessions, Stays(t)' PROVE Stays(t) /\ messages'[t] = messages[t]
      <4>1. t # d.session
        BY <3>3, <3>6 DEF Stays
      <4>2. messages'[t] = messages[t] /\ stats'[t] = stats[t]
        BY <1>0, <3>1, <3>3, <4>1 DEF TTypeOK
      <4>3. ASSUME NEW e \in deleting, e.session = t PROVE e.pc = "record"
        BY <3>1, <3>6, <4>1, <4>3 DEF Stays
      <4> QED BY <3>6, <4>2, <4>3 DEF Stays
    <3>7. ASSUME NEW t \in Sessions PROVE messages'[t] \subseteq messages[t]
      BY <1>0, <3>1 DEF TTypeOK
    <3> QED BY <2>1, <3>5, <3>6, <3>7 DEF TInv, NewestStored, TruncationOK, Kept!agents
  <2> QED BY <1>5, <2>2, <2>3, <2>4
<1>6. ASSUME NEW d \in deleting, Kept!DeletionFails(d) PROVE TInv'
  BY <1>6 DEF Kept!DeletionFails
<1> QED BY <1>1, <1>2, <1>3, <1>4, <1>5, <1>6 DEF Kept!DeletionStep

-----------------------------------------------------------------------------
\* The types and the strengthening hold of every reachable state.
THEOREM RetentionInvariance ==
  ASSUME max_messages_per_session \in Nat, "db_error" \notin Mishaps, "again" \notin Mishaps
  PROVE  Kept!TSpec => []TInv
<1>1. TInv /\ [Kept!TNext]_Kept!tvars => TInv'
  <2> SUFFICES ASSUME TInv, [Kept!TNext]_Kept!tvars PROVE TInv'
    OBVIOUS
  <2>1. ASSUME NEW s \in Sessions, Kept!StoreMessage(s) PROVE TInv'
    BY <2>1, StoreMessageKeeps
  <2>2. ASSUME NEW s \in Sessions, Kept!store_result_metadata(s) PROVE TInv'
    BY <2>2, store_result_metadataKeeps
  <2>3. ASSUME NEW s \in Sessions, Kept!MessageAges(s) PROVE TInv'
    BY <2>3, MessageAgesKeeps
  <2>4. ASSUME NEW s \in Sessions, Kept!Reregisters(s) PROVE TInv'
    BY <2>4 DEF Kept!Reregisters
  <2>5. ASSUME NEW s \in Sessions, Kept!AgentResumes(s) PROVE TInv'
    BY <2>5, AgentResumesKeeps
  <2>6. CASE Kept!CleanerStep
    BY <2>6, CleanerStepKeeps
  <2>7. CASE Kept!DeletionStep
    BY <2>7, DeletionStepKeeps
  <2>8. CASE Kept!get_user_usage
    BY <2>8, get_user_usageKeeps
  <2>9. CASE UNCHANGED Kept!tvars
    BY <2>9 DEF TInv, TTypeOK, Stays, NewestStored, TruncationOK,
                Kept!tvars, Kept!records, Kept!truncation, Kept!agents
  <2> QED BY <2>1, <2>2, <2>3, <2>4, <2>5, <2>6, <2>7, <2>8, <2>9 DEF Kept!TNext
<1> QED BY <1>1, TInitKeeps, PTL DEF Kept!TSpec

\* The truncation never takes one of the newest messages within the limit, in whatever
\* order outputs are stored, counted, chosen and deleted, and whatever deletions of
\* sessions overlap with that: a session that is whole has them all, but those too old.
THEOREM NewestAreKept ==
  ASSUME max_messages_per_session \in Nat, "db_error" \notin Mishaps, "again" \notin Mishaps
  PROVE  Kept!TSpec => []Kept!KeepsNewest
<1>1. TInv => Kept!KeepsNewest
  BY DEF TInv, Stays, NewestStored, Kept!KeepsNewest
<1> QED BY <1>1, RetentionInvariance, PTL
==============================================================================
