------------------------- MODULE AgentSessionProofs -------------------------
(***************************************************************************)
(* Theorems about AgentSession, for either agent and any number of         *)
(* permission requests, connections, inputs and iterations of wiggum mode. *)
(***************************************************************************)
EXTENDS AgentSession, SequenceTheorems, TLAPS

-----------------------------------------------------------------------------
(* The strengthening.                                                       *)

\* A request that the agent waits for is at one place: on its way to the Session,
\* the pending one, or its answer on the way back. One that was answered is at none.
Asked ==
  /\ Range(taken) \subseteq shown \ agent.asking /\ IsInjective(taken)
  /\ About(evt, "asks") \subseteq agent.asking /\ OneEach(evt, "asks")
  /\ About(cmd, "answer") \subseteq (agent.asking \intersect shown) \ About(evt, "asks")
  /\ OneEach(cmd, "answer")
  /\ session.pending # None =>
       session.pending \in agent.asking \ (About(evt, "asks") \union About(cmd, "answer"))

\* What answers is about a request that was shown, and the I/O task is given inputs
\* and answers only.
Answering ==
  /\ About(inbox, "answer") \union About(channel, "answer") \subseteq shown
  /\ \A i \in DOMAIN cmd : cmd[i].kind \in {"input", "answer"}

-----------------------------------------------------------------------------
(* Types.                                                                   *)

Agents == [alive : BOOLEAN, turns : Nat, asking : SUBSET Requests]
Events == [kind : {"done", "result", "asks", "exited", "error", "not found"},
           request : Requests \union {None}]
Sessions == [state : {"running", "waiting", "exited"},
             pending : Requests \union {None}, open : BOOLEAN]
Tasks == {"connecting", "registering", "main", "sleeping", "exited", "stopped"}
Links == {"up", "cut", "dead"}
Signals == {"disconnect", "terminated", "shutdown"}

Typed ==
  /\ agent \in Agents /\ io \in {"running", "ended"}
  /\ cmd \in Seq(Messages) /\ evt \in Seq(Events)
  /\ session \in Sessions /\ task \in Tasks
  /\ conn \in 0..MaxConnections /\ link \in Links
  /\ inbox \in Seq(Messages) /\ input \in Seq(Messages) /\ channel \in Seq(Messages)
  /\ signal \subseteq Signals /\ wiggum \in 0..MaxIterations
  /\ shown \subseteq Requests /\ answered \in [Requests -> 0..2] /\ inputs \in 0..MaxInputs
  /\ taken \in Seq(Requests) /\ dismissed \in BOOLEAN /\ fresh \in BOOLEAN

LEMMA TypedIsTypeOK == Typed <=> TypeOK
BY DEF Typed, TypeOK, Agents, Events, Sessions, Tasks, Links, Signals

LEMMA MessageShape ==
  /\ \A m \in Messages : m.request \in Requests \union {None}
  /\ \A w \in BOOLEAN : Input(w) \in Messages /\ Input(w).kind = "input"
  /\ \A r \in Requests \union {None} :
       Answer(r) \in Messages /\ Answer(r).kind = "answer" /\ Answer(r).request = r
  /\ \A k \in {"terminated", "shutdown"} : Tell(k) \in Messages /\ Tell(k).kind = k
BY DEF Messages, Input, Answer, Tell

LEMMA EventShape ==
  /\ \A e \in Events : e.request \in Requests \union {None}
  /\ \A k \in {"done", "result", "asks", "exited", "error", "not found"},
        r \in Requests \union {None} :
       Event(k, r) \in Events /\ Event(k, r).kind = k /\ Event(k, r).request = r
BY DEF Events, Event

LEMMA AgentShape ==
  ASSUME NEW a \in Agents
  PROVE  /\ a.alive \in BOOLEAN /\ a.turns \in Nat /\ a.asking \subseteq Requests
         /\ \A b \in BOOLEAN :
              /\ [a EXCEPT !.alive = b] \in Agents
              /\ [a EXCEPT !.alive = b].asking = a.asking
         /\ \A n \in Nat :
              /\ [a EXCEPT !.turns = n] \in Agents
              /\ [a EXCEPT !.turns = n].asking = a.asking
         /\ \A R \in SUBSET Requests :
              /\ [a EXCEPT !.asking = R] \in Agents
              /\ [a EXCEPT !.asking = R].asking = R
BY DEF Agents

LEMMA SessionShape ==
  ASSUME NEW s \in Sessions
  PROVE  /\ s.pending \in Requests \union {None}
         /\ [s EXCEPT !.state = "exited", !.open = FALSE] \in Sessions
         /\ [s EXCEPT !.state = "exited", !.open = FALSE].pending = s.pending
         /\ [s EXCEPT !.pending = None, !.state = "running"] \in Sessions
         /\ [s EXCEPT !.pending = None, !.state = "running"].pending = None
         /\ \A r \in Requests \union {None} :
              /\ [s EXCEPT !.pending = r, !.state = "waiting"] \in Sessions
              /\ [s EXCEPT !.pending = r, !.state = "waiting"].pending = r
BY DEF Sessions

LEMMA Beginning ==
  /\ Asleep \in Agents /\ Asleep.asking = {}
  /\ Opened \in Sessions /\ Opened.pending = None
BY DEF Asleep, Agents, Opened, Sessions

-----------------------------------------------------------------------------
(* Queues.                                                                  *)

LEMMA EmptyQueue ==
  ASSUME NEW k
  PROVE  About(<<>>, k) = {} /\ OneEach(<<>>, k)
BY DEF About, OneEach

LEMMA EmptyTyped == <<>> \in Seq(Messages) /\ <<>> \in Seq(Events)
OBVIOUS

LEMMA AppendToQueue ==
  ASSUME NEW S, NEW q \in Seq(S), NEW m \in S, NEW k
  PROVE  /\ About(Append(q, m), k) =
              IF m.kind = k THEN About(q, k) \union {m.request} ELSE About(q, k)
         /\ OneEach(q, k) /\ (m.kind = k => m.request \notin About(q, k)) =>
              OneEach(Append(q, m), k)
<1> DEFINE n == Len(q)
           t == Append(q, m)
<1>1. /\ n \in Nat /\ DOMAIN q = 1..n /\ DOMAIN t = 1..(n + 1)
      /\ t[n + 1] = m /\ \A i \in 1..n : t[i] = q[i]
  OBVIOUS
<1>2. 1..(n + 1) = 1..n \union {n + 1} /\ n + 1 \notin 1..n
  BY <1>1
<1> HIDE DEF n, t
<1>3. About(t, k) = IF m.kind = k THEN About(q, k) \union {m.request} ELSE About(q, k)
  BY <1>1, <1>2 DEF About
<1>4. ASSUME OneEach(q, k), m.kind = k => m.request \notin About(q, k)
      PROVE  OneEach(t, k)
  <2> SUFFICES ASSUME NEW i \in 1..(n + 1), NEW j \in 1..(n + 1),
                      t[i].kind = k, t[j].kind = k, t[i].request = t[j].request
               PROVE  i = j
    BY <1>1 DEF OneEach
  <2>1. CASE i \in 1..n /\ j \in 1..n
    BY <2>1, <1>1, <1>4 DEF OneEach
  <2>2. \A l \in 1..n : t[l].kind = k => t[l].request \in About(q, k)
    BY <1>1 DEF About
  <2>3. CASE i = n + 1
    BY <2>2, <2>3, <1>1, <1>2, <1>4
  <2>4. CASE j = n + 1
    BY <2>2, <2>4, <1>1, <1>2, <1>4
  <2> QED BY <2>1, <2>3, <2>4, <1>2
<1> QED BY <1>3, <1>4 DEF t

LEMMA AppendEvent ==
  ASSUME NEW q \in Seq(Events), NEW e \in Events
  PROVE  /\ Append(q, e) \in Seq(Events)
         /\ e.kind # "asks" => About(Append(q, e), "asks") = About(q, "asks")
         /\ e.kind = "asks" =>
              About(Append(q, e), "asks") = About(q, "asks") \union {e.request}
         /\ /\ OneEach(q, "asks")
            /\ e.kind = "asks" => e.request \notin About(q, "asks")
            => OneEach(Append(q, e), "asks")
BY AppendToQueue

LEMMA AppendMessage ==
  ASSUME NEW q \in Seq(Messages), NEW m \in Messages
  PROVE  /\ Append(q, m) \in Seq(Messages)
         /\ m.kind # "answer" => About(Append(q, m), "answer") = About(q, "answer")
         /\ m.kind = "answer" =>
              About(Append(q, m), "answer") = About(q, "answer") \union {m.request}
         /\ /\ OneEach(q, "answer")
            /\ m.kind = "answer" => m.request \notin About(q, "answer")
            => OneEach(Append(q, m), "answer")
BY AppendToQueue

LEMMA TailOfQueue ==
  ASSUME NEW S, NEW q \in Seq(S), q # <<>>, NEW k
  PROVE  /\ Head(q) \in S /\ Tail(q) \in Seq(S)
         /\ About(Tail(q), k) \subseteq About(q, k)
         /\ OneEach(q, k) => OneEach(Tail(q), k)
         /\ Head(q).kind = k => Head(q).request \in About(q, k)
         /\ Head(q).kind = k /\ OneEach(q, k) => Head(q).request \notin About(Tail(q), k)
         /\ \A i \in DOMAIN Tail(q) : Tail(q)[i] \in {q[j] : j \in DOMAIN q}
         /\ Head(q) \in {q[j] : j \in DOMAIN q}
<1> DEFINE n == Len(q)
           t == Tail(q)
<1>1. /\ n \in Nat \ {0} /\ DOMAIN q = 1..n /\ DOMAIN t = 1..(n - 1)
      /\ Head(q) = q[1] /\ Head(q) \in S /\ t \in Seq(S)
      /\ \A i \in 1..(n - 1) : t[i] = q[i + 1]
  OBVIOUS
<1>2. 1 \in 1..n /\ \A i \in 1..(n - 1) : i + 1 \in 1..n /\ i + 1 # 1
  BY <1>1
<1> HIDE DEF n, t
<1>3. About(t, k) \subseteq About(q, k)
  BY <1>1, <1>2 DEF About
<1>4. ASSUME OneEach(q, k) PROVE OneEach(t, k)
  <2> SUFFICES ASSUME NEW i \in 1..(n - 1), NEW j \in 1..(n - 1),
                      t[i].kind = k, t[j].kind = k, t[i].request = t[j].request
               PROVE  i = j
    BY <1>1 DEF OneEach
  <2>1. i + 1 = j + 1
    BY <1>1, <1>2, <1>4 DEF OneEach
  <2> QED BY <2>1, <1>1
<1>5. Head(q).kind = k => Head(q).request \in About(q, k)
  BY <1>1, <1>2 DEF About
<1>6. ASSUME Head(q).kind = k, OneEach(q, k) PROVE Head(q).request \notin About(t, k)
  <2> SUFFICES ASSUME NEW i \in 1..(n - 1), t[i].kind = k, t[i].request = Head(q).request
               PROVE  FALSE
    BY <1>1 DEF About
  <2>1. i + 1 = 1
    BY <1>1, <1>2, <1>6 DEF OneEach
  <2> QED BY <2>1, <1>2
<1> QED BY <1>1, <1>2, <1>3, <1>4, <1>5, <1>6 DEF t

LEMMA TakenGrows ==
  ASSUME NEW s \in Seq(Requests), NEW r \in Requests
  PROVE  /\ Append(s, r) \in Seq(Requests)
         /\ Range(Append(s, r)) = Range(s) \union {r}
         /\ IsInjective(s) /\ r \notin Range(s) => IsInjective(Append(s, r))
<1> DEFINE n == Len(s)
           t == Append(s, r)
<1>1. /\ n \in Nat /\ DOMAIN s = 1..n /\ DOMAIN t = 1..(n + 1) /\ t \in Seq(Requests)
      /\ t[n + 1] = r /\ \A i \in 1..n : t[i] = s[i]
  OBVIOUS
<1>2. 1..(n + 1) = 1..n \union {n + 1} /\ n + 1 \notin 1..n
  BY <1>1
<1> HIDE DEF n, t
<1>3. Range(t) = Range(s) \union {r}
  BY <1>1, <1>2 DEF Range
<1>4. IsInjective(s) /\ r \notin Range(s) => IsInjective(t)
  BY <1>1, <1>2 DEF Range, IsInjective
<1> QED BY <1>1, <1>3, <1>4 DEF t

-----------------------------------------------------------------------------
(* Steps.                                                                   *)

Inv == Typed /\ Asked /\ Answering

LEMMA InvInit == Init => Inv
<1> SUFFICES ASSUME Init PROVE Inv
  OBVIOUS
<1>1. Typed
  <2>1. 0 \in 0..MaxConnections /\ 0 \in 0..MaxIterations /\ 0 \in 0..MaxInputs /\ 0 \in 0..2
    BY AgentSessionAssumption
  <2>2. \A S : <<>> \in Seq(S)
    OBVIOUS
  <2>3. task \in Tasks /\ link \in Links /\ signal \subseteq Signals
    BY DEF Init, Tasks, Links, Signals
  <2> QED BY <2>1, <2>2, <2>3, Beginning DEF Init, Typed
<1>2. Asked
  BY EmptyQueue, Beginning DEF Init, Asked, Range, IsInjective
<1>3. Answering
  BY EmptyQueue DEF Init, Answering
<1> QED BY <1>1, <1>2, <1>3 DEF Inv

\* A step that gives the agent no answer, and makes nothing new of what waits.
LEMMA Untouched ==
  ASSUME Inv, agent'.asking = agent.asking, taken' = taken, shown' = shown,
         session'.pending \in {session.pending, None},
         About(evt', "asks") \subseteq About(evt, "asks"), OneEach(evt', "asks"),
         About(cmd', "answer") \subseteq About(cmd, "answer"), OneEach(cmd', "answer"),
         \A i \in DOMAIN cmd' : cmd'[i].kind \in {"input", "answer"},
         About(inbox', "answer") \union About(channel', "answer") \subseteq shown
  PROVE  Asked' /\ Answering'
<1>1. Asked'
  BY DEF Inv, Asked
<1>2. Answering'
  BY DEF Answering
<1> QED BY <1>1, <1>2

\* What is left alone, or emptied, meets the conditions of the last lemma.
LEMMA Unchanged ==
  ASSUME Inv
  PROVE  /\ evt' = evt \/ evt' = <<>> =>
              About(evt', "asks") \subseteq About(evt, "asks") /\ OneEach(evt', "asks")
         /\ cmd' = cmd \/ cmd' = <<>> =>
              /\ About(cmd', "answer") \subseteq About(cmd, "answer")
              /\ OneEach(cmd', "answer")
              /\ \A i \in DOMAIN cmd' : cmd'[i].kind \in {"input", "answer"}
         /\ inbox' = inbox \/ inbox' = <<>> => About(inbox', "answer") \subseteq shown
         /\ channel' = channel \/ channel' = <<>> => About(channel', "answer") \subseteq shown
BY EmptyQueue DEF Inv, Asked, Answering

LEMMA InvStutter == ASSUME Inv, UNCHANGED vars PROVE Inv'
<1>1. Typed'
  BY DEF Inv, Typed, vars, process, network, users, history
<1>2. Asked' /\ Answering'
  BY Untouched, Unchanged DEF vars, process, network, users, history
<1> QED BY <1>1, <1>2 DEF Inv

LEMMA EmitsShape ==
  ASSUME Typed, NEW e \in Events, NEW a \in Agents, Emits(e, a)
  PROVE  /\ agent' \in Agents /\ agent'.asking = a.asking
         /\ io' \in {"running", "ended"}
         /\ evt' \in {evt, Append(evt, e)} /\ evt' \in Seq(Events)
<1>1. [a EXCEPT !.alive = FALSE] \in Agents /\ [a EXCEPT !.alive = FALSE].asking = a.asking
  BY AgentShape
<1>2. evt \in Seq(Events) /\ Append(evt, e) \in Seq(Events)
  BY DEF Typed
<1> QED BY <1>1, <1>2 DEF Emits, Typed

\* The agent says something that is not a request.
LEMMA EmitsStep ==
  ASSUME Inv, NEW e \in Events, e.kind # "asks",
         NEW a \in Agents, a.asking = agent.asking, Emits(e, a),
         UNCHANGED <<cmd, network, users, history, session, task, conn, input, wiggum>>
  PROVE  Inv'
<1>1. /\ agent' \in Agents /\ agent'.asking = agent.asking
      /\ io' \in {"running", "ended"}
      /\ evt' \in {evt, Append(evt, e)} /\ evt' \in Seq(Events)
  BY EmitsShape DEF Inv
<1>2. Typed'
  BY <1>1 DEF Inv, Typed, network, users, history
<1>3. About(evt', "asks") \subseteq About(evt, "asks") /\ OneEach(evt', "asks")
  <2>1. evt \in Seq(Events) /\ OneEach(evt, "asks")
    BY DEF Inv, Typed, Asked
  <2> QED BY <1>1, <2>1, AppendEvent
<1>4. Asked' /\ Answering'
  BY <1>1, <1>3, Untouched, Unchanged DEF network, users, history
<1> QED BY <1>2, <1>4 DEF Inv

LEMMA AgentAsksStep ==
  ASSUME Inv, NEW r \in Requests, AgentAsks(r)
  PROVE  Inv'
<1> DEFINE e == Event("asks", r)
           a == [agent EXCEPT !.asking = @ \union {r}]
<1>1. e \in Events /\ e.kind = "asks" /\ e.request = r
  BY EventShape
<1>2. a \in Agents /\ a.asking = agent.asking \union {r}
  <2>1. agent.asking \union {r} \in SUBSET Requests
    BY AgentShape DEF Inv, Typed
  <2> QED BY <2>1, AgentShape DEF Inv, Typed
<1>3. Emits(e, a) /\ r \notin agent.asking \union Range(taken)
  BY DEF AgentAsks
<1> HIDE DEF e, a
<1>4. /\ agent' \in Agents /\ agent'.asking = agent.asking \union {r}
      /\ io' \in {"running", "ended"}
      /\ evt' \in {evt, Append(evt, e)} /\ evt' \in Seq(Events)
  BY <1>1, <1>2, <1>3, EmitsShape DEF Inv
<1>5. UNCHANGED <<cmd, network, users, history, session, task, conn, input, wiggum>>
  BY DEF AgentAsks
<1>6. Typed'
  BY <1>4, <1>5 DEF Inv, Typed, network, users, history
<1>7. r \notin About(evt, "asks") \union About(cmd, "answer")
  BY <1>3 DEF Inv, Asked
<1>8. /\ About(evt', "asks") \subseteq About(evt, "asks") \union {r}
      /\ OneEach(evt', "asks")
  <2>1. evt \in Seq(Events) /\ OneEach(evt, "asks")
    BY DEF Inv, Typed, Asked
  <2>2. /\ About(Append(evt, e), "asks") = About(evt, "asks") \union {r}
        /\ OneEach(Append(evt, e), "asks")
    BY <1>1, <1>7, <2>1, AppendEvent
  <2> QED BY <1>4, <2>1, <2>2
<1>9. Asked'
  BY <1>3, <1>4, <1>5, <1>7, <1>8, AgentSessionAssumption DEF Inv, Asked, users, history
<1>10. Answering'
  BY <1>5 DEF Inv, Answering, network, users
<1> QED BY <1>6, <1>9, <1>10 DEF Inv

LEMMA AgentResultStep ==
  ASSUME Inv, NEW kind \in {"done", "result"}, AgentResult(kind)
  PROVE  Inv'
<1> DEFINE a == [agent EXCEPT !.turns = @ - 1]
<1>1. a \in Agents /\ a.asking = agent.asking
  <2>1. agent \in Agents /\ agent.turns > 0
    BY DEF AgentResult, Inv, Typed
  <2>2. agent.turns - 1 \in Nat
    BY <2>1, AgentShape
  <2> QED BY <2>1, <2>2, AgentShape
<1>2. Event(kind, None) \in Events /\ Event(kind, None).kind # "asks"
  BY EventShape
<1>3. Emits(Event(kind, None), a)
  BY DEF AgentResult
<1> HIDE DEF a
<1> QED BY <1>1, <1>2, <1>3, EmitsStep DEF AgentResult

LEMMA AgentExitsStep == ASSUME Inv, AgentExits PROVE Inv'
<1> DEFINE a == [agent EXCEPT !.alive = FALSE]
<1>1. a \in Agents /\ a.asking = agent.asking
  BY AgentShape DEF Inv, Typed
<1>2. Event("exited", None) \in Events /\ Event("exited", None).kind # "asks"
  BY EventShape
<1>3. UNCHANGED <<cmd, network, users, history, session, task, conn, input, wiggum>>
  BY DEF AgentExits
<1>4. CASE Emits(Event("exited", None), a)
  <2> HIDE DEF a
  <2> QED BY <1>1, <1>2, <1>3, <1>4, EmitsStep
<1>5. CASE agent' = a /\ UNCHANGED <<io, evt>>
  <2>1. agent' \in Agents /\ agent'.asking = agent.asking
    BY <1>1, <1>5
  <2>2. Typed'
    BY <2>1, <1>3, <1>5 DEF Inv, Typed, network, users, history
  <2>3. Asked' /\ Answering'
    BY <2>1, <1>3, <1>5, Untouched, Unchanged DEF network, users, history
  <2> QED BY <2>2, <2>3 DEF Inv
<1> QED BY <1>4, <1>5 DEF AgentExits

LEMMA AgentErrorStep == ASSUME Inv, AgentError PROVE Inv'
<1> DEFINE a == [agent EXCEPT !.alive = (Agent = "claude")]
<1>1. a \in Agents /\ a.asking = agent.asking
  BY AgentShape DEF Inv, Typed
<1>2. Event("error", None) \in Events /\ Event("error", None).kind # "asks"
  BY EventShape
<1>3. Emits(Event("error", None), a)
  BY DEF AgentError
<1> HIDE DEF a
<1> QED BY <1>1, <1>2, <1>3, EmitsStep DEF AgentError

LEMMA AgentNotFoundStep == ASSUME Inv, AgentNotFound PROVE Inv'
<1>1. Event("not found", None) \in Events /\ Event("not found", None).kind # "asks"
  BY EventShape
<1> QED BY <1>1, EmitsStep DEF AgentNotFound, Inv, Typed

-----------------------------------------------------------------------------
(* Commands.                                                                *)

LEMMA TailOfMessages ==
  ASSUME NEW q \in Seq(Messages), q # <<>>
  PROVE  /\ Head(q) \in Messages /\ Tail(q) \in Seq(Messages)
         /\ About(Tail(q), "answer") \subseteq About(q, "answer")
         /\ OneEach(q, "answer") => OneEach(Tail(q), "answer")
         /\ Head(q).kind = "answer" => Head(q).request \in About(q, "answer")
         /\ Head(q).kind = "answer" /\ OneEach(q, "answer") =>
              Head(q).request \notin About(Tail(q), "answer")
BY TailOfQueue

LEMMA TailOfEvents ==
  ASSUME NEW q \in Seq(Events), q # <<>>
  PROVE  /\ Head(q) \in Events /\ Tail(q) \in Seq(Events)
         /\ About(Tail(q), "asks") \subseteq About(q, "asks")
         /\ OneEach(q, "asks") => OneEach(Tail(q), "asks")
         /\ Head(q).kind = "asks" => Head(q).request \in About(q, "asks")
         /\ Head(q).kind = "asks" /\ OneEach(q, "asks") =>
              Head(q).request \notin About(Tail(q), "asks")
BY TailOfQueue

\* The next command is an input or an answer, and so are the others.
LEMMA NextCommand ==
  ASSUME Inv, cmd # <<>>
  PROVE  /\ Head(cmd).kind \in {"input", "answer"}
         /\ \A i \in DOMAIN Tail(cmd) : Tail(cmd)[i].kind \in {"input", "answer"}
<1>1. cmd \in Seq(Messages) /\ \A i \in DOMAIN cmd : cmd[i].kind \in {"input", "answer"}
  BY DEF Inv, Typed, Answering
<1>2. /\ Head(cmd) \in {cmd[j] : j \in DOMAIN cmd}
      /\ \A i \in DOMAIN Tail(cmd) : Tail(cmd)[i] \in {cmd[j] : j \in DOMAIN cmd}
  BY <1>1, TailOfQueue
<1> QED BY <1>1, <1>2

LEMMA OneMoreCommand ==
  ASSUME Inv, NEW m \in Messages, m.kind \in {"input", "answer"}
  PROVE  /\ Append(cmd, m) \in Seq(Messages)
         /\ \A i \in DOMAIN Append(cmd, m) : Append(cmd, m)[i].kind \in {"input", "answer"}
<1>1. cmd \in Seq(Messages) /\ \A i \in DOMAIN cmd : cmd[i].kind \in {"input", "answer"}
  BY DEF Inv, Typed, Answering
<1> QED BY <1>1

\* The I/O task takes a command that gives the agent no answer.
LEMMA CommandDropped ==
  ASSUME Inv, cmd # <<>>, cmd' = Tail(cmd), agent' \in Agents, agent'.asking = agent.asking,
         evt' \in {evt, Append(evt, Event("result", None))},
         UNCHANGED <<io, network, users, taken, dismissed, fresh, session, task, conn, input,
                     wiggum>>
  PROVE  Inv'
<1>1. /\ cmd \in Seq(Messages) /\ OneEach(cmd, "answer")
      /\ evt \in Seq(Events) /\ OneEach(evt, "asks")
  BY DEF Inv, Typed, Asked
<1>2. Event("result", None) \in Events /\ Event("result", None).kind # "asks"
  BY EventShape
<1>3. /\ evt' \in Seq(Events)
      /\ About(evt', "asks") \subseteq About(evt, "asks") /\ OneEach(evt', "asks")
  BY <1>1, <1>2, AppendEvent
<1>4. /\ cmd' \in Seq(Messages)
      /\ About(cmd', "answer") \subseteq About(cmd, "answer") /\ OneEach(cmd', "answer")
  BY <1>1, TailOfMessages
<1>5. \A i \in DOMAIN cmd' : cmd'[i].kind \in {"input", "answer"}
  BY NextCommand
<1>6. Typed'
  BY <1>3, <1>4 DEF Inv, Typed, network, users
<1>7. Asked' /\ Answering'
  BY <1>3, <1>4, <1>5, Untouched, Unchanged DEF network, users
<1> QED BY <1>6, <1>7 DEF Inv

\* The I/O task takes an answer and gives it to the agent.
LEMMA AnswerGiven ==
  ASSUME Inv, cmd # <<>>, cmd' = Tail(cmd), Head(cmd).kind = "answer",
         agent' = [agent EXCEPT !.asking = @ \ {Head(cmd).request}],
         taken' = Append(taken, Head(cmd).request),
         UNCHANGED <<io, evt, network, users, dismissed, fresh, session, task, conn, input,
                     wiggum>>
  PROVE  Inv'
<1> DEFINE r == Head(cmd).request
<1>1. cmd \in Seq(Messages) /\ OneEach(cmd, "answer") /\ taken \in Seq(Requests)
  BY DEF Inv, Typed, Asked
<1>2. /\ cmd' \in Seq(Messages)
      /\ About(cmd', "answer") \subseteq About(cmd, "answer") /\ OneEach(cmd', "answer")
      /\ r \in About(cmd, "answer") \ About(cmd', "answer")
  BY <1>1, TailOfMessages
<1>3. r \in agent.asking /\ r \in shown /\ r \in Requests
  BY <1>2, AgentShape DEF Inv, Asked, Typed
<1>4. agent' \in Agents /\ agent'.asking = agent.asking \ {r}
  <2>1. agent.asking \ {r} \in SUBSET Requests
    BY AgentShape DEF Inv, Typed
  <2> QED BY <2>1, AgentShape DEF Inv, Typed
<1>5. /\ taken' \in Seq(Requests) /\ Range(taken') = Range(taken) \union {r}
      /\ IsInjective(taken')
  BY <1>1, <1>3, TakenGrows DEF Inv, Asked
<1> HIDE DEF r
<1>6. UNCHANGED <<io, evt, network, users, dismissed, fresh, session, task, conn, input,
                  wiggum>>
  OBVIOUS
<1>7. Typed'
  BY <1>2, <1>4, <1>5, <1>6 DEF Inv, Typed, network, users
<1>8. Asked'
  BY <1>2, <1>3, <1>4, <1>5, <1>6 DEF Inv, Asked, network, users
<1>9. Answering'
  BY <1>6, NextCommand DEF Inv, Answering, network, users
<1> QED BY <1>7, <1>8, <1>9 DEF Inv

LEMMA ClaudeCommandStep == ASSUME Inv, ClaudeCommand PROVE Inv'
<1>1. CASE Head(cmd).kind = "input"
  <2>1. agent' = [agent EXCEPT !.turns = @ + 1]
    BY <1>1 DEF ClaudeCommand
  <2>2. agent \in Agents /\ agent.turns + 1 \in Nat
    BY AgentShape DEF Inv, Typed
  <2>3. agent' \in Agents /\ agent'.asking = agent.asking
    BY <2>1, <2>2, AgentShape
  <2> QED BY <1>1, <2>3, CommandDropped DEF ClaudeCommand
<1>2. CASE Head(cmd).kind # "input"
  <2>1. Head(cmd).kind = "answer"
    BY <1>2, NextCommand DEF ClaudeCommand
  <2> QED BY <1>2, <2>1, AnswerGiven DEF ClaudeCommand
<1> QED BY <1>1, <1>2

LEMMA CodexCommandStep == ASSUME Inv, CodexCommand PROVE Inv'
<1> DEFINE given == /\ Head(cmd).kind = "answer"
                    /\ agent' = [agent EXCEPT !.asking = @ \ {Head(cmd).request}]
                    /\ taken' = Append(taken, Head(cmd).request)
                    /\ UNCHANGED evt
<1>1. CASE given
  BY <1>1, AnswerGiven DEF CodexCommand
<1>2. CASE ~given
  <2>1. agent' \in {agent, [agent EXCEPT !.turns = 1]} /\ taken' = taken
    BY <1>2 DEF CodexCommand
  <2>2. agent' \in Agents /\ agent'.asking = agent.asking
    <3>1. agent \in Agents /\ 1 \in Nat
      BY DEF Inv, Typed
    <3>2. [agent EXCEPT !.turns = 1] \in Agents
          /\ [agent EXCEPT !.turns = 1].asking = agent.asking
      BY <3>1, AgentShape
    <3> QED BY <2>1, <3>1, <3>2
  <2>3. evt' \in {evt, Append(evt, Event("result", None))}
    BY DEF CodexCommand
  <2> QED BY <2>1, <2>2, <2>3, CommandDropped DEF CodexCommand
<1> QED BY <1>1, <1>2

LEMMA CodexEndsStep == ASSUME Inv, CodexEnds PROVE Inv'
<1>1. agent' \in Agents /\ agent'.asking = agent.asking
  BY AgentShape DEF CodexEnds, Inv, Typed
<1>2. Typed'
  BY <1>1 DEF CodexEnds, Inv, Typed, network, users, history
<1>3. Asked' /\ Answering'
  BY <1>1, Untouched, Unchanged DEF CodexEnds, network, users, history
<1> QED BY <1>2, <1>3 DEF Inv

-----------------------------------------------------------------------------
(* The connection loop.                                                     *)

LEMMA TaskNames ==
  {"connecting", "registering", "main", "sleeping", "exited", "stopped"} = Tasks
BY DEF Tasks

LEMMA LeavesShape ==
  ASSUME NEW next \in Tasks, Leaves(next)
  PROVE  /\ task' = next /\ task' \in Tasks /\ link' \in Links
         /\ inbox' = <<>> /\ channel' = <<>>
         /\ inbox' \in Seq(Messages) /\ channel' \in Seq(Messages)
         /\ signal' \subseteq Signals /\ wiggum' \in 0..MaxIterations
<1>1. 0 \in 0..MaxIterations
  BY AgentSessionAssumption
<1> QED BY <1>1 DEF Leaves, Links

LEMMA ClosesShape ==
  ASSUME Typed, Closes
  PROVE  session' \in Sessions /\ session'.pending = session.pending
BY SessionShape DEF Typed, Closes

\* A step of the connection loop that takes nothing of what waits.
LEMMA LoopStep ==
  ASSUME Inv, UNCHANGED <<process, users, taken, dismissed, fresh>>,
         inbox' \in {inbox, <<>>}, channel' \in {channel, <<>>},
         session' \in Sessions, session'.pending \in {session.pending, None},
         task' \in Tasks, conn' \in 0..MaxConnections, link' \in Links,
         input' \in Seq(Messages), signal' \subseteq Signals, wiggum' \in 0..MaxIterations
  PROVE  Inv'
<1>1. inbox' \in Seq(Messages) /\ channel' \in Seq(Messages)
  BY EmptyTyped DEF Inv, Typed
<1>2. Typed'
  BY <1>1 DEF Inv, Typed, process, users
<1>3. Asked' /\ Answering'
  BY Untouched, Unchanged DEF process, users
<1> QED BY <1>2, <1>3 DEF Inv

\* The values of a state, for the steps that leave them alone.
LEMMA Values ==
  ASSUME Inv
  PROVE  /\ agent \in Agents /\ session \in Sessions /\ task \in Tasks
         /\ conn \in 0..MaxConnections
         /\ link \in Links /\ input \in Seq(Messages) /\ signal \subseteq Signals
         /\ wiggum \in 0..MaxIterations /\ session.pending \in {session.pending, None}
         /\ cmd \in Seq(Messages) /\ evt \in Seq(Events)
         /\ inbox \in Seq(Messages) /\ channel \in Seq(Messages)
         /\ OneEach(cmd, "answer") /\ OneEach(evt, "asks")
         /\ About(inbox, "answer") \subseteq shown /\ About(channel, "answer") \subseteq shown
BY DEF Inv, Typed, Asked, Answering

LEMMA ConnectToBackendStep == ASSUME Inv, ConnectToBackend PROVE Inv'
<1>1. conn' \in 0..MaxConnections
  <2>1. conn \in 0..MaxConnections /\ conn < MaxConnections /\ conn' = conn + 1
    BY DEF Inv, Typed, ConnectToBackend
  <2> QED BY <2>1, AgentSessionAssumption
<1>2. task' \in Tasks /\ link' \in Links
  BY DEF ConnectToBackend, Tasks, Links
<1> QED BY <1>1, <1>2, LoopStep, Values DEF ConnectToBackend, history

LEMMA TaskChangeStep ==
  ASSUME Inv, task' \in Tasks,
         UNCHANGED <<process, network, users, history, session, conn, input, wiggum>>
  PROVE  Inv'
BY LoopStep, Values DEF network, history

LEMMA TurnsStep ==
  ASSUME Inv, ConnectFails \/ RegisterSession \/ WakeUp
  PROVE  Inv'
<1>1. task' \in Tasks
  BY DEF ConnectFails, RegisterSession, WakeUp, Tasks
<1> QED BY <1>1, TaskChangeStep DEF ConnectFails, RegisterSession, WakeUp

LEMMA MainTerminatedStep == ASSUME Inv, MainTerminated PROVE Inv'
<1>1. Leaves("exited") /\ Closes /\ UNCHANGED <<process, users, history, conn, input>>
  BY DEF MainTerminated
<1> QED BY <1>1, LeavesShape, ClosesShape, TaskNames, LoopStep, Values DEF Inv, history

LEMMA StopTaskStep == ASSUME Inv, StopTask PROVE Inv'
<1>1. Leaves("stopped") /\ Closes /\ UNCHANGED <<process, users, history, conn, input>>
  BY DEF StopTask
<1> QED BY <1>1, LeavesShape, ClosesShape, TaskNames, LoopStep, Values DEF Inv, history

LEMMA MainLeavesStep == ASSUME Inv, MainDisconnected \/ MainExpired PROVE Inv'
<1>1. Leaves("sleeping") /\ UNCHANGED <<process, users, history, session, conn, input>>
  BY DEF MainDisconnected, MainExpired
<1> QED BY <1>1, LeavesShape, TaskNames, LoopStep, Values DEF history

LEMMA GoneStep ==
  ASSUME Inv, AgentGone, UNCHANGED <<process, users, history, conn>>,
         input' \in Seq(Messages)
  PROVE  Inv'
<1>1. Leaves("exited") /\ Closes
  BY DEF AgentGone
<1> QED BY <1>1, LeavesShape, ClosesShape, TaskNames, LoopStep, Values DEF Inv, history

\* A prompt for the agent.
LEMMA PromptStep ==
  ASSUME Inv, NEW w \in BOOLEAN, cmd' = Append(cmd, Input(w)),
         UNCHANGED <<agent, io, evt, session, task, link, inbox, signal, users, history, conn>>,
         input' \in Seq(Messages), channel' \in Seq(Messages),
         About(channel', "answer") \subseteq shown, wiggum' \in 0..MaxIterations
  PROVE  Inv'
<1>1. Input(w) \in Messages /\ Input(w).kind = "input"
  BY MessageShape
<1>2. /\ cmd' \in Seq(Messages)
      /\ \A i \in DOMAIN cmd' : cmd'[i].kind \in {"input", "answer"}
  BY <1>1, OneMoreCommand
<1>3. About(cmd', "answer") \subseteq About(cmd, "answer") /\ OneEach(cmd', "answer")
  BY <1>1, AppendMessage, Values
<1>4. Typed'
  BY <1>2 DEF Inv, Typed, users, history
<1>5. Asked' /\ Answering'
  BY <1>2, <1>3, Untouched, Unchanged, Values DEF users, history
<1> QED BY <1>4, <1>5 DEF Inv

LEMMA MainInputStep == ASSUME Inv, MainInput PROVE Inv'
<1>1. input' \in Seq(Messages)
  BY TailOfMessages, Values DEF MainInput
<1>2. CASE CanSend
  <2>1. About(channel, "answer") \subseteq shown
    BY Values
  <2> QED BY <1>1, <1>2, <2>1, PromptStep, Values DEF MainInput, network
<1>3. CASE ~CanSend
  <2>1. AgentGone /\ UNCHANGED <<process, users, history, conn>>
    BY <1>3 DEF MainInput, process
  <2> QED BY <1>1, <2>1, GoneStep
<1> QED BY <1>2, <1>3

LEMMA MainWiggumStep == ASSUME Inv, MainWiggum PROVE Inv'
<1>1. input' \in Seq(Messages) /\ input' = input
  BY Values DEF MainWiggum
<1>2. CASE CanSend
  <2>1. cmd' = Append(cmd, Input(TRUE)) /\ channel' = Tail(channel) /\ channel # <<>>
        /\ wiggum' = 1
    BY <1>2 DEF MainWiggum
  <2>2. channel' \in Seq(Messages) /\ About(channel', "answer") \subseteq shown
    BY <2>1, TailOfMessages, Values
  <2>3. wiggum' \in 0..MaxIterations
    BY <2>1, AgentSessionAssumption
  <2> QED BY <1>1, <1>2, <2>1, <2>2, <2>3, PromptStep DEF MainWiggum
<1>3. CASE ~CanSend
  <2>1. AgentGone /\ UNCHANGED <<process, users, history, conn>>
    BY <1>3 DEF MainWiggum, process
  <2> QED BY <1>1, <2>1, GoneStep
<1> QED BY <1>2, <1>3

LEMMA MainPermissionStep == ASSUME Inv, MainPermission PROVE Inv'
<1> DEFINE r == Head(channel).request
<1>1. /\ channel # <<>> /\ Head(channel).kind = "answer" /\ channel' = Tail(channel)
      /\ UNCHANGED <<agent, io, evt, link, inbox, signal, users, history, task, conn, input,
                     wiggum>>
  BY DEF MainPermission
<1>2. /\ channel' \in Seq(Messages) /\ About(channel', "answer") \subseteq shown
      /\ r \in shown /\ r \in Requests
  <2>1. r \in About(channel, "answer") /\ About(Tail(channel), "answer") \subseteq About(channel, "answer")
    BY <1>1, TailOfMessages, Values
  <2> QED BY <2>1, <1>1, TailOfMessages, Values DEF Inv, Typed
<1>3. CASE session.pending = r /\ CanSend
  <2>1. /\ session' = [session EXCEPT !.pending = None, !.state = "running"]
        /\ cmd' = Append(cmd, Answer(r))
    BY <1>3 DEF MainPermission
  <2>2. session' \in Sessions /\ session'.pending = None
    BY <2>1, SessionShape, Values
  <2>3. Answer(r) \in Messages /\ Answer(r).kind = "answer" /\ Answer(r).request = r
    BY <1>2, MessageShape
  <2>4. /\ cmd' \in Seq(Messages)
        /\ \A i \in DOMAIN cmd' : cmd'[i].kind \in {"input", "answer"}
    BY <2>1, <2>3, OneMoreCommand
  <2>5. r \in agent.asking \ (About(evt, "asks") \union About(cmd, "answer"))
    BY <1>2, <1>3, AgentSessionAssumption DEF Inv, Asked
  <2> HIDE DEF r
  <2>6. About(cmd', "answer") = About(cmd, "answer") \union {r} /\ OneEach(cmd', "answer")
    BY <2>1, <2>3, <2>5, AppendMessage, Values
  <2>7. Typed'
    BY <1>1, <1>2, <2>2, <2>4 DEF Inv, Typed, users, history
  <2>8. Asked'
    BY <1>1, <1>2, <2>2, <2>5, <2>6 DEF Inv, Asked, users, history
  <2>9. Answering'
    BY <1>1, <1>2, <2>4, Values DEF Answering, users
  <2> QED BY <2>7, <2>8, <2>9 DEF Inv
<1>4. CASE ~(session.pending = r /\ CanSend)
  <2>1. UNCHANGED <<session, cmd>>
    BY <1>4 DEF MainPermission
  <2>2. Typed'
    BY <1>1, <1>2, <2>1 DEF Inv, Typed, users, history
  <2>3. Asked' /\ Answering'
    BY <1>1, <1>2, <2>1, Untouched, Unchanged, Values DEF users, history
  <2> QED BY <2>2, <2>3 DEF Inv
<1> QED BY <1>3, <1>4

\* An event that is not a request, or that the agent's end makes void.
LEMMA EventStep ==
  ASSUME Inv, evt # <<>>, evt' \in {Tail(evt), <<>>},
         UNCHANGED <<agent, io, cmd, users, taken, dismissed, fresh, conn, input>>,
         inbox' \in {inbox, <<>>}, channel' \in {channel, <<>>},
         session' \in Sessions, session'.pending = session.pending,
         task' \in Tasks, link' \in Links, signal' \subseteq Signals,
         wiggum' \in 0..MaxIterations
  PROVE  Inv'
<1>1. /\ evt' \in Seq(Events)
      /\ About(evt', "asks") \subseteq About(evt, "asks") /\ OneEach(evt', "asks")
  <2>1. /\ Tail(evt) \in Seq(Events)
        /\ About(Tail(evt), "asks") \subseteq About(evt, "asks") /\ OneEach(Tail(evt), "asks")
    BY TailOfEvents, Values
  <2>2. About(<<>>, "asks") = {} /\ OneEach(<<>>, "asks")
    BY EmptyQueue
  <2> QED BY <2>1, <2>2, EmptyTyped
<1>2. inbox' \in Seq(Messages) /\ channel' \in Seq(Messages)
  BY Values, EmptyTyped
<1>3. Typed'
  BY <1>1, <1>2 DEF Inv, Typed, users
<1>4. Asked' /\ Answering'
  BY <1>1, Untouched, Unchanged DEF users
<1> QED BY <1>3, <1>4 DEF Inv

LEMMA MainRawStep == ASSUME Inv, MainRaw PROVE Inv'
<1>1. /\ evt # <<>> /\ evt' = Tail(evt)
      /\ UNCHANGED <<agent, io, cmd, users, history, session, conn, input>>
  BY DEF MainRaw, Happens
<1>2. CASE Leaves("sleeping")
  BY <1>1, <1>2, LeavesShape, TaskNames, EventStep, Values DEF history
<1>3. CASE UNCHANGED <<task, network, wiggum>>
  BY <1>1, <1>3, EventStep, Values DEF history, network
<1> QED BY <1>2, <1>3 DEF MainRaw

LEMMA MainResultStep == ASSUME Inv, MainResult PROVE Inv'
<1>1. 0 \in 0..MaxIterations
  BY AgentSessionAssumption
<1>2. evt # <<>>
  BY DEF MainResult, Happens
<1> QED BY <1>1, <1>2, EventStep, Values DEF MainResult, history, network

LEMMA MainExitedStep == ASSUME Inv, MainExited PROVE Inv'
<1>1. /\ evt # <<>> /\ evt' = <<>> /\ Leaves("exited") /\ Closes
      /\ UNCHANGED <<agent, io, cmd, users, history, conn, input>>
  BY DEF MainExited, Happens, AgentGone
<1> QED BY <1>1, LeavesShape, ClosesShape, TaskNames, EventStep, Values DEF Inv, history

LEMMA MainIteratesStep == ASSUME Inv, MainIterates PROVE Inv'
<1>1. /\ evt # <<>> /\ evt' = Tail(evt)
      /\ UNCHANGED <<agent, io, users, history, conn, input>>
  BY DEF MainIterates, Happens
<1>2. CASE Leaves("sleeping") /\ UNCHANGED <<session, cmd>>
  BY <1>1, <1>2, LeavesShape, TaskNames, EventStep, Values DEF history
<1>3. CASE AgentGone /\ UNCHANGED cmd
  <2>1. Leaves("exited") /\ Closes
    BY <1>3 DEF AgentGone
  <2> QED BY <1>1, <1>3, <2>1, LeavesShape, ClosesShape, TaskNames, EventStep, Values
          DEF Inv, history
<1>4. CASE /\ cmd' = Append(cmd, Input(TRUE)) /\ wiggum' = wiggum + 1
           /\ UNCHANGED <<session, task, network>>
  <2>1. Input(TRUE) \in Messages /\ Input(TRUE).kind = "input"
    BY MessageShape
  <2>2. /\ cmd' \in Seq(Messages)
        /\ \A i \in DOMAIN cmd' : cmd'[i].kind \in {"input", "answer"}
    BY <1>4, <2>1, OneMoreCommand
  <2>3. About(cmd', "answer") \subseteq About(cmd, "answer") /\ OneEach(cmd', "answer")
    BY <1>4, <2>1, AppendMessage, Values
  <2>4. /\ evt' \in Seq(Events)
        /\ About(evt', "asks") \subseteq About(evt, "asks") /\ OneEach(evt', "asks")
    BY <1>1, TailOfEvents, Values
  <2>5. wiggum' \in 0..MaxIterations
    <3>1. wiggum \in 1..(MaxIterations - 1)
      BY DEF MainIterates
    <3> QED BY <1>4, <3>1, AgentSessionAssumption
  <2>6. Typed'
    BY <1>1, <1>4, <2>2, <2>4, <2>5 DEF Inv, Typed, users, history, network
  <2>7. Asked' /\ Answering'
    BY <1>1, <1>4, <2>2, <2>3, <2>4, Untouched, Unchanged DEF users, history, network
  <2> QED BY <2>6, <2>7 DEF Inv
<1> QED BY <1>2, <1>3, <1>4 DEF MainIterates

LEMMA MainAsksStep == ASSUME Inv, MainAsks PROVE Inv'
<1> DEFINE r == Head(evt).request
<1>1. /\ evt # <<>> /\ Head(evt).kind = "asks" /\ evt' = Tail(evt)
      /\ session' = [session EXCEPT !.pending = r, !.state = "waiting"]
      /\ UNCHANGED <<agent, io, cmd, answered, inputs, history, conn, input>>
  BY DEF MainAsks, Happens
<1>2. /\ evt' \in Seq(Events) /\ OneEach(evt', "asks")
      /\ About(evt', "asks") \subseteq About(evt, "asks")
      /\ r \in About(evt, "asks") \ About(evt', "asks")
  BY <1>1, TailOfEvents, Values
<1>3. r \in agent.asking \ About(cmd, "answer") /\ r \in Requests
  BY <1>2, AgentShape DEF Inv, Asked, Typed
<1>4. session' \in Sessions /\ session'.pending = r
  BY <1>1, <1>3, SessionShape, Values
<1> HIDE DEF r
<1>5. shown' \in {shown, shown \union {r}}
  BY DEF MainAsks, r
<1>6. /\ task' \in Tasks /\ link' \in Links /\ signal' \subseteq Signals
      /\ wiggum' \in 0..MaxIterations
      /\ inbox' \in {inbox, <<>>} /\ channel' \in {channel, <<>>}
  <2>1. CASE Leaves("sleeping")
    BY <2>1, LeavesShape, TaskNames
  <2>2. CASE UNCHANGED <<task, network, wiggum>>
    BY <2>2, Values DEF network
  <2> QED BY <2>1, <2>2 DEF MainAsks
<1>7. inbox' \in Seq(Messages) /\ channel' \in Seq(Messages)
  BY <1>6, Values, EmptyTyped
<1>8. Typed'
  BY <1>1, <1>2, <1>3, <1>4, <1>5, <1>6, <1>7 DEF Inv, Typed, history
<1>9. Asked'
  BY <1>1, <1>2, <1>3, <1>4, <1>5 DEF Inv, Asked, history
<1>10. Answering'
  <2>1. About(inbox', "answer") \subseteq shown /\ About(channel', "answer") \subseteq shown
    BY <1>6, Unchanged
  <2> QED BY <1>1, <1>5, <2>1 DEF Inv, Answering
<1> QED BY <1>8, <1>9, <1>10 DEF Inv

LEMMA MainNotFoundStep == ASSUME Inv, MainNotFound PROVE Inv'
<1>1. Leaves("connecting") /\ StartsFresh /\ UNCHANGED <<users, taken, dismissed>>
  BY DEF MainNotFound
<1>2. /\ task' \in Tasks /\ link' \in Links /\ signal' \subseteq Signals
      /\ inbox' = <<>> /\ channel' = <<>>
      /\ inbox' \in Seq(Messages) /\ channel' \in Seq(Messages)
      /\ wiggum' \in 0..MaxIterations
  BY <1>1, LeavesShape, TaskNames
<1>3. /\ agent' \in Agents /\ agent'.asking = {}
      /\ session' \in Sessions /\ session'.pending = None
  BY <1>1, Beginning DEF StartsFresh
<1>4. 0 \in 0..MaxConnections
  BY AgentSessionAssumption
<1>5. cmd' = <<>> /\ cmd' \in Seq(Messages) /\ evt' = <<>> /\ evt' \in Seq(Events)
      /\ input' \in Seq(Messages) /\ io' = "running" /\ conn' = 0 /\ fresh' = TRUE
  BY <1>1 DEF StartsFresh
<1>6. Typed'
  BY <1>1, <1>2, <1>3, <1>4, <1>5 DEF Inv, Typed, users
<1>7. Asked'
  BY <1>1, <1>3, <1>5, EmptyQueue DEF Inv, Asked, users
<1>8. Answering'
  BY <1>1, <1>2, <1>5, EmptyQueue DEF Inv, Answering, users
<1> QED BY <1>6, <1>7, <1>8 DEF Inv

-----------------------------------------------------------------------------
(* Reader, network and users.                                               *)

LEMMA ReadMessageStep == ASSUME Inv, ReadMessage PROVE Inv'
<1> DEFINE m == Head(inbox)
           plain == m.kind = "input" /\ ~m.wiggum
<1>1. /\ inbox # <<>> /\ inbox' = Tail(inbox)
      /\ input' \in {input, Append(input, m)}
      /\ channel' \in {channel, Append(channel, m)}
      /\ signal' \in {signal, signal \union {m.kind, "disconnect"}}
      /\ m.kind \notin {"terminated", "shutdown"} => signal' = signal
      /\ dismissed' \in BOOLEAN
      /\ UNCHANGED <<process, link, users, taken, fresh, session, task, conn, wiggum>>
  <2>1. dismissed \in BOOLEAN
    BY DEF Inv, Typed
  <2> QED BY <2>1 DEF ReadMessage
<1>2. /\ m \in Messages /\ inbox' \in Seq(Messages)
      /\ About(inbox', "answer") \subseteq shown
      /\ m.kind = "answer" => m.request \in shown
  <2>1. inbox \in Seq(Messages) /\ About(inbox, "answer") \subseteq shown
    BY Values
  <2> QED BY <1>1, <2>1, TailOfMessages
<1>3. signal' \subseteq Signals
  BY <1>1, Values DEF Signals
<1> HIDE DEF m
<1>4. input' \in Seq(Messages) /\ channel' \in Seq(Messages)
  BY <1>1, <1>2, AppendMessage, Values
<1>5. About(channel', "answer") \subseteq shown
  <2>1. About(Append(channel, m), "answer") \subseteq shown
    BY <1>2, AppendMessage, Values
  <2> QED BY <1>1, <2>1, Values
<1>6. Typed'
  BY <1>1, <1>2, <1>3, <1>4 DEF Inv, Typed, process, users
<1>7. Asked' /\ Answering'
  BY <1>1, <1>2, <1>5, Untouched, Unchanged DEF process, users
<1> QED BY <1>6, <1>7 DEF Inv

LEMMA ReaderEndsStep == ASSUME Inv, ReaderEnds PROVE Inv'
<1>1. signal' \subseteq Signals
  BY Values DEF ReaderEnds, Signals
<1> QED BY <1>1, LoopStep, Values DEF ReaderEnds, history

LEMMA LinkStep == ASSUME Inv, LinkCut \/ LinkDies PROVE Inv'
<1>1. link' \in Links
  BY DEF LinkCut, LinkDies, Links
<1> QED BY <1>1, LoopStep, Values DEF LinkCut, LinkDies, history

LEMMA SendsStep ==
  ASSUME Inv, NEW m \in Messages, m.kind = "answer" => m.request \in shown, Sends(m),
         answered' \in [Requests -> 0..2], inputs' \in 0..MaxInputs
  PROVE  Inv'
<1>1. /\ inbox' = Append(inbox, m)
      /\ UNCHANGED <<process, link, channel, signal, shown, history, session, task, conn,
                     input, wiggum>>
  BY DEF Sends
<1>2. inbox' \in Seq(Messages) /\ About(inbox', "answer") \subseteq shown
  BY <1>1, AppendMessage, Values
<1>3. Typed'
  BY <1>1, <1>2 DEF Inv, Typed, process, history
<1>4. Asked' /\ Answering'
  BY <1>1, <1>2, Untouched, Unchanged DEF process, history
<1> QED BY <1>3, <1>4 DEF Inv

LEMMA UserInputStep == ASSUME Inv, NEW w \in BOOLEAN, UserInput(w) PROVE Inv'
<1>1. Input(w) \in Messages /\ Input(w).kind # "answer"
  BY MessageShape
<1>2. inputs' \in 0..MaxInputs /\ answered' \in [Requests -> 0..2]
  <2>1. inputs \in 0..MaxInputs /\ inputs < MaxInputs /\ inputs' = inputs + 1
        /\ answered' = answered /\ answered \in [Requests -> 0..2]
    BY DEF UserInput, Inv, Typed
  <2> QED BY <2>1, AgentSessionAssumption
<1> QED BY <1>1, <1>2, SendsStep DEF UserInput

LEMMA UserAnswersStep == ASSUME Inv, NEW r \in Requests, UserAnswers(r) PROVE Inv'
<1>1. Answer(r) \in Messages /\ Answer(r).request = r
  BY MessageShape
<1>2. inputs' \in 0..MaxInputs /\ answered' \in [Requests -> 0..2]
  <2>1. /\ inputs \in 0..MaxInputs /\ inputs' = inputs
        /\ answered \in [Requests -> 0..2] /\ answered[r] < 2
        /\ answered' = [answered EXCEPT ![r] = @ + 1]
    <3>1. answered \in [Requests -> 0..2]
      BY DEF Inv, Typed
    <3>2. answered[r] < IF "twice" \in Faults THEN 2 ELSE 1
      BY DEF UserAnswers
    <3>3. answered[r] < 2
      BY <3>1, <3>2
    <3> QED BY <3>1, <3>3 DEF UserAnswers, Inv, Typed
  <2>2. answered[r] + 1 \in 0..2
    BY <2>1
  <2> QED BY <2>1, <2>2
<1> QED BY <1>1, <1>2, SendsStep DEF UserAnswers

LEMMA ServerTellsStep == ASSUME Inv, Terminate \/ Shutdown PROVE Inv'
<1>1. PICK k \in {"terminated", "shutdown"} :
        Sends(Tell(k)) /\ UNCHANGED <<answered, inputs>>
  BY DEF Terminate, Shutdown
<1>2. Tell(k) \in Messages /\ Tell(k).kind # "answer"
  BY MessageShape
<1> QED BY <1>1, <1>2, SendsStep DEF Inv, Typed

-----------------------------------------------------------------------------
(* Theorems.                                                                *)

LEMMA InvStep == Inv /\ [Next]_vars => Inv'
<1> SUFFICES ASSUME Inv, [Next]_vars PROVE Inv'
  OBVIOUS
<1>1. CASE AgentStep
  BY <1>1, AgentResultStep, ClaudeCommandStep, CodexCommandStep, CodexEndsStep DEF AgentStep
<1>2. CASE TaskStep
  BY <1>2, ConnectToBackendStep, TurnsStep, MainTerminatedStep, MainLeavesStep,
     MainInputStep, MainWiggumStep, MainPermissionStep, MainAsksStep, MainRawStep,
     MainResultStep, MainIteratesStep, MainExitedStep, MainNotFoundStep DEF TaskStep
<1>3. CASE ReaderStep
  BY <1>3, ReadMessageStep, ReaderEndsStep DEF ReaderStep
<1>4. CASE Mishap
  BY <1>4, AgentExitsStep, AgentErrorStep, AgentNotFoundStep, LinkStep, StopTaskStep
     DEF Mishap
<1>5. CASE UserStep
  BY <1>5, UserInputStep, UserAnswersStep, ServerTellsStep DEF UserStep
<1>6. CASE \E r \in Requests : AgentAsks(r)
  BY <1>6, AgentAsksStep
<1>7. CASE UNCHANGED vars
  BY <1>7, InvStutter
<1> QED BY <1>1, <1>2, <1>3, <1>4, <1>5, <1>6, <1>7 DEF Next

\* Every variable keeps its type: among others no more prompts of wiggum mode are
\* counted than WIGGUM_MAX_ITERATIONS (wiggum.rs).
THEOREM TypeCorrect == Spec => []TypeOK
<1>1. Inv => TypeOK
  BY TypedIsTypeOK DEF Inv
<1> QED BY <1>1, InvInit, InvStep, PTL DEF Spec

\* respond_permission and next_event (session.rs): however often users answer, and
\* whatever connections, agents and the server do in between, claude and codex are
\* given at most one answer to a request, and none to one that was not shown.
THEOREM OneAnswer == Spec => []AnsweredOnce
<1>1. Inv => AnsweredOnce
  BY DEF Inv, Asked, AnsweredOnce
<1> QED BY <1>1, InvInit, InvStep, PTL DEF Spec

=============================================================================
