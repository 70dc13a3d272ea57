------------------------- MODULE MC_OutputDelivery -------------------------
(***************************************************************************)
(* Model checking of OutputDelivery on two instances in one run: that of   *)
(* the configuration, which is shown to implement the abstract at-least-   *)
(* once log, and Faulty, with variables of its own, wiggum mode, a small   *)
(* buffer and every fault.                                                 *)
(* The first state picks; the other instance stays in its initial state.   *)
(***************************************************************************)
EXTENDS OutputDeliveryInv

VARIABLES
  faulty,   \* TRUE in the behaviours of Faulty
  f_made, f_mode, f_cur, f_cursor, f_buf, f_disk, f_chan, f_fwd, f_main,
  f_link, f_wire, f_acks, f_hand, f_last_ack, f_rows, f_pushed,
  f_overflowed

fvars == <<f_made, f_mode, f_cur, f_cursor, f_buf, f_disk, f_chan, f_fwd,
            f_main, f_link, f_wire, f_acks, f_hand, f_last_ack, f_rows,
            f_pushed, f_overflowed>>

Faulty == INSTANCE OutputDelivery WITH
  MaxOutputs <- 3, Capacity <- 2, MaxConn <- 2, Agent <- "claude", Wiggum <- TRUE,
  Faults <- {"cut", "backend_restart", "proxy_exit", "proxy_crash", "db_error",
             "db_pool", "unparsed"},
  made <- f_made, mode <- f_mode, cur <- f_cur, cursor <- f_cursor,
  buf <- f_buf, disk <- f_disk, chan <- f_chan, fwd <- f_fwd,
  main <- f_main, link <- f_link, wire <- f_wire, acks <- f_acks,
  hand <- f_hand, last_ack <- f_last_ack, rows <- f_rows, pushed <- f_pushed,
  overflowed <- f_overflowed

MCInit == faulty \in BOOLEAN /\ Init /\ Faulty!Init

In(A) == ~faulty /\ A
Is(A) == In(A) /\ UNCHANGED <<fvars, faulty>>
IsFaulty(A) == faulty /\ A /\ UNCHANGED <<vars, faulty>>

MCNext ==
  \/ Is(ProxyStep)
  \/ Is(LinkCut)
  \/ Is(BackendRestart)
  \/ \E c \in Conns : Is(BackendStep(c))
  \/ IsFaulty(Faulty!ProxyStep)
  \/ IsFaulty(Faulty!LinkCut)
  \/ IsFaulty(Faulty!BackendRestart)
  \/ \E c \in Faulty!Conns : IsFaulty(Faulty!BackendStep(c))

\* The Fairness of OutputDelivery, for the instance of the configuration.
MCSpec ==
  /\ MCInit /\ [][MCNext]_<<vars, fvars, faulty>>
  /\ WF_vars(In(Connect \/ ReplayNext \/ Announce \/ ProxyStart))
  /\ WF_vars(In(WiggumPush \/ MainSend))
  /\ WF_vars(In(ForwarderTake \/ ForwarderPush \/ ForwarderSend \/ ForwarderFails))
  /\ WF_vars(In(ReceiveAck))
  /\ WF_vars(In(cur > 0 /\ link[cur] # "open" /\ Disconnect))
  /\ \A c \in Conns :
       WF_vars(In(BackendSkip(c) \/ BackendAccept(c) \/ BackendStore(c) \/ BackendAck(c)))

\* Whatever got a number is stored in the end and then acknowledged: the buffer
\* drains once a connection stays up, and the log goes on until all is delivered.
Drains == (~faulty => PushedIsStored /\ BufferDrains) /\ Log!DeliversOn

\* Under every fault no acknowledgment is ahead of the buffer that receives it, a
\* message has at most one row per connection, and only the oldest are given up.
FaultyDeliveryIsBounded ==
  /\ [](Faulty!AckNeverAhead /\ Faulty!CopiesPerConnection)
  /\ Faulty!OverflowDropsOldest
=============================================================================
