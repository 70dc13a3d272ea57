----------------------------- MODULE Retention -----------------------------
(***************************************************************************)
(* What the backend keeps of a user's sessions: the newest messages of each,*)
(* what its agent has cost, the costs of sessions that were deleted, and    *)
(* the tasks that delete: the truncation of the sessions queued since the   *)
(* last one, the deletion of old sessions, and a user's own deletions.      *)
(***************************************************************************)
EXTENDS Naturals, FiniteSets, FiniteSetsExt, Functions

CONSTANTS
  Sessions,
  max_messages_per_session,
  MaxMessages,       \* bound: outputs of a session
  MaxDeletions,      \* bound: deletions of sessions
  Mishaps,           \* "overlap": a session is deleted while an output of it is stored
                     \* or another deletion of it is under way; "pool": the truncation
                     \* has no connection; "db_error": a deletion fails half-way; "again": a proxy
                     \* registers a deleted session again; "new_agent": an agent's
                     \* next process counts its costs from zero; "idle": no session
                     \* gets old
  None

VARIABLES
  row,       \* row[s]: [cost, old, exists]
  messages,  \* messages[s]: numbers of the stored messages, in the order of insertion
  written,   \* written[s]: number of the last output inserted
  aged,      \* aged[s]: messages up to this number are older than retention_days
  storing,   \* storing[s]: [pc, result] of the handler that stores an output
  pending_truncations,
  cleaner,   \* the truncation task
  deleting,  \* deletions under way
  aging,     \* the age clean-up: whether it is at work, the rows it has still to delete
  deleted_session_costs,
  counted,   \* counted[s]: what the agent's process has reported so far
  spent,     \* what all agents have cost
  spend,     \* the broadcast: [pc, active, shown]
  stale_tokens,  \* tokens that expired more than 7 days ago
  deletions

records == <<row, deleted_session_costs, deleting, aging, stale_tokens, deletions>>
truncation == <<messages, pending_truncations, cleaner>>
agents == <<written, aged, storing, counted, spent>>
tvars == <<records, truncation, agents, spend>>

Idle == [pc |-> "idle", ids |-> {}, left |-> {}, session |-> None, excess |-> 0, doomed |-> {}]

TInit ==
  /\ row = [s \in Sessions |-> [cost |-> 0, old |-> FALSE, exists |-> TRUE]]
  /\ messages = [s \in Sessions |-> {}] /\ written = [s \in Sessions |-> 0]
  /\ aged = [s \in Sessions |-> 0] /\ counted = [s \in Sessions |-> 0]
  /\ storing = [s \in Sessions |-> [pc |-> "idle", result |-> FALSE]]
  /\ pending_truncations = {} /\ cleaner = Idle
  /\ deleting = {} /\ aging = [on |-> FALSE, rows |-> {}]
  /\ deleted_session_costs = 0 /\ spent = 0 /\ deletions = 0
  /\ spend = [pc |-> "idle", active |-> 0, shown |-> 0]
  /\ stale_tokens \in {0, 1}

Existing == {s \in Sessions : row[s].exists}
ActiveCosts == MapThenSumSet(LAMBDA s : row[s].cost, Existing)
Free(s) ==
  \/ "overlap" \in Mishaps
  \/ storing[s].pc = "idle" /\ \A d \in deleting \cup aging.rows : d.session # s

-----------------------------------------------------------------------------
(* An output of the agent of session s is stored *)

FollowingMutant(s) ==
  CASE storing[s].pc = "idle" -> "queue" [] storing[s].pc = "queue" -> "insert"
    [] storing[s].pc = "insert" -> IF storing[s].result THEN "cost" ELSE "touch"
    [] storing[s].pc = "cost" -> "touch" [] storing[s].pc = "touch" -> "idle"
Following(s) ==
  CASE storing[s].pc = "idle" -> "insert"
    [] storing[s].pc = "insert" -> IF storing[s].result THEN "cost" ELSE "queue"
    [] storing[s].pc = "cost" -> "queue" [] storing[s].pc = "queue" -> "touch"
    [] storing[s].pc = "touch" -> "idle"
GoesOn(s) == storing' = [storing EXCEPT ![s].pc = Following(s)]

StoreMessage(s) ==
  /\ \/ /\ storing[s].pc = "idle" /\ row[s].exists /\ written[s] < MaxMessages /\ Free(s)
        /\ \E result \in BOOLEAN :
             storing' = [storing EXCEPT ![s] = [pc |-> Following(s), result |-> result]]
        /\ UNCHANGED <<messages, written, pending_truncations, row>>
     \/ /\ storing[s].pc = "insert" /\ GoesOn(s)
        /\ written' = [written EXCEPT ![s] = @ + 1]
        /\ messages' = IF row[s].exists
                       THEN [messages EXCEPT ![s] = @ \cup {written[s] + 1}] ELSE messages
        /\ UNCHANGED <<pending_truncations, row>>
     \/ /\ storing[s].pc = "queue" /\ GoesOn(s)
        /\ pending_truncations' = pending_truncations \cup {s}
        /\ UNCHANGED <<messages, written, row>>
     \/ /\ storing[s].pc = "touch" /\ GoesOn(s)
        /\ row' = [row EXCEPT ![s].old = FALSE]
        /\ UNCHANGED <<messages, written, pending_truncations>>
  /\ UNCHANGED <<aged, cleaner, deleting, aging, deleted_session_costs, counted, spent, spend,
                 stale_tokens, deletions>>

(* A result carries what the agent's process has cost so far: it becomes    *)
(* the cost of the session.                                                *)
NewCostMutant(s) == row[s].cost + counted[s] + 1
NewCost(s) == counted[s] + 1

store_result_metadata(s) ==
  /\ storing[s].pc = "cost" /\ GoesOn(s)
  /\ counted' = [counted EXCEPT ![s] = @ + 1] /\ spent' = spent + 1
  /\ row' = IF row[s].exists THEN [row EXCEPT ![s].cost = NewCost(s)] ELSE row
  /\ UNCHANGED <<truncation, written, aged, deleting, aging, deleted_session_costs, spend,
                 stale_tokens, deletions>>

-----------------------------------------------------------------------------
(* The truncation task *)

drain_pending_truncations ==
  /\ \/ /\ cleaner.pc = "idle"
        /\ cleaner' = [Idle EXCEPT !.pc = "drain", !.ids = pending_truncations,
                                   !.left = pending_truncations]
        /\ UNCHANGED pending_truncations
     \/ \E s \in cleaner.left :
          /\ cleaner.pc = "drain"
          /\ pending_truncations' = pending_truncations \ {s}
          /\ cleaner' = [cleaner EXCEPT !.left = @ \ {s}]
  /\ UNCHANGED <<records, agents, messages, spend>>

(* Without a connection the sessions that were drained are forgotten.       *)
run_retention_cleanup ==
  /\ cleaner.pc = "drain" /\ cleaner.left = {}
  /\ \/ cleaner' = [cleaner EXCEPT !.pc = "age"]
     \/ "pool" \in Mishaps /\ cleaner' = Idle
  /\ UNCHANGED <<records, agents, messages, pending_truncations, spend>>

delete_old_messages ==
  /\ cleaner.pc = "age" /\ cleaner' = [cleaner EXCEPT !.pc = "next"]
  /\ messages' = [s \in Sessions |-> {n \in messages[s] : n > aged[s]}]
  /\ UNCHANGED <<records, agents, pending_truncations, spend>>

Oldest(S, n) == {m \in S : Cardinality({k \in S : k < m}) < n}

(* One session: its messages are counted, the oldest chosen, and deleted.   *)
truncate_session_messages ==
  LET s == cleaner.session count == Cardinality(messages[s]) IN
  /\ \/ /\ cleaner.pc = "next"
        /\ IF cleaner.ids = {} THEN cleaner' = Idle
           ELSE \E t \in cleaner.ids :
                  cleaner' = [cleaner EXCEPT !.pc = "count", !.session = t, !.ids = @ \ {t}]
        /\ UNCHANGED messages
     \/ /\ cleaner.pc = "count"
        /\ cleaner' = IF count <= max_messages_per_session THEN [cleaner EXCEPT !.pc = "next"]
                      ELSE [cleaner EXCEPT !.pc = "select",
                                            !.excess = count - max_messages_per_session]
        /\ UNCHANGED messages
     \/ /\ cleaner.pc = "select"
        /\ cleaner' = [cleaner EXCEPT !.pc = "delete",
                                      !.doomed = Oldest(messages[s], cleaner.excess)]
        /\ UNCHANGED messages
     \/ /\ cleaner.pc = "delete"
        /\ messages' = [messages EXCEPT ![s] = @ \ cleaner.doomed]
        /\ cleaner' = [cleaner EXCEPT !.pc = "next"]
  /\ UNCHANGED <<records, agents, pending_truncations, spend>>

CleanerStep ==
  drain_pending_truncations \/ run_retention_cleanup \/ delete_old_messages
  \/ truncate_session_messages

(* Time: a message becomes older than retention_days.                      *)
MessageAges(s) ==
  /\ aged[s] < written[s] /\ aged' = [aged EXCEPT ![s] = @ + 1]
  /\ UNCHANGED <<records, truncation, written, storing, counted, spent, spend>>

-----------------------------------------------------------------------------
(* Deletion of sessions, with the cost as it was when the row was loaded *)

Deletion(by, s) == [by |-> by, session |-> s, cost |-> row[s].cost, pc |-> "record"]

DeleteSession(s) ==
  /\ row[s].exists /\ deletions < MaxDeletions /\ deletions' = deletions + 1 /\ Free(s)
  /\ Deletion("user", s) \notin deleting /\ deleting' = deleting \cup {Deletion("user", s)}
  /\ UNCHANGED <<row, deleted_session_costs, aging, stale_tokens, truncation, agents, spend>>

SessionAges(s) ==
  /\ "idle" \notin Mishaps /\ row[s].exists /\ ~row[s].old /\ storing[s].pc = "idle"
  /\ row' = [row EXCEPT ![s].old = TRUE]
  /\ UNCHANGED <<deleted_session_costs, deleting, aging, stale_tokens, deletions, truncation,
                 agents, spend>>

(* The hourly task: without an old session it returns before it comes to    *)
(* the tokens.                                                             *)
run_session_age_cleanup ==
  LET old == {s \in Existing : row[s].old} IN
  /\ ~aging.on /\ old # {} /\ \A s \in old : Free(s)
  /\ aging' = [on |-> TRUE, rows |-> {Deletion("age", s) : s \in old}]
  /\ UNCHANGED <<row, deleted_session_costs, deleting, deletions, stale_tokens, truncation,
                 agents, spend>>

(* One row after the other; after the last one, the tokens.                *)
DeleteNextOld ==
  /\ aging.on /\ {d \in deleting : d.by = "age"} = {}
  /\ \/ \E d \in aging.rows :
          /\ aging' = [aging EXCEPT !.rows = @ \ {d}]
          /\ deleting' = deleting \cup {d} /\ UNCHANGED stale_tokens
     \/ /\ aging.rows = {} /\ aging' = [aging EXCEPT !.on = FALSE]
        /\ stale_tokens' = 0 /\ UNCHANGED deleting
  /\ UNCHANGED <<row, deleted_session_costs, deletions, truncation, agents, spend>>

(* The costs are added to the user's deleted ones, then the rows go.        *)
delete_session_with_data(d) ==
  LET s == d.session IN
  /\ \/ /\ d.pc = "record"
        /\ deleted_session_costs' = deleted_session_costs + d.cost
        /\ deleting' = (deleting \ {d}) \cup {[d EXCEPT !.pc = "messages"]}
        /\ UNCHANGED <<row, messages, stale_tokens>>
     \/ /\ d.pc = "messages" /\ messages' = [messages EXCEPT ![s] = {}]
        /\ deleting' = (deleting \ {d}) \cup {[d EXCEPT !.pc = "session"]}
        /\ UNCHANGED <<row, deleted_session_costs, stale_tokens>>
     \/ /\ d.pc = "session" /\ messages' = [messages EXCEPT ![s] = {}]
        /\ row' = [row EXCEPT ![s] = [cost |-> 0, old |-> FALSE, exists |-> FALSE]]
        /\ deleting' = deleting \ {d}
        /\ UNCHANGED <<deleted_session_costs, stale_tokens>>
  /\ UNCHANGED <<aging, deletions, pending_truncations, cleaner, agents, spend>>

(* A statement fails: what was done before stays.                          *)
DeletionFails(d) ==
  /\ "db_error" \in Mishaps /\ d.pc # "record" /\ deleting' = deleting \ {d}
  /\ UNCHANGED <<row, deleted_session_costs, aging, stale_tokens, deletions, truncation, agents,
                 spend>>

(* A proxy that is still running registers a session that was deleted.      *)
Reregisters(s) ==
  /\ "again" \in Mishaps /\ ~row[s].exists
  /\ row' = [row EXCEPT ![s].exists = TRUE]
  /\ UNCHANGED <<deleted_session_costs, deleting, aging, stale_tokens, deletions, truncation,
                 agents, spend>>

AgentResumes(s) ==
  /\ "new_agent" \in Mishaps /\ counted[s] > 0 /\ storing[s].pc = "idle"
  /\ counted' = [counted EXCEPT ![s] = 0]
  /\ UNCHANGED <<records, truncation, written, aged, storing, spent, spend>>

-----------------------------------------------------------------------------
(* The broadcast of a user's spend: sessions first, then deleted ones *)

get_user_usage ==
  /\ \/ /\ spend.pc = "idle"
        /\ spend' = [spend EXCEPT !.pc = "active", !.active = ActiveCosts]
     \/ /\ spend.pc = "active"
        /\ spend' = [spend EXCEPT !.pc = "idle", !.shown = spend.active + deleted_session_costs]
  /\ UNCHANGED <<records, truncation, agents>>

-----------------------------------------------------------------------------
DeletionStep ==
  \/ \E s \in Sessions : DeleteSession(s)
  \/ \E s \in Sessions : SessionAges(s)
  \/ run_session_age_cleanup \/ DeleteNextOld
  \/ \E d \in deleting : delete_session_with_data(d)
  \/ \E d \in deleting : DeletionFails(d)

TNext ==
  \/ \E s \in Sessions : StoreMessage(s)
  \/ \E s \in Sessions : store_result_metadata(s)
  \/ \E s \in Sessions : MessageAges(s)
  \/ \E s \in Sessions : Reregisters(s)
  \/ \E s \in Sessions : AgentResumes(s)
  \/ CleanerStep \/ DeletionStep \/ get_user_usage

(* A handler that has begun goes on; the clean-up is a timer's task.        *)
Stores(s) == storing[s].pc # "idle" /\ (StoreMessage(s) \/ store_result_metadata(s))
TFairness == WF_tvars(CleanerStep) /\ \A s \in Sessions : WF_tvars(Stores(s))
TSpec == TInit /\ [][TNext]_tvars /\ TFairness

-----------------------------------------------------------------------------
\* Once no output comes any more, no session has more messages than the limit:
\* a session that exceeds it is truncated, whenever its messages were stored while
\* the task was draining, counting or deleting.
TruncationComes ==
  <>[](\A s \in Sessions : Cardinality(messages[s]) <= max_messages_per_session)

\* The newest messages within the limit are never truncated: a message of a session
\* that was not deleted goes only when it is too old or has enough newer ones.
KeepsNewest ==
  \A s \in Sessions : (row[s].exists /\ \A d \in deleting : d.session # s) =>
    \A n \in 1 .. written[s] :
      n > aged[s] /\ n + max_messages_per_session > written[s] => n \in messages[s]

\* What a user is shown to have spent is what the agents have cost: a deletion
\* moves a session's costs to the deleted ones, whole and once.
CostsCounted ==
  (deleting = {} /\ \A s \in Sessions : storing[s].pc = "idle") =>
    ActiveCosts + deleted_session_costs = spent

\* The spend that is shown is never more than what the agents have cost.
ShownIsSpent == spend.shown <= spent

\* Only sessions without activity for session_max_age_days are deleted by the task.
OnlyOldDeleted == \A d \in deleting : d.by = "age" => row[d.session].old

\* "Credentials expired for more than 7 days are automatically deleted."
TokensCleaned == <>(stale_tokens = 0)
=============================================================================
