------------------------------ MODULE MC_Pages ------------------------------
(***************************************************************************)
(* What the browsers show, and the tables behind it; the first state picks *)
(* one of the instances, whose variables are the only ones that change.    *)
(*                                                                         *)
(* Of Conversation: one browser that loses its socket, with registrations  *)
(* that do not overlap an output ("calm"); one with every mishap and       *)
(* registrations that do; two users of a session that write and answer at  *)
(* the same time.  Of FileUpload: two users' uploads.  Of Dashboard: one   *)
(* that is rendered after every callback, with sessions that end, start    *)
(* anywhere in the list or are hidden, and polls that fail; and one whose  *)
(* callbacks may run several at a time, where new sessions come last.      *)
(*                                                                         *)
(* Of Panels: two administrators and a user, one request at a time; an     *)
(* administrator and the owner of a session, whose requests and its        *)
(* proxy's overlap; pages of one user, who waits for each answer, and her  *)
(* share dialog.  And one of Retention.                                    *)
(***************************************************************************)
EXTENDS Conversation, FileUpload, Panels

CONSTANTS b1, b2, r1, r2, u1, u2, u3, s1, s2

OwnNames == [u \in Uploads |-> u]
OwnedByU3 == [s \in {s1, s2} |-> u3]

VARIABLES
  active, fetches, shown, seen, views, changes, events,   \* of Dashboard
  stats, messages, inserted, aged, storing, pending_truncations, cleaner, deleting, aging,
  deleted_session_costs, counted, spent, spend, stale_tokens, deletions,  \* of Retention
  mode   \* the instance

dvars == <<active, fetches, shown, seen, views, changes, events>>
tvars == <<stats, messages, inserted, aged, storing, pending_truncations, cleaner, deleting,
           aging, deleted_session_costs, counted, spent, spend, stale_tokens, deletions>>
mcvars == <<vars, uvars, dvars, pvars, tvars, mode>>

Shaken == INSTANCE Conversation WITH
  FaultSets <- {{"overlap", "cut", "parallel", "refuse", "revoke"}},
  MaxMessages <- 1, MaxInputs <- 0, Requests <- {r1, r2}, Browsers <- {b1}, MaxConnections <- 2
Shared == INSTANCE Conversation WITH
  FaultSets <- {{"parallel"}}, Browsers <- {b1, b2}, Requests <- {r1, r2},
  MaxMessages <- 0, MaxInputs <- 0, MaxConnections <- 1
Rendered == INSTANCE Dashboard WITH
  page <- shown,
  Sessions <- {1, 2, 3}, Cron <- {3}, InitiallyActive <- {1, 3}, MaxChanges <- 1, MaxEvents <- 3,
  Changes <- {"ends", "early", "hide", "fail"}, Batched <- FALSE
Batched == INSTANCE Dashboard WITH
  page <- shown,
  Sessions <- {1, 2, 3}, Cron <- {3}, InitiallyActive <- {1, 2}, MaxChanges <- 1, MaxEvents <- 3,
  Changes <- {"fail"}, Batched <- TRUE
Accounts == INSTANCE Panels WITH
  Users <- {u1, u3}, Administrators <- {u1, u3}, Actors <- {u1, u3},
  Sessions <- {s1}, Stored <- {}, Shown <- {"users"}, Fields <- {"admin", "disabled"},
  MaxTokens <- 3, MaxRegistrations <- 1, MaxInFlight <- 1, MaxClicks <- 2, UserFaults <- {}
Paged == INSTANCE Panels WITH
  Users <- {u1, u3}, Administrators <- {u3}, Actors <- {u3},
  Sessions <- {s1, s2}, Stored <- {s1, s2}, Shown <- {"users", "tokens", "mine"},
  Fields <- {"voice", "admin", "disabled"}, MaxTokens <- 3, MaxRegistrations <- 0,
  MaxInFlight <- 2, MaxClicks <- 2, UserFaults <- {}
Share == INSTANCE Panels WITH
  Users <- {u1, u2, u3}, Administrators <- {u1}, Actors <- {u3},
  Sessions <- {s1}, Stored <- {s1}, Shown <- {"members"}, Fields <- {},
  MaxTokens <- 3, MaxRegistrations <- 0, MaxInFlight <- 2, MaxClicks <- 3, UserFaults <- {}
Kept == INSTANCE Retention WITH
  row <- stats, written <- inserted,
  Sessions <- {s1}, max_messages_per_session <- 1, MaxMessages <- 2, MaxDeletions <- 1,
  Mishaps <- {}

MCInit ==
  /\ UInit /\ Kept!TInit
  /\ mode \in {"calm", "shaken", "shared", "upload", "rendered", "batched", "retention"}
               \cup {"accounts", "overlap", "pages", "share"}
  /\ CASE mode = "shaken" -> Shaken!Init
       [] mode = "shared" -> Shared!Init
       [] OTHER -> Init
  /\ IF mode = "rendered" THEN Rendered!Init ELSE Batched!Init
  /\ CASE mode = "accounts" -> Accounts!PInit
       [] mode = "pages" -> Paged!PInit
       [] mode = "share" -> Share!PInit
       [] mode = "overlap" -> PInit
       [] OTHER -> PInit /\ known = {}

Is(m, A) == mode = m /\ A /\ UNCHANGED <<faults, uvars, dvars, pvars, tvars, mode>>
Up(A) == mode = "upload" /\ A /\ UNCHANGED <<vars, dvars, pvars, tvars, mode>>
On(m, A) == mode = m /\ A /\ UNCHANGED <<vars, uvars, pvars, tvars, mode>>
In(m, A) == mode = m /\ A /\ UNCHANGED <<vars, uvars, dvars, tvars, mode>>
Of(A) == mode = "retention" /\ A /\ UNCHANGED <<vars, uvars, dvars, pvars, mode>>

MCNext ==
  \/ \E b \in Browsers : Is("calm", ViewStep(b))
  \/ \E b \in Browsers : Is("calm", UserStep(b))
  \/ \E b \in Browsers : Is("calm", SocketStep(b))
  \/ Is("calm", ProxyStep)
  \/ \E b \in {b1} : Is("shaken", Shaken!ViewStep(b))
  \/ \E b \in {b1} : Is("shaken", Shaken!UserStep(b))
  \/ \E b \in {b1} : Is("shaken", Shaken!SocketStep(b))
  \/ \E b \in {b1} : Is("shaken", Shaken!RemoveMember(b))
  \/ Is("shaken", Shaken!ProxyStep)
  \/ \E b \in {b1, b2} : Is("shared", Shared!ViewStep(b))
  \/ \E b \in {b1, b2} : Is("shared", Shared!UserStep(b))
  \/ \E b \in {b1, b2} : Is("shared", Shared!SocketStep(b))
  \/ Is("shared", Shared!ProxyStep)
  \/ Up(UNext)
  \/ \E s \in {1, 2, 3} : On("rendered", Rendered!SessionStarts(s) \/ Rendered!SessionEnds(s))
  \/ \E s \in {1, 2, 3} : On("rendered", Rendered!Callbacks(s))
  \/ \E i \in {1, 2, 3} : On("rendered", Rendered!on_select_session(i))
  \/ On("rendered", Rendered!PageStep)
  \/ On("rendered", Rendered!Keys)
  \/ \E s \in {1, 2, 3} : On("batched", Batched!SessionStarts(s))
  \/ \E s \in {1, 2, 3} : On("batched", Batched!Callbacks(s))
  \/ \E i \in {1, 2, 3} : On("batched", Batched!on_select_session(i))
  \/ On("batched", Batched!PageStep)
  \/ On("batched", Batched!Keys)
  \/ \E u \in {u1, u3} : In("accounts", Accounts!ClickStep(u))
  \/ In("accounts", Accounts!AnswerStep(1))
  \/ In("accounts", Accounts!AdminStep(1))
  \/ In("accounts", Accounts!RegistrationStep(1))
  \/ \E s \in {s1} : In("accounts", Accounts!Proxy(s))
  \/ \E u \in Users : In("overlap", ClickStep(u))
  \/ \E i \in {1, 2} : In("overlap", AnswerStep(i))
  \/ \E i \in {1, 2} : In("overlap", AdminStep(i))
  \/ \E i \in {1, 2} : In("overlap", MemberStep(i))
  \/ \E i \in {1, 2} : In("overlap", SessionStep(i))
  \/ \E i \in {1, 2} : In("overlap", RegistrationStep(i))
  \/ \E s \in Sessions : In("overlap", Proxy(s))
  \/ \E u \in {u3} : In("pages", Paged!ClickStep(u))
  \/ \E i \in {1, 2} : In("pages", Paged!AnswerStep(i))
  \/ \E i \in {1, 2} : In("pages", Paged!AdminStep(i))
  \/ \E i \in {1, 2} : In("pages", Paged!SessionStep(i))
  \/ \E i \in {1, 2} : In("pages", Paged!TokenStep(i))
  \/ \E u \in {u3} : In("share", Share!ClickStep(u))
  \/ \E i \in {1, 2} : In("share", Share!AnswerStep(i))
  \/ \E i \in {1, 2} : In("share", Share!MemberStep(i))
  \/ \E s \in {s1} :
       Of(Kept!StoreMessage(s) \/ Kept!store_result_metadata(s) \/ Kept!MessageAges(s))
  \/ Of(Kept!CleanerStep)
  \/ Of(Kept!DeletionStep)
  \/ Of(Kept!get_user_usage)

MCFairness == WF_mcvars(Of(Kept!CleanerStep)) /\ WF_mcvars(Of(\E s \in {s1} : Kept!Stores(s)))

MCSpec == MCInit /\ [][MCNext]_mcvars /\ MCFairness

-----------------------------------------------------------------------------
\* The page is not blank where new sessions come last, however many callbacks run
\* before it is rendered (FocusIsShown); and it knows the sessions that wait where
\* it is rendered after every callback (AwaitingIsTrue). The types hold, too.
PageStaysTrue ==
  CASE mode = "batched" -> Batched!FocusIsShown /\ Batched!TypeOK
    [] mode = "rendered" -> Rendered!AwaitingIsTrue /\ Rendered!TypeOK
    [] OTHER -> TRUE

\* As PageIsTrue and SecretWorks, for the pages of a user who waits for the answer
\* to each change, when nobody else changes the tables.
CalmPageIsTrue ==
  /\ mode = "pages" => Paged!PageIsTrue /\ Paged!SecretWorks
  /\ mode = "share" => Share!PageIsTrue

\* As CostsCounted and KeepsNewest, where deletions do not overlap with each other
\* or with the storing of an output of the same session.
SerialCostsCounted == mode = "retention" => Kept!CostsCounted /\ Kept!KeepsNewest

\* As TruncationComes, with deletions of the session and of its old messages.
OversizeIsTruncated == mode = "retention" => Kept!TruncationComes
=============================================================================
