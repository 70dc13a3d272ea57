----------------------------- MODULE Dashboard -----------------------------
(***************************************************************************)
(* The dashboard page: the list of active sessions it polls, the session   *)
(* that is focused (by its index in the list), the sessions whose views are*)
(* mounted, waiting, connected or hidden, the focus given to a session that*)
(* was just launched, and the keys that move the focus.                    *)
(*                                                                         *)
(* A callback of the page holds the state as it was when the page was last *)
(* rendered: it computes the new state from that.  `page' is the state,    *)
(* `seen' what the callbacks hold; Render brings them together and runs the*)
(* effects.                                                                *)
(*                                                                         *)
(* Sessions are numbers in the order in which the page sorts them.         *)
(***************************************************************************)
EXTENDS Naturals, Sequences, SequencesExt, FiniteSets

CONSTANTS
  Sessions,      \* a set of numbers
  Cron,          \* those started by a scheduled task
  InitiallyActive,  \* those that are active when the page is opened
  MaxChanges,    \* bound: starts and ends of sessions
  MaxEvents,     \* bound: what the user and the views do
  Changes,       \* "ends", "early" (a new session is sorted before another),
                 \* "hide", "overtake" (a later poll is answered first), "fail"
  Batched,       \* several callbacks may run before the page is rendered
  None

VARIABLES
  active,    \* the sessions that are active, as the backend knows
  fetches,   \* answers to the page's polls under way
  page, seen,
  views,     \* what the views of the sessions know: waiting for input, connected
  changes, events

vars == <<active, fetches, page, seen, views, changes, events>>

Page == [sessions |-> {}, loading |-> TRUE, focused_index |-> 1,
         awaiting_sessions |-> {}, connected_sessions |-> {}, hidden_sessions |-> {},
         activated_sessions |-> {}, inactive_hidden |-> FALSE,
         initial_focus_set |-> FALSE, sessions_at_launch |-> None, nav_mode |-> FALSE]

Init ==
  /\ active = InitiallyActive /\ fetches = {} /\ changes = 0 /\ events = 0
  /\ \E h \in IF "hide" \in Changes THEN SUBSET Sessions ELSE {{}} :
     \E i \in IF "hide" \in Changes THEN BOOLEAN ELSE {FALSE} :
       page = [Page EXCEPT !.hidden_sessions = h, !.inactive_hidden = i]
  /\ seen = page
  /\ views = [awaiting |-> {}, connected |-> {}]

(* The page's list, in display order.                                      *)
Listed(p) == SetToSortSeq(p.sessions, <)
Focused(p) == IF p.focused_index \in DOMAIN Listed(p) THEN Listed(p)[p.focused_index] ELSE None
IndexOf(p, s) == CHOOSE i \in DOMAIN Listed(p) : Listed(p)[i] = s

-----------------------------------------------------------------------------
(* Sessions and polls *)

SessionStarts(s) ==
  /\ s \notin active /\ changes < MaxChanges
  /\ "early" \in Changes \/ \A t \in active : t < s
  /\ active' = active \cup {s} /\ changes' = changes + 1
  /\ UNCHANGED <<fetches, page, seen, views, events>>

SessionEnds(s) ==
  /\ "ends" \in Changes /\ s \in active /\ changes < MaxChanges
  /\ active' = active \ {s} /\ changes' = changes + 1
  /\ UNCHANGED <<fetches, page, seen, views, events>>

(* The backend answers a poll; the answers may arrive in any order.  Only  *)
(* the first poll ends the loading.                                        *)
fetch_sessions ==
  /\ fetches = {} \/ "overtake" \in Changes
  /\ \A f \in fetches : f.list # active
  /\ seen.sessions # active \/ seen.loading
  /\ fetches' = fetches \cup {[list |-> active,
       set_loading |-> seen.loading /\ \A f \in fetches : ~f.set_loading]}
  /\ UNCHANGED <<active, page, seen, views, changes, events>>

SessionsFetched(f) ==
  /\ f \in fetches /\ fetches' = fetches \ {f}
  /\ page' = [page EXCEPT !.sessions = f.list, !.loading = @ /\ ~f.set_loading]
  /\ UNCHANGED <<active, seen, views, changes, events>>

FetchFails(f) ==
  /\ "fail" \in Changes /\ f \in fetches /\ fetches' = fetches \ {f}
  /\ page' = [page EXCEPT !.loading = @ /\ ~f.set_loading]
  /\ UNCHANGED <<active, seen, views, changes, events>>

-----------------------------------------------------------------------------
(* Rendering and its effects.  Both effects compute the activated sessions *)
(* from what was rendered: the second overwrites the first.                *)

Visible(p) == SelectSeq(Listed(p), LAMBDA s : s \notin p.hidden_sessions)

InitialFocus(p) ==
  IF p.initial_focus_set \/ p.loading \/ p.sessions = {} THEN p
  ELSE [p EXCEPT !.focused_index = IF Visible(p) = <<>> THEN 1 ELSE IndexOf(p, Visible(p)[1]),
                 !.activated_sessions = @ \cup ToSet(Visible(p)),
                 !.initial_focus_set = TRUE]

NewSessions(p) == SelectSeq(Listed(p), LAMBDA s : s \notin p.sessions_at_launch)

(* The launched session is focused and its view not mounted.              *)

LaunchedFocus(p, rendered) ==
  IF p.sessions_at_launch = None \/ NewSessions(p) = <<>> THEN p
  ELSE [p EXCEPT !.focused_index = IndexOf(p, NewSessions(p)[1]),
                 !.activated_sessions = rendered.activated_sessions \cup {NewSessions(p)[1]},
                 !.sessions_at_launch = None]

HasView(p, s) == s \in p.sessions \cap p.activated_sessions

(* A view that is no longer rendered is gone with what it knew.            *)
Render ==
  /\ page # seen
  /\ seen' = page
  /\ page' = LaunchedFocus(InitialFocus(page), page)
  /\ views' = [v \in DOMAIN views |-> {s \in views[v] : HasView(page, s)}]
  /\ UNCHANGED <<active, fetches, changes, events>>

-----------------------------------------------------------------------------
(* Callbacks *)

Event == /\ events < MaxEvents /\ events' = events + 1
         /\ Batched \/ page = seen
         /\ UNCHANGED <<active, fetches, seen, changes>>

on_select_session(i) ==
  /\ Event /\ i \in DOMAIN Listed(seen)
  /\ page' = [page EXCEPT !.focused_index = i,
                 !.activated_sessions = seen.activated_sessions \cup {Listed(seen)[i]}]
  /\ UNCHANGED views

on_launch_success ==
  /\ Event
  /\ page' = [page EXCEPT !.sessions_at_launch = seen.sessions]
  /\ UNCHANGED views

(* The mark is set for a session that stops waiting, too.                  *)
on_awaiting_changeMutant(s, awaits) ==
  /\ Event /\ HasView(seen, s) /\ (s \in views.awaiting) # awaits
  /\ views' = [views EXCEPT !.awaiting = IF awaits THEN @ \cup {s} ELSE @ \ {s}]
  /\ page' = [page EXCEPT !.awaiting_sessions = seen.awaiting_sessions \cup {s}]

on_awaiting_change(s, awaits) ==
  /\ Event /\ HasView(seen, s) /\ (s \in views.awaiting) # awaits
  /\ views' = [views EXCEPT !.awaiting = IF awaits THEN @ \cup {s} ELSE @ \ {s}]
  /\ page' = IF (s \in seen.awaiting_sessions) = awaits THEN page
             ELSE [page EXCEPT !.awaiting_sessions =
                     IF awaits THEN seen.awaiting_sessions \cup {s}
                     ELSE seen.awaiting_sessions \ {s}]

on_connected_change(s, connected) ==
  /\ Event /\ HasView(seen, s) /\ (s \in views.connected) # connected
  /\ views' = [views EXCEPT !.connected = IF connected THEN @ \cup {s} ELSE @ \ {s}]
  /\ page' = [page EXCEPT !.connected_sessions =
                IF connected THEN seen.connected_sessions \cup {s}
                ELSE seen.connected_sessions \ {s}]

(* The user sends a message: the session waits no longer.                  *)
on_message_sent(s) ==
  /\ Event /\ HasView(seen, s)
  /\ views' = [views EXCEPT !.awaiting = @ \ {s}]
  /\ page' = [page EXCEPT !.awaiting_sessions = seen.awaiting_sessions \ {s}]

on_toggle_hidden(s) ==
  /\ "hide" \in Changes /\ Event /\ s \in seen.sessions
  /\ page' = [page EXCEPT !.hidden_sessions =
                IF s \in seen.hidden_sessions THEN seen.hidden_sessions \ {s}
                ELSE seen.hidden_sessions \cup {s}]
  /\ UNCHANGED views

on_toggle_inactive_hidden ==
  /\ "hide" \in Changes /\ Event
  /\ page' = [page EXCEPT !.inactive_hidden = ~seen.inactive_hidden]
  /\ UNCHANGED views

(* A change of branch writes back the whole list.                          *)
on_branch_change(s) ==
  /\ Event /\ HasView(seen, s)
  /\ page' = [page EXCEPT !.sessions = seen.sessions]
  /\ UNCHANGED views

-----------------------------------------------------------------------------
(* Keys *)

(* From an index on, the next that is not hidden; the other way round for  *)
(* the previous.                                                           *)
Cycle(p, n) == LET len == Len(Listed(p)) IN ((n - 1) % len) + 1

navigate(p, step) ==
  LET len == Len(Listed(p))
      Hidden(i) == Listed(p)[i] \in p.hidden_sessions
      ahead == [k \in 1..len |-> Cycle(p, p.focused_index + k * step)]
      free == SelectSeq(ahead, LAMBDA i : ~Hidden(i))
  IN  IF free = <<>> THEN None ELSE free[1]

navigate_to_next_active(p) == IF Listed(p) = <<>> THEN None ELSE navigate(p, 1)

navigate_by_delta(p, delta) ==
  LET len == Len(Listed(p))
      step == IF delta = 1 THEN 1 ELSE len - 1
  IN  IF len = 0 THEN None
      ELSE IF p.sessions \subseteq p.hidden_sessions THEN Cycle(p, p.focused_index + step)
      ELSE navigate(p, step)

(* The list the digits choose from.                                        *)
visible_indices(p) ==
  LET idx == [i \in DOMAIN Listed(p) |-> i]
      Plain(i) == Listed(p)[i] \in p.connected_sessions \ p.hidden_sessions
  IN  SelectSeq(idx, Plain)
      \o (IF p.inactive_hidden THEN <<>> ELSE SelectSeq(idx, LAMBDA i : ~Plain(i)))

(* The list the rail numbers.                                              *)
displayed_indices(p) ==
  LET idx == [i \in DOMAIN Listed(p) |-> i]
      Plain(i) == Listed(p)[i] \notin p.hidden_sessions \cup Cron
  IN  SelectSeq(idx, Plain)
      \o (IF p.inactive_hidden THEN <<>> ELSE SelectSeq(idx, LAMBDA i : ~Plain(i)))

Moves(target) ==
  /\ target # None
  /\ page' = [page EXCEPT !.focused_index = target,
                 !.activated_sessions = seen.activated_sessions \cup {Listed(seen)[target]}]

ShiftTab == Event /\ Moves(navigate_to_next_active(seen)) /\ UNCHANGED views

(* The third press within a while interrupts and leaves the mode.          *)
Escape == /\ Event /\ \E m \in {~seen.nav_mode, FALSE} : page' = [page EXCEPT !.nav_mode = m]
          /\ UNCHANGED views

Arrow(delta) == /\ Event /\ seen.nav_mode /\ Moves(navigate_by_delta(seen, delta))
                /\ UNCHANGED views

WaitingKey == /\ Event /\ seen.nav_mode /\ Moves(navigate_to_next_active(seen))
              /\ UNCHANGED views

Digit(n) ==
  /\ Event /\ seen.nav_mode /\ n \in DOMAIN visible_indices(seen)
  /\ LET i == visible_indices(seen)[n] IN
     page' = [page EXCEPT !.focused_index = i, !.nav_mode = FALSE,
                 !.activated_sessions = seen.activated_sessions \cup {Listed(seen)[i]}]
  /\ UNCHANGED views

-----------------------------------------------------------------------------
Callbacks(s) ==
  \/ \E v \in BOOLEAN : on_awaiting_change(s, v) \/ on_connected_change(s, v)
  \/ on_message_sent(s) \/ on_toggle_hidden(s) \/ on_branch_change(s)

Keys ==
  \/ ShiftTab \/ Escape \/ WaitingKey
  \/ \E d \in {1, 2} : Arrow(d)
  \/ \E n \in 1..Cardinality(Sessions) : Digit(n)

PageStep ==
  \/ fetch_sessions \/ Render \/ on_launch_success \/ on_toggle_inactive_hidden
  \/ \E f \in fetches : SessionsFetched(f) \/ FetchFails(f)

Next ==
  \/ \E s \in Sessions : SessionStarts(s) \/ SessionEnds(s) \/ Callbacks(s)
  \/ \E i \in 1..Cardinality(Sessions) : on_select_session(i)
  \/ PageStep \/ Keys

Spec == Init /\ [][Next]_vars

-----------------------------------------------------------------------------
\* Every variable has its type.
TypeOK ==
  /\ active \subseteq Sessions
  /\ fetches \subseteq [list : SUBSET Sessions, set_loading : BOOLEAN]
  /\ \A p \in {page, seen} :
       /\ p.sessions \subseteq Sessions /\ p.focused_index \in 1..Cardinality(Sessions)
       /\ p.awaiting_sessions \cup p.connected_sessions \subseteq Sessions
       /\ p.hidden_sessions \cup p.activated_sessions \subseteq Sessions
  /\ changes \in 0..MaxChanges /\ events \in 0..MaxEvents

Rendered == page = seen /\ LaunchedFocus(InitialFocus(page), page) = page

\* Once the page has its sessions, the one that is focused has a view: the page
\* is not blank.
FocusIsShown ==
  Rendered /\ page.sessions # {} =>
    Focused(page) # None /\ Focused(page) \in page.activated_sessions

\* The sessions marked as waiting are those whose views wait.
AwaitingIsTrue ==
  Rendered => page.awaiting_sessions \cap page.sessions = views.awaiting

\* The title counts no session that is gone.
CountedIsListed == Rendered => page.awaiting_sessions \subseteq page.sessions

\* The focus stays with its session unless the user moves it or launches one.
FocusStays ==
  [][\A f \in fetches : SessionsFetched(f) /\ Focused(page) # None
       => Focused(page') = Focused(page)]_vars

\* The number a session has on the rail is the key that selects it.
NumberSelectsItsPill == Rendered => visible_indices(page) = displayed_indices(page)

\* The key w goes to a session that waits, when one does.
WaitingKeyFindsWaiting ==
  [][WaitingKey /\ seen.awaiting_sessions \cap seen.sessions # {}
       => Focused(page') \in seen.awaiting_sessions]_vars

\* The list on the page is not older than one it has shown.
ListIsNewest == Rendered /\ fetches = {} /\ changes = MaxChanges /\ events = MaxEvents
  => page.sessions = active
=============================================================================
