---------------------------- MODULE LaunchDialog ----------------------------
(***************************************************************************)
(* The dialog that launches a session (launch_dialog.rs): the launchers it  *)
(* offers, its directory browser, and the listings it fetches through the   *)
(* backend (launchers.rs) from the launcher (connection.rs).                *)
(*                                                                         *)
(* A directory is the sequence of the names that lead to it. The text of a  *)
(* path is a directory and what follows its last slash, a name or nothing;  *)
(* "~" is a text without a slash. Files and hidden entries are left out,    *)
(* and a typed name matches only itself.                                    *)
(***************************************************************************)
EXTENDS Naturals, Sequences, FiniteSets, SequencesExt

CONSTANTS
  Launchers,      \* the user's launchers, numbers
  Tree,           \* [launcher -> its directories, with the root]
  Home,           \* [launcher -> the home directory]
  TypedTexts,     \* the texts the user types
  Patient,        \* TRUE: the user waits for what she asked for
  MaxFetches,     \* bound: listings fetched
  MaxLeaves       \* bound: launchers that come or go

Paths == [dir : Seq(STRING), rest : {"", "~"} \union STRING]

ASSUME LaunchDialogAssumption ==
  /\ Launchers \subseteq Nat \ {0}
  /\ Tree \in [Launchers -> SUBSET Seq(STRING)] /\ Home \in [Launchers -> Seq(STRING)]
  /\ TypedTexts \subseteq Paths
  /\ Patient \in BOOLEAN /\ MaxFetches \in Nat

VARIABLES
  connected,  \* SessionManager.launchers
  leaves,     \* launchers that came or went
  dialog,     \* "closed", "opening" (no launchers yet), "launch" or "install"
  offered,    \* the launchers of the list
  selected,   \* selected_launcher; 0 if none
  browser,    \* DirBrowser: path, entries, loading and error
  debounce,   \* the timer of a typed path
  fetches,    \* listings asked for, in the order they were
  launching,  \* a launch that is not answered
  launched    \* launches that reached a launcher

network == <<connected, leaves>>
form == <<dialog, offered, selected>>
launch == <<launching, launched>>
lvars == <<network, form, browser, debounce, fetches, launch>>

Fetches == 1..MaxFetches
Text(dir, rest) == [dir |-> dir, rest |-> rest]
Tilde == Text(<<>>, "~")

\* What a listing is of, and what it found.
Nothing == [launcher |-> 0, dir |-> <<>>, names |-> {}]
NoTimer == [set |-> FALSE, launcher |-> 0, path |-> Tilde]
NoLaunch == [asked |-> FALSE, launcher |-> 0, path |-> Tilde]

LInit ==
  /\ connected \in SUBSET Launchers /\ leaves = 0
  /\ dialog = "opening"
  /\ offered = {} /\ selected = 0
  /\ browser = [path |-> Tilde, entries |-> Nothing, loading |-> FALSE, error |-> FALSE]
  /\ debounce = NoTimer
  /\ fetches = <<>>
  /\ launching = NoLaunch
  /\ launched = {}

-----------------------------------------------------------------------------
(* The launcher.                                                            *)

Names(l, dir) == {Last(d) : d \in {d \in Tree[l] : d # <<>> /\ Front(d) = dir}}

Resolved(l, path) == IF path = Tilde THEN Home[l] ELSE path.dir

\* list_directory: the directory, its entries that match, or an error.
list_directory(l, path) ==
  [launcher |-> l, dir |-> Resolved(l, path),
   names |-> {n \in Names(l, Resolved(l, path)) : path.rest \in {"", "~", n}}]
Found(l, path) == Resolved(l, path) \in Tree[l]

\* Launchers come and go; one that goes does not answer what it was asked.
Connection(l) ==
  /\ leaves < MaxLeaves
  /\ leaves' = leaves + 1
  /\ connected' = IF l \in connected THEN connected \ {l} ELSE connected \union {l}
  /\ fetches' = [i \in DOMAIN fetches |->
       IF fetches[i].launcher = l /\ fetches[i].at = "waiting"
       THEN [fetches[i] EXCEPT !.at = "lost"] ELSE fetches[i]]
  /\ UNCHANGED <<form, browser, debounce, launch>>

-----------------------------------------------------------------------------
(* The dialog's requests.                                                   *)

\* fetch: a listing is asked for; the handles are the current ones.
Fetch(l, path, update, b) ==
  /\ Len(fetches) < MaxFetches
  /\ browser' = [b EXCEPT !.loading = TRUE, !.error = FALSE]
  /\ fetches' = Append(fetches, [at |-> "asked", launcher |-> l, path |-> path, update |-> update])

\* A mutated form of navigate: the path changes, nothing is fetched.
navigateMutant(l, path) == browser' = [browser EXCEPT !.path = path] /\ UNCHANGED fetches

\* navigate
navigate(l, path) ==
  IF l = 0 THEN browser' = [browser EXCEPT !.path = path] /\ UNCHANGED fetches
           ELSE Fetch(l, path, TRUE, [browser EXCEPT !.path = path])

Lowest(S) == CHOOSE l \in S : \A m \in S : l <= m

\* The launchers arrive: the first one is selected, or there is none.
LaunchersArrive ==
  /\ dialog = "opening"
  /\ offered' = connected
  /\ IF connected = {}
     THEN dialog' = "install" /\ UNCHANGED <<selected, browser, fetches>>
     ELSE /\ dialog' = "launch"
          /\ selected' = Lowest(connected)
          /\ Fetch(Lowest(connected), Tilde, TRUE, browser)
  /\ UNCHANGED <<network, debounce, launch>>

\* list_directories: the launcher is asked, or is not there.
BackendAsks(i) ==
  /\ i \in DOMAIN fetches /\ fetches[i].at = "asked"
  /\ fetches' = [fetches EXCEPT ![i].at =
                   IF fetches[i].launcher \in connected THEN "waiting" ELSE "failed"]
  /\ UNCHANGED <<network, form, browser, debounce, launch>>

\* complete_dir_request
LauncherAnswers(i) ==
  /\ i \in DOMAIN fetches /\ fetches[i].at = "waiting"
  /\ fetches' = [fetches EXCEPT ![i].at =
                   IF Found(fetches[i].launcher, fetches[i].path) THEN "listed" ELSE "failed"]
  /\ UNCHANGED <<network, form, browser, debounce, launch>>

\* No answer in five seconds.
TimesOut(i) ==
  /\ i \in DOMAIN fetches /\ fetches[i].at \in {"waiting", "lost"}
  /\ fetches' = [fetches EXCEPT ![i].at = "failed"]
  /\ UNCHANGED <<network, form, browser, debounce, launch>>

\* The answer is shown, whatever was asked for since.
ListingArrives(i) ==
  /\ i \in DOMAIN fetches /\ fetches[i].at \in {"listed", "failed"}
  /\ LET f == fetches[i]
         listing == list_directory(f.launcher, f.path)
     IN  browser' =
           IF f.at = "failed" THEN [browser EXCEPT !.loading = FALSE, !.error = TRUE]
           ELSE [browser EXCEPT !.loading = FALSE, !.entries = listing,
                                !.path = IF f.update THEN Text(listing.dir, "") ELSE @]
  /\ fetches' = [fetches EXCEPT ![i].at = "done"]
  /\ UNCHANGED <<network, form, debounce, launch>>

-----------------------------------------------------------------------------
(* The user.                                                                *)

Waiting == debounce.set \/ launching.asked \/ \E i \in DOMAIN fetches : fetches[i].at # "done"

\* She sees the form, and a patient user has waited for it to settle.
Form == dialog = "launch" /\ (Patient => ~Waiting)

\* The entries are shown.
Shown == Form /\ ~browser.loading /\ ~browser.error /\ browser.entries # Nothing

parent_path(path) ==
  IF path.rest = "" /\ path.dir # <<>> THEN Text(Front(path.dir), "") ELSE Text(path.dir, "")

\* The directory the entries are taken to be in.
Base(path) == IF path.rest = "" THEN path.dir ELSE parent_path(path).dir

Goes(path) ==
  /\ navigate(selected, path)
  /\ UNCHANGED <<network, form, debounce, launch>>

ClickEntry(name) ==
  Shown /\ name \in browser.entries.names /\ Goes(Text(Append(Base(browser.path), name), ""))

ClickUp ==
  Shown /\ browser.entries.names # {} /\ Goes(parent_path(browser.path))

\* A part of the path.
ClickBreadcrumb(n) ==
  /\ Form /\ n \in 0..Len(browser.path.dir)
  /\ Goes(Text(SubSeq(browser.path.dir, 1, n), ""))

\* Tab completes the path if there is one entry, shown or not.
PressTab ==
  /\ Form /\ (Patient => Shown)
  /\ Cardinality(browser.entries.names) = 1
  /\ \E name \in browser.entries.names : Goes(Text(Append(Base(browser.path), name), ""))

\* The path is typed; the timer of the one before is cancelled.
TypePath(path) ==
  /\ Form /\ Len(fetches) < MaxFetches
  /\ browser' = [browser EXCEPT !.path = path]
  /\ debounce' = IF selected = 0 THEN debounce
                 ELSE [set |-> TRUE, launcher |-> selected, path |-> path]
  /\ UNCHANGED <<network, form, fetches, launch>>

DebounceFires ==
  /\ debounce.set
  /\ Fetch(debounce.launcher, debounce.path, FALSE, browser)
  /\ debounce' = NoTimer
  /\ UNCHANGED <<network, form, launch>>

\* on_launcher_change: another launcher, or the instructions for a new one.
SelectLauncher(l) ==
  /\ dialog \in {"launch", "install"} /\ (Patient => ~Waiting)
  /\ l \in offered
  /\ dialog' = "launch" /\ selected' = l
  /\ navigate(l, Tilde)
  /\ UNCHANGED <<network, offered, debounce, launch>>

ConnectNew ==
  /\ dialog = "launch" /\ (Patient => ~Waiting)
  /\ dialog' = "install" /\ selected' = 0
  /\ UNCHANGED <<network, offered, browser, debounce, fetches, launch>>

\* on_launch. Who waits, waits for the directory to be shown.
on_launch ==
  /\ dialog \in {"opening", "launch"} /\ ~launching.asked
  /\ Patient => Shown /\ browser.path.rest = ""
  /\ launching' = [asked |-> TRUE, launcher |-> selected, path |-> browser.path]
  /\ UNCHANGED <<network, form, browser, debounce, fetches, launched>>

\* launch_session: the launcher, or the first one connected, is sent the launch,
\* and the dialog closes.
launch_session ==
  /\ launching.asked
  /\ LET l == IF launching.launcher # 0 THEN launching.launcher
              ELSE IF connected = {} THEN 0 ELSE Lowest(connected)
     IN  IF l \in connected
         THEN /\ launched' = launched \union {[launcher |-> l, path |-> launching.path]}
              /\ dialog' = "closed"
         ELSE UNCHANGED <<launched, dialog>>
  /\ launching' = NoLaunch
  /\ UNCHANGED <<network, offered, selected, browser, debounce, fetches>>

Close ==
  /\ dialog \notin {"closed"}
  /\ dialog' = "closed"
  /\ UNCHANGED <<network, offered, selected, browser, debounce, fetches, launch>>

-----------------------------------------------------------------------------
ListingStep ==
  \/ LaunchersArrive
  \/ DebounceFires
  \/ \E i \in Fetches : BackendAsks(i)
  \/ \E i \in Fetches : LauncherAnswers(i)
  \/ \E i \in Fetches : TimesOut(i)
  \/ \E i \in Fetches : ListingArrives(i)

AllNames == UNION {Names(l, d) : l \in Launchers, d \in UNION {Tree[m] : m \in Launchers}}

BrowserStep ==
  \/ \E name \in AllNames : ClickEntry(name)
  \/ ClickUp
  \/ \E n \in 0..3 : ClickBreadcrumb(n)
  \/ PressTab
  \/ \E path \in TypedTexts : TypePath(path)

FormStep ==
  \/ \E l \in Launchers : SelectLauncher(l)
  \/ ConnectNew
  \/ on_launch
  \/ launch_session
  \/ Close

LNext ==
  \/ ListingStep
  \/ BrowserStep
  \/ FormStep
  \/ \E l \in Launchers : Connection(l)

LSpec == LInit /\ [][LNext]_lvars

-----------------------------------------------------------------------------
\* When nothing is on its way, the entries shown are the ones of the path on the
\* selected launcher: a click leads to a directory that is there.
ShownIsThere ==
  (dialog = "launch" /\ Shown /\ ~Waiting) =>
    browser.entries = list_directory(selected, browser.path)

\* What is launched is launched in a directory that is there.
LaunchedIsThere ==
  \A s \in launched : s.path.rest = "" /\ s.path.dir \in Tree[s.launcher]

\* Both, for a user who waits for what she asked for.
PatientDialogIsTrue == Patient => ShownIsThere /\ LaunchedIsThere

\* "so their input isn't overwritten" (launch_dialog.rs:62): what the user typed
\* is not replaced by what an earlier click resolves to.
TypedStays ==
  [][debounce.set /\ debounce' = debounce => browser'.path = browser.path]_lvars
=============================================================================
