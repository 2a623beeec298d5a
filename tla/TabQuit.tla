------------------------------ MODULE TabQuit -------------------------------
(***************************************************************************)
(* The desktop's workspace tabs: the drain of one tab (lifecycle.rs), its  *)
(* close, open and failure (main.rs), and the quit that drains every tab   *)
(* of the window (tabs.rs).                                                *)
(*                                                                         *)
(* One thread runs the interface: an action that is not a step of a job is *)
(* one turn of its loop, with the tab events it emits and the root's       *)
(* answer to them.  Jobs, and the Git children they start, run beside it.  *)
(* A confirmed paste is a job that is never cancelled.                     *)
(*                                                                         *)
(* Time is left out: DRAIN_DEADLINE may pass at any poll.                  *)
(***************************************************************************)
EXTENDS Naturals, FiniteSets

CONSTANTS
    Tabs,           \* the tab ids a session uses
    InitialTabs     \* the tabs the launch restored

ASSUME TabsAssumption == InitialTabs \subseteq Tabs

VARIABLES
    tabs,       \* TabsRoot.tabs
    fresh,      \* ids not used yet (next_id)
    quitting,   \* TabsRoot.quitting is set
    waiting,    \* quitting: the tabs that have not drained yet
    drained,    \* TabsRoot.quit_drained
    quitSent,   \* TabsRoot.quit_sent: the task that quits is queued
    ended,      \* cx.quit ran
    leaked,     \* a local Git slot leaked
    open,       \* open[t]: workspace_open
    phase,      \* phase[t]: idle, or the intent its drain finishes into
    stale,      \* stale[t]: what a drain cancelled has not been fetched again
    plan,       \* plan[t]: a paste preview is shown that can be confirmed
    read,       \* read[t]: a read of the current generation runs
    late,       \* late[t]: a read outdated by a drain still runs
    write,      \* write[t]: a confirmed paste is being written
    git         \* git[t]: a job of the tab has a Git child, or waits for one

root == <<tabs, fresh, quitting, waiting, drained, quitSent, ended>>
work == <<plan, late, write, git>>
vars == <<root, leaked, open, phase, stale, read, work>>

Intents == {"quit", "close", "open"}

TypeOK ==
    /\ tabs \subseteq Tabs /\ fresh \subseteq Tabs
    /\ quitting \in BOOLEAN /\ quitSent \in BOOLEAN /\ ended \in BOOLEAN
    /\ waiting \subseteq Tabs /\ drained \subseteq Tabs
    /\ leaked \in BOOLEAN
    /\ open \in [Tabs -> BOOLEAN]
    /\ phase \in [Tabs -> Intents \cup {"idle"}]
    /\ stale \in [Tabs -> BOOLEAN] /\ plan \in [Tabs -> BOOLEAN]
    /\ read \in [Tabs -> BOOLEAN] /\ late \in [Tabs -> BOOLEAN]
    /\ write \in [Tabs -> BOOLEAN] /\ git \in [Tabs -> BOOLEAN]

Init ==
    /\ tabs = InitialTabs /\ fresh = Tabs \ InitialTabs
    /\ quitting = FALSE /\ quitSent = FALSE /\ ended = FALSE
    /\ leaked = FALSE
    /\ waiting = {} /\ drained = {}
    /\ open = [t \in Tabs |-> t \in InitialTabs]
    /\ phase = [t \in Tabs |-> "idle"]
    /\ stale = [t \in Tabs |-> FALSE] /\ plan = [t \in Tabs |-> FALSE]
    /\ read = [t \in Tabs |-> FALSE] /\ late = [t \in Tabs |-> FALSE]
    /\ write = [t \in Tabs |-> FALSE] /\ git = [t \in Tabs |-> FALSE]

Jobs(t) == read[t] \/ late[t] \/ write[t]
AcceptingWork(t) == open[t] /\ phase[t] = "idle"

\* The Git load a drain into an intent waits on, beside the tab's own jobs:
\* Quit waits for every Git child, a tab's close or open for none.
LoadRuns(intent) == intent = "quit" /\ \E u \in tabs : git[u]

(***************************************************************************)
(* Jobs.                                                                   *)
(***************************************************************************)
StartRead(t) ==
    /\ t \in tabs /\ AcceptingWork(t) /\ ~read[t]
    /\ read' = [read EXCEPT ![t] = TRUE]
    /\ UNCHANGED <<root, leaked, open, phase, stale, work>>

\* A Git child is gone before the job that ran it ends.
EndsQuietly(t, others) == git[t] => others

\* A read of the current generation lands, perhaps with a paste plan.
ReadLands(t) ==
    /\ t \in tabs /\ read[t] /\ EndsQuietly(t, late[t] \/ write[t])
    /\ read' = [read EXCEPT ![t] = FALSE]
    /\ \E shown \in {plan[t], plan[t] \/ ~write[t]} :
        plan' = [plan EXCEPT ![t] = shown]
    /\ UNCHANGED <<root, leaked, open, phase, stale, late, write, git>>

\* The result of an outdated read is dropped.
LateEnds(t) ==
    /\ t \in tabs /\ late[t] /\ EndsQuietly(t, read[t] \/ write[t])
    /\ late' = [late EXCEPT ![t] = FALSE]
    /\ UNCHANGED <<root, leaked, open, phase, stale, read, plan, write, git>>

\* apply_paste_restore asks for a plan and no write, not for an idle tab.
Confirm(t) ==
    /\ t \in tabs /\ plan[t] /\ ~write[t]
    /\ write' = [write EXCEPT ![t] = TRUE]
    /\ UNCHANGED <<root, leaked, open, phase, stale, read, plan, late, git>>

\* Written: the preview closes and the tab reloads.  Refused: it stays.
WriteEnds(t) ==
    /\ t \in tabs /\ write[t] /\ EndsQuietly(t, read[t] \/ late[t])
    /\ write' = [write EXCEPT ![t] = FALSE]
    /\ \/ /\ plan' = [plan EXCEPT ![t] = FALSE]
          /\ read' = [read EXCEPT ![t] = read[t] \/ AcceptingWork(t)]
       \/ UNCHANGED <<plan, read>>
    /\ UNCHANGED <<root, leaked, open, phase, stale, late, git>>

GitStarts(t) ==
    /\ t \in tabs /\ Jobs(t) /\ ~git[t]
    /\ git' = [git EXCEPT ![t] = TRUE]
    /\ UNCHANGED <<root, leaked, open, phase, stale, read, plan, late, write>>

\* A child that cannot be confirmed dead leaks its slot (GitBudget).
GitEnds(t) ==
    /\ git[t]
    /\ git' = [git EXCEPT ![t] = FALSE]
    /\ leaked' \in {leaked, TRUE}
    /\ UNCHANGED <<root, open, phase, stale, read, plan, late, write>>

(***************************************************************************)
(* Requests.                                                               *)
(***************************************************************************)
\* The reads of an accepted drain are cancelled and outdated.
Outdate(S) ==
    /\ late' = [t \in Tabs |-> late[t] \/ (t \in S /\ read[t])]
    /\ stale' = [t \in Tabs |-> stale[t] \/ (t \in S /\ open[t])]

(* Mutant of Requested: the newest intent, whatever the drain was for. *)
RequestedNewest(t, intent) == intent

\* Lifecycle::request: refused while a paste is written; a running drain
\* takes the newest intent, but a quit is never taken back.
Requested(t, intent) == IF phase[t] = "quit" THEN "quit" ELSE intent

Request(t, intent) ==
    /\ t \in tabs /\ ~write[t]
    /\ phase' = [phase EXCEPT ![t] = Requested(t, intent)]
    /\ IF phase[t] = "idle"
       THEN Outdate({t}) /\ read' = [read EXCEPT ![t] = FALSE]
       ELSE UNCHANGED <<late, stale, read>>
    /\ UNCHANGED <<root, leaked, open, plan, write, git>>

CloseTab(t) ==
    /\ open[t] \/ phase[t] # "idle" \/ Jobs(t)
    /\ Request(t, "close")

\* A workspace is opened in an empty tab; open_target adds one if need be.
OpenIn(t) ==
    /\ ~open[t] /\ phase[t] = "idle" /\ ~plan[t]
    /\ Request(t, "open")

NewTab(t) ==
    /\ t \in fresh
    /\ tabs' = tabs \cup {t} /\ fresh' = fresh \ {t}
    /\ UNCHANGED <<quitting, waiting, drained, quitSent, ended>>
    /\ UNCHANGED <<leaked, open, phase, stale, read, work>>

(***************************************************************************)
(* The root.  Each operator says what the root does next with the tabs ts  *)
(* that are left, the tabs w a quit waits for, the tabs d that drained for *)
(* it, and the phases ph.                                                  *)
(***************************************************************************)
\* resume_after_drain in each tab of S.  A tab that drains again, or has no
\* workspace, starts nothing.
Resume(S, ph) ==
    LET again == {t \in S : open[t] /\ ph[t] = "idle"}
    IN  /\ stale' = [t \in Tabs |-> stale[t] /\ t \notin again]
        /\ read' = [t \in Tabs |-> read[t] \/ t \in again]

(* Mutant of StopQuit: only the tab that reported is reloaded. *)
StopQuitAlone(ts, d, S, ph) ==
    /\ quitting' = FALSE /\ waiting' = {} /\ drained' = {}
    /\ Resume(S, ph)
    /\ UNCHANGED quitSent

\* stop_quit, and resume_after_drain in the tabs of S.
StopQuit(ts, d, S, ph) ==
    /\ quitting' = FALSE /\ waiting' = {} /\ drained' = {}
    /\ Resume((d \cap ts) \cup S, ph)
    /\ UNCHANGED quitSent

KeepQuit(w, d) ==
    /\ waiting' = w /\ drained' = d
    /\ UNCHANGED <<quitting, quitSent, stale, read>>

(* Mutant of Blocked: what the tabs said when the quit began still counts. *)
BlockedBefore(ts) == ~quitting /\ \E t \in ts : write[t]

\* blocks_close: a tab that drained early may have started a paste meanwhile.
Blocked(ts) == \E t \in ts : write[t]

MaybeQuit(ts, w, d, ph) ==
    \/ /\ w # {}
       /\ KeepQuit(w, d)
    \/ /\ w = {} /\ Blocked(ts)
       /\ StopQuit(ts, d, {}, ph)
    \/ /\ w = {} /\ ~Blocked(ts)
       /\ quitting' = TRUE /\ waiting' = {} /\ drained' = d
       /\ quitSent' = TRUE
       /\ UNCHANGED <<stale, read>>

RemoveTab(t) ==
    /\ tabs' = tabs \ {t}
    /\ IF quitting THEN MaybeQuit(tabs \ {t}, waiting \ {t}, drained, phase')
       ELSE KeepQuit(waiting, drained)
    /\ UNCHANGED <<fresh, ended>>

\* An empty tab with nothing to drain closes at once.
CloseEmptyTab(t) ==
    /\ t \in tabs /\ ~open[t] /\ phase[t] = "idle" /\ ~Jobs(t)
    /\ UNCHANGED phase
    /\ RemoveTab(t)
    /\ UNCHANGED <<leaked, open, work>>

\* Refused while any tab writes.  Every tab drains, whatever it drained into.
BeginQuit ==
    /\ ~quitting /\ ~Blocked(tabs)
    /\ phase' = [t \in Tabs |-> IF t \in tabs THEN "quit" ELSE phase[t]]
    /\ LET S == {t \in tabs : phase[t] = "idle"}
       IN  Outdate(S) /\ read' = [t \in Tabs |-> read[t] /\ t \notin S]
    /\ quitting' = TRUE /\ waiting' = tabs /\ drained' = {}
    /\ quitSent' = (quitSent \/ tabs = {})
    /\ UNCHANGED <<tabs, fresh, ended, leaked, open, plan, write, git>>

(***************************************************************************)
(* poll_lifecycle.                                                         *)
(***************************************************************************)
(* Mutant of Ready: cancelled reads and Git count, the write does not. *)
ReadyButForWrites(t) ==
    phase[t] # "idle" /\ ~read[t] /\ ~late[t] /\ ~leaked /\ ~LoadRuns(phase[t])

\* Ready, and still ready when finish_intent looks again.
Ready(t) == phase[t] # "idle" /\ ~Jobs(t) /\ ~leaked /\ ~LoadRuns(phase[t])

Idle(t) == phase' = [phase EXCEPT ![t] = "idle"]

FinishQuit(t) ==
    /\ t \in tabs /\ Ready(t) /\ phase[t] = "quit"
    /\ Idle(t)
    /\ IF t \in waiting
       THEN MaybeQuit(tabs, waiting \ {t}, drained \cup {t}, phase')
       ELSE /\ Resume({t}, phase')
            /\ UNCHANGED <<quitting, waiting, drained, quitSent>>
    /\ UNCHANGED <<tabs, fresh, ended, leaked, open, work>>

FinishClose(t) ==
    /\ t \in tabs /\ Ready(t) /\ phase[t] = "close"
    /\ Idle(t)
    /\ open' = [open EXCEPT ![t] = FALSE]
    /\ plan' = [plan EXCEPT ![t] = FALSE]
    /\ RemoveTab(t)
    /\ UNCHANGED <<leaked, late, write, git>>

FinishOpen(t) ==
    /\ t \in tabs /\ Ready(t) /\ phase[t] = "open"
    /\ Idle(t)
    /\ open' = [open EXCEPT ![t] = TRUE]
    /\ plan' = [plan EXCEPT ![t] = FALSE]
    /\ stale' = [stale EXCEPT ![t] = FALSE]
    /\ read' = [read EXCEPT ![t] = TRUE]
    /\ UNCHANGED <<root, leaked, late, write, git>>

(* Mutant of DrainFails: the root is not told. *)
DrainFailsQuietly(t) ==
    /\ t \in tabs /\ phase[t] # "idle" /\ ~Ready(t)
    /\ Idle(t)
    /\ Resume({t}, phase')
    /\ UNCHANGED <<root, leaked, open, work>>

\* The deadline passed, or only a leaked slot is left: the workspace stays
\* open, what the drain cancelled is fetched, and a quit stops.
DrainFails(t) ==
    /\ t \in tabs /\ phase[t] # "idle" /\ ~Ready(t)
    /\ Idle(t)
    /\ IF quitting THEN StopQuit(tabs, drained, {t}, phase')
       ELSE /\ Resume({t}, phase')
            /\ UNCHANGED <<quitting, waiting, drained, quitSent>>
    /\ UNCHANGED <<tabs, fresh, ended, leaked, open, work>>

Poll(t) == FinishQuit(t) \/ FinishClose(t) \/ FinishOpen(t) \/ DrainFails(t)

\* The queued task runs: the process ends with what still runs in it.
Exit ==
    /\ quitSent
    /\ ended' = TRUE
    /\ UNCHANGED <<tabs, fresh, quitting, waiting, drained, quitSent>>
    /\ UNCHANGED <<leaked, open, phase, stale, read, work>>

Next ==
    /\ ~ended
    /\ \/ \E t \in Tabs :
            \/ StartRead(t) \/ ReadLands(t) \/ LateEnds(t)
            \/ Confirm(t) \/ WriteEnds(t)
            \/ GitStarts(t) \/ GitEnds(t)
            \/ CloseTab(t) \/ CloseEmptyTab(t) \/ OpenIn(t) \/ NewTab(t)
            \/ Poll(t)
       \/ BeginQuit
       \/ Exit

Spec == Init /\ [][Next]_vars

\* The watch of a draining tab polls every 40 ms, and DRAIN_DEADLINE ends
\* the drain; the queued task runs.  No job is assumed to end.
FairSpec ==
    /\ Spec
    /\ \A t \in Tabs : WF_vars(~ended /\ Poll(t))
    /\ WF_vars(~ended /\ Exit)

-----------------------------------------------------------------------------
\* A quit waits only for tabs that exist and drain into Quit, so each will
\* report; a tab whose drain finished into anything else, or that was
\* removed, would leave the window asking for ever (tabs.rs, Lifecycle).
WaitsForDrains ==
    /\ waiting \subseteq {t \in tabs : phase[t] = "quit"}
    /\ ~quitting => waiting = {}

\* Nothing a drain cancelled stays lost: a tab shows an outdated workspace
\* only while it drains or while the quit it drained for goes on, whichever
\* tab stopped that quit and in whatever order the tabs reported.
CancelledReadsReturn ==
    \A t \in tabs : open[t] /\ stale[t] =>
        phase[t] # "idle" \/ (quitting /\ t \in drained)

\* When the quit is decided no tab writes a paste, no Git child of a tab
\* runs and no slot is leaked, though tabs that drained first took up work
\* again while the others drained (a window without tabs just quits).
QuitIsDecidedClear ==
    [][quitSent' /\ ~quitSent =>
        \A t \in tabs : ~write[t] /\ ~git[t] /\ ~leaked]_vars

\* No drain ends under a confirmed paste, even one confirmed while its tab
\* drained: the tab, its workspace and its preview stay until it is written.
WritesKeepTheirTab ==
    [][\A t \in tabs : write[t] /\ write'[t] =>
        t \in tabs' /\ open'[t] = open[t] /\ plan'[t]]_vars

\* A quit the user asked for is decided or stops: with drains that cannot
\* finish, tabs opened and closed meanwhile and pastes started in between.
QuitSettles == quitting ~> ~quitting \/ ended

(***************************************************************************)
(* The inductive invariant: a tab not used yet is empty, a quit that waits *)
(* for nobody is decided, and what is being written can be seen.           *)
(***************************************************************************)
FreshInv == \A t \in fresh : t \notin tabs /\ ~open[t] /\ ~write[t]

DecidedInv == quitting /\ waiting = {} => quitSent

WriteInv == \A t \in tabs : write[t] => plan[t]

IInv ==
    /\ TypeOK
    /\ FreshInv /\ DecidedInv /\ WriteInv
    /\ WaitsForDrains /\ CancelledReadsReturn
=============================================================================
