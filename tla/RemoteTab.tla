------------------------------ MODULE RemoteTab ------------------------------
(***************************************************************************)
(* One workspace tab of the desktop that the launch restored as a folder   *)
(* of an ssh host (remote.rs): the opens that reconnect it, their retry    *)
(* timers, the drains that outdate them (main.rs, lifecycle.rs) and the    *)
(* scan for repositories once it is open.  The other tabs of the window    *)
(* are the environment: their votes end or stop a quit (TabQuit).          *)
(*                                                                         *)
(* One thread runs the interface, so each action is one turn of its loop.  *)
(* An open or a scan runs beside it and lands in a turn of its own; its    *)
(* token may be cancelled and it may still land with a good answer.        *)
(* Delays are left out: a timer may fire at any time, and what only delays *)
(* an open (RestorePriority) does nothing here.                            *)
(***************************************************************************)
EXTENDS Naturals

CONSTANTS
    Deep,           \* the folders a scan may find too deep to walk
    MaxRetries,     \* scan_retry_delay: further tries of a scan
    MaxAttempts,    \* bound: no reconnect and no drain fails after these
    MaxActs         \* bound: what the user and the other tabs do

ASSUME RetriesAssumption == MaxRetries \in Nat
ASSUME BoundsAssumption == MaxAttempts \in Nat \ {0} /\ MaxActs \in Nat

VARIABLES
    gone,       \* the tab was removed, or the process ended
    phase,      \* idle, or the intent the tab drains into
    quit,       \* the window's quit: no, waits for this tab, or has it drained
    shown,      \* the folder whose session is open, or none
    restoring,  \* remote.restoring is set
    failed,     \* how its last attempt failed: no, retryable or final
    attempt,    \* its open_seq: the attempt in flight; 0 is None
    attempts,   \* attempts made
    timers,     \* armed retry timers, by the attempts they were armed at
    openSeq,    \* remote.open_seq
    flight,     \* the open in flight (remote.busy)
    scan,       \* the scan of the current generations: it reads or waits
    late,       \* a scan outdated by a newer one or by a drain still runs
    recovery,   \* remote.scan_recovery
    loading,    \* is_loading
    error,      \* remote.scan_error is shown
    limited,    \* discovery_depth_limited: folders not walked
    acts        \* acts so far

window == <<gone, quit>>
restore == <<restoring, failed, attempt, attempts, timers>>
scans == <<scan, late, recovery, loading, error, limited>>
vars == <<window, phase, shown, restore, openSeq, flight, scans, acts>>

Places == {"saved", "other"}
Unders == Deep \cup {"all"}
None == [at |-> "none"]
Opens == [at : {"open"}, seq : Nat, place : Places]
Scans == [at : {"reads", "waits"}, under : Unders, retries : 0..MaxRetries]
Recoveries == [at : {"scan"}, under : Unders, retries : 0..MaxRetries]

TypeOK ==
    /\ gone \in BOOLEAN
    /\ phase \in Places \cup {"idle", "quit", "close"}
    /\ quit \in {"no", "waits", "drained"}
    /\ shown \in Places \cup {"none"}
    /\ restoring \in BOOLEAN
    /\ failed \in {"no", "retryable", "final"}
    /\ attempt \in Nat /\ attempts \in Nat /\ openSeq \in Nat
    /\ timers \subseteq Nat
    /\ flight \in Opens \cup {None}
    /\ scan \in Scans \cup {None}
    /\ recovery \in Recoveries \cup {None}
    /\ late \in BOOLEAN /\ loading \in BOOLEAN /\ error \in BOOLEAN
    /\ limited \subseteq Deep
    /\ acts \in Nat

Busy == flight # None
Draining == phase # "idle"
Jobs == Busy \/ scan # None \/ late

\* prepare_remote_restore and the first attempt, or a host ssh does not know.
Init ==
    /\ gone = FALSE /\ phase = "idle" /\ quit = "no" /\ shown = "none"
    /\ restoring = TRUE /\ attempts = 1
    /\ \/ /\ openSeq = 1 /\ attempt = 1 /\ failed = "no" /\ timers = {}
          /\ flight = [at |-> "open", seq |-> 1, place |-> "saved"]
       \/ /\ openSeq = 0 /\ attempt = 0 /\ failed = "retryable"
          /\ timers = {1} /\ flight = None
    /\ scan = None /\ late = FALSE /\ recovery = None
    /\ loading = FALSE /\ error = FALSE /\ limited = {}
    /\ acts = 0

Act == acts < MaxActs /\ acts' = acts + 1
Quiet == UNCHANGED acts

(***************************************************************************)
(* Opens and reconnects.                                                   *)
(***************************************************************************)
OpenPath(place) ==
    /\ openSeq' = openSeq + 1
    /\ flight' = [at |-> "open", seq |-> openSeq + 1, place |-> place]

\* attempt_restore, when nothing is busy and nothing drains.  The timers ts
\* that are left keep their attempts, so each is stale from here on.
Attempt(ts) ==
    /\ attempts' = attempts + 1
    /\ \/ /\ OpenPath("saved")
          /\ attempt' = openSeq + 1
          /\ timers' = ts
          /\ UNCHANGED failed
       \/ /\ attempts < MaxAttempts
          /\ failed' = "retryable" /\ attempt' = 0
          /\ timers' = ts \cup {attempts + 1}
          /\ flight' = None
          /\ UNCHANGED openSeq
    /\ UNCHANGED restoring

\* The open the restore waits for was outdated.
Interrupted == restoring /\ attempt # 0 /\ attempt # openSeq

\* resume_remote_restore: either the outdated open or the drain ends first.
ResumeRestore(fl, ph) ==
    IF fl = None /\ ph = "idle" /\ Interrupted
    THEN Attempt(timers)
    ELSE flight' = fl /\ UNCHANGED <<restore, openSeq>>

(* Mutant of Due: a retry that is due while the tab is busy is forgotten. *)
DueOnce(k) == restoring /\ attempts = k /\ attempt = 0 /\ ~Draining /\ ~Busy

Due(k) == restoring /\ attempts = k /\ attempt = 0

\* A retry that is due while the tab drains or is busy is armed again.
TimerFires(k) ==
    /\ k \in timers
    /\ IF Due(k)
       THEN ~Draining /\ ~Busy /\ Attempt(timers \ {k})
       ELSE /\ timers' = timers \ {k}
            /\ UNCHANGED <<restoring, failed, attempt, attempts, openSeq, flight>>
    /\ Quiet
    /\ UNCHANGED <<window, phase, shown, scans>>

\* Refresh on a restored tab whose reconnect failed.
RetryNow ==
    /\ restoring /\ failed # "no" /\ attempt = 0 /\ ~Busy /\ ~Draining
    /\ Attempt(timers)
    /\ Act
    /\ UNCHANGED <<window, phase, shown, scans>>

\* The user opens a folder of a host in this tab's menu.
UserOpens(place) ==
    /\ ~Busy /\ ~Draining
    /\ OpenPath(place)
    /\ Act
    /\ UNCHANGED <<window, phase, shown, restore, scans>>

(***************************************************************************)
(* Requests.                                                               *)
(***************************************************************************)
(* Mutant of Outdate: an open in flight is cancelled but not outdated. *)
OutdateScans ==
    /\ late' = (late \/ scan # None) /\ scan' = None
    /\ UNCHANGED <<openSeq, recovery, loading, error, limited>>

\* What an accepted drain cancels and outdates.
Outdate ==
    /\ openSeq' = openSeq + 1
    /\ late' = (late \/ scan # None) /\ scan' = None
    /\ UNCHANGED <<recovery, loading, error, limited>>

\* request_user_close: a running drain takes the newest intent, but a quit
\* is never taken back.
Request(intent) ==
    /\ phase' = IF phase = "quit" THEN "quit" ELSE intent
    /\ IF Draining THEN UNCHANGED <<openSeq, scans>> ELSE Outdate

CloseTab ==
    /\ shown # "none" \/ Draining \/ Jobs
    /\ Request("close")
    /\ Act
    /\ UNCHANGED <<window, shown, restore, flight>>

\* An empty tab with no job closes at once.
CloseAtOnce ==
    /\ shown = "none" /\ ~Draining /\ ~Jobs
    /\ gone' = TRUE
    /\ Quiet
    /\ UNCHANGED <<quit, phase, shown, restore, openSeq, flight, scans>>

BeginQuit ==
    /\ quit = "no"
    /\ quit' = "waits"
    /\ Request("quit")
    /\ Act
    /\ UNCHANGED <<gone, shown, restore, flight>>

(***************************************************************************)
(* An open lands.                                                          *)
(***************************************************************************)
\* A result outdated by a drain or by a newer open is dropped.
StaleLands ==
    /\ Busy /\ flight.seq # openSeq
    /\ ResumeRestore(None, phase)
    /\ Quiet
    /\ UNCHANGED <<window, phase, shown, scans>>

(* Mutant of IsRestore: any open of a tab that is being restored. *)
IsRestoreOfTab == restoring

IsRestore == restoring /\ attempt = flight.seq

Lands == Busy /\ flight.seq = openSeq /\ flight' = None

\* The tab drains into the folder it stands for.  Any other folder goes to
\* another tab (route_open).
Opened ==
    /\ Lands
    /\ IF IsRestore THEN Request(flight.place)
       ELSE UNCHANGED <<phase, openSeq, scans>>
    /\ Quiet
    /\ UNCHANGED <<window, shown, restore>>

\* restore_failed.
OpenFails(how) ==
    /\ Lands
    /\ IF IsRestore
       THEN /\ how = "retryable" => attempts < MaxAttempts
            /\ failed' = how /\ attempt' = 0
            /\ timers' = IF how = "retryable" THEN timers \cup {attempts}
                         ELSE timers
            /\ UNCHANGED <<restoring, attempts>>
       ELSE UNCHANGED restore
    /\ Quiet
    /\ UNCHANGED <<window, phase, shown, openSeq, scans>>

(***************************************************************************)
(* The scan for repositories.                                              *)
(***************************************************************************)
\* launch_remote_scan_attempt: the scan before it is cancelled, outdated.
Launch(under, retries, older) ==
    /\ scan' = [at |-> "reads", under |-> under, retries |-> retries]
    /\ recovery' = [at |-> "scan", under |-> under, retries |-> retries]
    /\ late' = older
    /\ loading' = TRUE
    /\ error' = (error /\ under # "all")

\* resume_remote_scan.  Its token is cancelled when a drain outdated it.
ResumeScan(ph) ==
    IF shown # "none" /\ ph = "idle" /\ scan = None /\ recovery # None
    THEN Launch(recovery.under, recovery.retries, late) /\ UNCHANGED limited
    ELSE UNCHANGED scans

ScanLands ==
    /\ scan # None /\ scan.at = "reads"
    /\ scan' = None /\ recovery' = None
    /\ loading' = FALSE /\ error' = FALSE
    /\ \E found \in SUBSET Deep :
        limited' = IF scan.under = "all" THEN found ELSE limited \cup found
    /\ Quiet
    /\ UNCHANGED <<window, phase, shown, restore, openSeq, flight, late>>

\* A transient failure waits for a further try while there is one left.
ScanFails(transient) ==
    /\ scan # None /\ scan.at = "reads"
    /\ IF transient /\ scan.retries < MaxRetries
       THEN scan' = [scan EXCEPT !.at = "waits"] /\ UNCHANGED recovery
       ELSE scan' = None /\ recovery' = None
    /\ loading' = FALSE /\ error' = TRUE
    /\ Quiet
    /\ UNCHANGED <<window, phase, shown, restore, openSeq, flight, late, limited>>

RetryScan ==
    /\ scan # None /\ scan.at = "waits"
    /\ Launch(scan.under, scan.retries + 1, late)
    /\ Quiet
    /\ UNCHANGED <<window, phase, shown, restore, openSeq, flight, limited>>

(* Mutant of LateEnds: the outdated result is not told from a current one. *)
LateLands ==
    /\ late /\ late' = FALSE
    /\ recovery' = None
    /\ Quiet
    /\ UNCHANGED <<window, phase, shown, restore, openSeq, flight>>
    /\ UNCHANGED <<scan, loading, error, limited>>

\* The result of an outdated scan is dropped; its wait ends with its token.
LateEnds ==
    /\ late /\ late' = FALSE
    /\ Quiet
    /\ UNCHANGED <<window, phase, shown, restore, openSeq, flight>>
    /\ UNCHANGED <<scan, recovery, loading, error, limited>>

\* Refresh on an open tab.
Refresh ==
    /\ shown # "none" /\ ~Draining
    /\ limited' = {}
    /\ Launch("all", 0, late \/ scan # None)
    /\ Act
    /\ UNCHANGED <<window, phase, shown, restore, openSeq, flight>>

\* continue_discovery.
Continue(folder) ==
    /\ shown # "none" /\ ~Draining /\ ~loading
    /\ folder \in limited /\ limited' = limited \ {folder}
    /\ Launch(folder, 0, late \/ scan # None)
    /\ Act
    /\ UNCHANGED <<window, phase, shown, restore, openSeq, flight>>

(***************************************************************************)
(* poll_lifecycle, and the window's quit.                                  *)
(***************************************************************************)
\* resume_after_drain.
Resume(ph) == ResumeRestore(flight, ph) /\ ResumeScan(ph)

FinishOpen ==
    /\ phase \in Places /\ ~Jobs
    /\ phase' = "idle"
    /\ shown' = phase
    /\ restoring' = FALSE
    /\ limited' = {}
    /\ Launch("all", 0, FALSE)
    /\ Quiet
    /\ UNCHANGED <<window, failed, attempt, attempts, timers, openSeq, flight>>

FinishClose ==
    /\ phase = "close" /\ ~Jobs
    /\ gone' = TRUE
    /\ Quiet
    /\ UNCHANGED <<quit, phase, shown, restore, openSeq, flight, scans>>

\* The quit waits for this tab, or it stopped meanwhile.
FinishQuit ==
    /\ phase = "quit" /\ ~Jobs
    /\ phase' = "idle"
    /\ IF quit = "waits"
       THEN quit' = "drained" /\ UNCHANGED <<restore, openSeq, flight, scans>>
       ELSE Resume("idle") /\ UNCHANGED quit
    /\ Quiet
    /\ UNCHANGED <<gone, shown>>

\* The deadline passed with a job left, or the process leaked a Git slot: a
\* quit of the window stops with it.
DrainFails ==
    /\ Draining /\ attempts < MaxAttempts
    /\ phase' = "idle"
    /\ Resume("idle")
    /\ quit' = "no"
    /\ Quiet
    /\ UNCHANGED <<gone, shown>>

Poll == FinishOpen \/ FinishClose \/ FinishQuit \/ DrainFails

\* stop_quit, for the drain of another tab that failed.
QuitStops ==
    /\ quit # "no" /\ quit' = "no"
    /\ IF quit = "drained" THEN Resume(phase)
       ELSE UNCHANGED <<restore, openSeq, flight, scans>>
    /\ Quiet
    /\ UNCHANGED <<gone, phase, shown>>

\* Every tab drained, and the process ends.
Exits ==
    /\ quit = "drained"
    /\ gone' = TRUE
    /\ Quiet
    /\ UNCHANGED <<quit, phase, shown, restore, openSeq, flight, scans>>

Landed == StaleLands \/ Opened \/ \E how \in {"retryable", "final"} : OpenFails(how)

ScanSteps ==
    \/ ScanLands \/ (\E transient \in BOOLEAN : ScanFails(transient))
    \/ RetryScan \/ LateEnds

Next ==
    /\ ~gone
    /\ \/ \E k \in timers : TimerFires(k)
       \/ RetryNow
       \/ \E place \in Places : UserOpens(place)
       \/ CloseTab \/ CloseAtOnce \/ BeginQuit
       \/ Landed
       \/ ScanSteps
       \/ Refresh \/ (\E folder \in Deep : Continue(folder))
       \/ Poll \/ QuitStops \/ Exits

Spec == Init /\ [][Next]_vars

\* Timers fire; an open and a scan end at their deadline or when they are
\* cancelled; the watch polls a drain; a quit settles (TabQuit).
FairSpec ==
    /\ Spec
    /\ WF_vars(~gone /\ \E k \in timers : TimerFires(k))
    /\ WF_vars(~gone /\ Landed)
    /\ WF_vars(~gone /\ ScanSteps)
    /\ WF_vars(~gone /\ Poll)
    /\ WF_vars(~gone /\ (QuitStops \/ Exits))

-----------------------------------------------------------------------------
\* A restored tab comes to show the folder it stands for and no other, though
\* the user opens other folders from it and their answers arrive around
\* drains and reconnects (MasterState::open_seq, Restoring::open_seq).
ShowsItsFolder == shown # "other" /\ phase # "other"

\* A tab that is being closed is not opened again by an answer that arrives
\* late: its cancelled open may still succeed, and the newest intent wins.
ClosedStaysClosed == [][phase = "close" => phase' \notin Places]_vars

\* What a drain cancelled is read again: once a tab is at rest, no spinner
\* and no pending retry is left without the scan behind it, however a quit
\* was stopped and in whatever order the outdated scans ended.
ScanResumes ==
    shown # "none" /\ ~Draining /\ quit # "drained" =>
        /\ loading <=> scan # None /\ scan.at = "reads"
        /\ recovery # None <=> scan # None

\* A failed reconnect that may clear is tried again, though its timer fires
\* during a quit that is stopped or another open (restore_failed).
FailedIsRetried ==
    \A k \in 1..MaxAttempts :
        restoring /\ attempt = 0 /\ failed = "retryable" /\ attempts = k
            ~> attempts > k \/ ~restoring \/ gone

\* A reconnect that a stopped quit interrupted is made again, whichever lands
\* first, "the result or drain" (remote.rs): a tab at rest that still is to
\* be restored has no outdated attempt that nobody repeats.
InterruptedRestoreResumes ==
    restoring /\ ~Draining /\ ~Busy /\ quit # "drained" => attempt = 0

(***************************************************************************)
(* The inductive invariant: an open in flight is not newer than openSeq,   *)
(* is the restore's own only for the saved folder, and is outdated while   *)
(* the tab drains; a scan that runs can be found in recovery.              *)
(***************************************************************************)
OpensInv ==
    /\ attempt <= openSeq
    /\ Busy => flight.seq <= openSeq
    /\ Busy /\ flight.seq = attempt => flight.place = "saved"

DrainInv == Draining /\ Busy => flight.seq < openSeq

ScanInv ==
    /\ scan # None => recovery # None /\ (loading <=> scan.at = "reads")
    /\ scan # None /\ scan.at = "waits" => scan.retries < MaxRetries
    /\ recovery = None => ~loading

RestInv ==
    shown # "none" /\ ~Draining /\ quit # "drained" /\ recovery # None
        => scan # None

IInv ==
    /\ TypeOK
    /\ OpensInv /\ DrainInv /\ ScanInv /\ RestInv
    /\ ShowsItsFolder
=============================================================================
