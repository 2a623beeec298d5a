----------------------------- MODULE WorkerJobs -----------------------------
(***************************************************************************)
(* The worker's jobs: admission to the few slots for Git views, scans and  *)
(* pastes, the run of one job beside its connection's heartbeat, and the   *)
(* worker's stop (crates/remote/src/jobs.rs, worker.rs).                   *)
(*                                                                         *)
(* A connection's thread reads a request, spawns the job on a thread of    *)
(* its own and then writes Pending frames until the job answers, its       *)
(* deadline passes or the master is gone.  The job asks Jobs::admit for a  *)
(* slot, runs, and gives the slot back when its guard is dropped.          *)
(* Worker::stop raises a flag the connections poll and then cancels what   *)
(* runs, in that order and not at once.                                    *)
(*                                                                         *)
(* Every action is one critical section of the Jobs mutex or one step of a *)
(* thread between two of them.  Time is left out: a deadline or the end of *)
(* the wait for a slot may come at any moment.                             *)
(***************************************************************************)
EXTENDS Naturals, FiniteSets

CONSTANTS
    Conns,          \* connections of one worker
    MaxGitJobs,     \* MAX_GIT_JOBS: jobs running at once
    MaxScanJobs,    \* MAX_SCAN_JOBS: of those, scans
    MaxWaiting      \* MAX_JOBS_WAITING

ASSUME ConnsAssumption == IsFiniteSet(Conns)
ASSUME LimitsAssumption ==
    MaxGitJobs \in Nat /\ MaxScanJobs \in Nat /\ MaxWaiting \in Nat

VARIABLES
    stop,       \* State.stop
    stopped,    \* JobsInner.stopped
    running,    \* JobsInner.running
    scans,      \* JobsInner.scans
    waiting,    \* JobsInner.waiting
    registry,   \* JobsInner.by_workspace: whose tokens cancel_all finds
    conn,       \* conn[c]: where c's thread is in serve and run_job_with
    kind,       \* kind[c]: the request c serves or served last
    job,        \* job[c]: how far its job is
    cancelled,  \* cancelled[c]: the job's CancelToken
    response,   \* response[c]: what the job returned into the channel
    sent,       \* sent[c]: the final frame written for the request
    gone        \* gone[c]: the master hung up

jobsVars == <<stopped, running, scans, waiting, registry>>
connVars == <<conn, kind, job, cancelled, response, sent, gone>>
vars == <<stop, jobsVars, connVars>>

Kinds == {"view", "scan", "write"}
Serving == {"beating", "late", "draining"}
JobStates == {"none", "admitting", "waiting", "running", "returned",
              "panicked"}
Responses == {"ok", "busy", "cancelled"}

TypeOK ==
    /\ stop \in BOOLEAN /\ stopped \in BOOLEAN
    /\ running \in Nat /\ scans \in Nat /\ waiting \in Nat
    /\ registry \subseteq Conns
    /\ conn \in [Conns -> Serving \cup {"reading", "closed"}]
    /\ kind \in [Conns -> Kinds]
    /\ job \in [Conns -> JobStates]
    /\ cancelled \in [Conns -> BOOLEAN]
    /\ response \in [Conns -> Responses \cup {"none"}]
    /\ sent \in [Conns -> Responses \cup {"none", "timeout", "toolarge"}]
    /\ gone \in [Conns -> BOOLEAN]

Init ==
    /\ stop = FALSE /\ stopped = FALSE
    /\ running = 0 /\ scans = 0 /\ waiting = 0
    /\ registry = {}
    /\ conn = [c \in Conns |-> "reading"]
    /\ kind = [c \in Conns |-> "view"]
    /\ job = [c \in Conns |-> "none"]
    /\ cancelled = [c \in Conns |-> FALSE]
    /\ response = [c \in Conns |-> "none"]
    /\ sent = [c \in Conns |-> "none"]
    /\ gone = [c \in Conns |-> FALSE]

SaturatingPred(n) == IF n = 0 THEN 0 ELSE n - 1

-----------------------------------------------------------------------------
(* A connection between two requests                                       *)

(* serve reads a request and run_job_with spawns the job.                  *)
Request(c, k) ==
    /\ conn[c] = "reading" /\ ~gone[c] /\ ~stop
    /\ conn' = [conn EXCEPT ![c] = "beating"]
    /\ kind' = [kind EXCEPT ![c] = k]
    /\ job' = [job EXCEPT ![c] = "admitting"]
    /\ cancelled' = [cancelled EXCEPT ![c] = FALSE]
    /\ response' = [response EXCEPT ![c] = "none"]
    /\ sent' = [sent EXCEPT ![c] = "none"]
    /\ UNCHANGED <<stop, jobsVars, gone>>

(* serve returns: the worker was stopped, or the master hung up.           *)
EndServe(c) ==
    /\ conn[c] = "reading" /\ (stop \/ gone[c])
    /\ conn' = [conn EXCEPT ![c] = "closed"]
    /\ UNCHANGED <<stop, jobsVars, kind, job, cancelled, response, sent, gone>>

HangUp(c) ==
    /\ conn[c] # "closed" /\ ~gone[c]
    /\ gone' = [gone EXCEPT ![c] = TRUE]
    /\ UNCHANGED <<stop, jobsVars, conn, kind, job, cancelled, response, sent>>

-----------------------------------------------------------------------------
(* Jobs::admit                                                             *)

CanAdmit(c) ==
    /\ running < MaxGitJobs
    /\ kind[c] = "scan" => scans < MaxScanJobs

(* The slot and the registered token.                                      *)
Occupy(c) ==
    /\ running' = running + 1
    /\ scans' = IF kind[c] = "scan" THEN scans + 1 ELSE scans
    /\ registry' = registry \cup {c}
    /\ job' = [job EXCEPT ![c] = "running"]

Return(c, r) ==
    /\ job' = [job EXCEPT ![c] = "returned"]
    /\ response' = [response EXCEPT ![c] = r]

(* Refused before it waits: stopped, cancelled, or too many waiting, even  *)
(* where a slot is free.                                                   *)
AdmitRefused(c) ==
    /\ job[c] = "admitting"
    /\ \/ stopped /\ Return(c, "busy")
       \/ ~stopped /\ cancelled[c] /\ Return(c, "cancelled")
       \/ ~stopped /\ ~cancelled[c] /\ waiting >= MaxWaiting
            /\ Return(c, "busy")
    /\ UNCHANGED <<stop, jobsVars, conn, kind, cancelled, sent, gone>>

Admissible(c) ==
    job[c] = "admitting" /\ ~stopped /\ ~cancelled[c] /\ waiting < MaxWaiting

(* A free slot in the first turn of the loop.                              *)
AdmitAtOnce(c) ==
    /\ Admissible(c) /\ CanAdmit(c)
    /\ Occupy(c)
    /\ UNCHANGED <<stop, stopped, waiting, conn, kind, cancelled, response,
                   sent, gone>>

AdmitWaits(c) ==
    /\ Admissible(c) /\ ~CanAdmit(c)
    /\ waiting' = waiting + 1
    /\ job' = [job EXCEPT ![c] = "waiting"]
    /\ UNCHANGED <<stop, stopped, running, scans, registry, conn, kind,
                   cancelled, response, sent, gone>>

(* A later turn of the loop looks for a slot before anything else.         *)
PollAdmits(c) ==
    /\ job[c] = "waiting" /\ CanAdmit(c)
    /\ waiting' = SaturatingPred(waiting)
    /\ Occupy(c)
    /\ UNCHANGED <<stop, stopped, conn, kind, cancelled, response, sent, gone>>

(* Mutant of PollRefuses: a job that gives up stays counted as waiting.    *)
PollRefusesCounted(c) ==
    /\ job[c] = "waiting" /\ ~CanAdmit(c)
    /\ Return(c, IF ~stopped /\ cancelled[c] THEN "cancelled" ELSE "busy")
    /\ UNCHANGED <<stop, jobsVars, conn, kind, cancelled, sent, gone>>

(* No slot: stopped, then cancelled, then the end of ADMIT_WAIT.           *)
PollRefuses(c) ==
    /\ job[c] = "waiting" /\ ~CanAdmit(c)
    /\ Return(c, IF ~stopped /\ cancelled[c] THEN "cancelled" ELSE "busy")
    /\ waiting' = SaturatingPred(waiting)
    /\ UNCHANGED <<stop, stopped, running, scans, registry, conn, kind,
                   cancelled, sent, gone>>

-----------------------------------------------------------------------------
(* The job and its guard                                                   *)

(* JobGuard::drop, JobsShared::release.                                    *)
Release(c) ==
    /\ running' = SaturatingPred(running)
    /\ scans' = IF kind[c] = "scan" THEN SaturatingPred(scans) ELSE scans
    /\ registry' = registry \ {c}

(* The job is done, its guard dropped, its response in the channel.        *)
JobReturns(c) ==
    /\ job[c] = "running"
    /\ Release(c)
    /\ Return(c, "ok")
    /\ UNCHANGED <<stop, stopped, waiting, conn, kind, cancelled, sent, gone>>

(* Mutant of JobPanics: without a guard a panic keeps its slot.            *)
JobPanicsLeaking(c) ==
    /\ job[c] = "running"
    /\ job' = [job EXCEPT ![c] = "panicked"]
    /\ UNCHANGED <<stop, jobsVars, conn, kind, cancelled, response, sent, gone>>

(* The job unwinds: the guard is dropped too, the channel disconnects.     *)
JobPanics(c) ==
    /\ job[c] = "running"
    /\ Release(c)
    /\ job' = [job EXCEPT ![c] = "panicked"]
    /\ UNCHANGED <<stop, stopped, waiting, conn, kind, cancelled, response,
                   sent, gone>>

-----------------------------------------------------------------------------
(* run_job_with, beside the job                                            *)

Ended(c) == job[c] \in {"returned", "panicked"}

(* What goes out for a response.  A result, of a write too, may be longer  *)
(* than a frame: TooLarge goes in its place.  An error of the worker's own *)
(* is short.                                                               *)
Framed(r) == IF r = "ok" THEN {"ok", "toolarge"} ELSE {r}

(* write_response; a master that is gone ends the connection.              *)
Send(c, r) ==
    /\ \E frame \in Framed(r) :
          sent' = [sent EXCEPT ![c] = IF gone[c] THEN "none" ELSE frame]
    /\ conn' = [conn EXCEPT ![c] = IF gone[c] THEN "closed" ELSE "reading"]

(* The response arrived: in time, or past the deadline of a write.         *)
SendResponse(c) ==
    /\ conn[c] = "beating" \/ (conn[c] = "late" /\ kind[c] = "write")
    /\ job[c] = "returned"
    /\ Send(c, response[c])
    /\ UNCHANGED <<stop, jobsVars, kind, job, cancelled, response, gone>>

(* Mutant of SendTimeout: a late write is answered Timeout as well.        *)
SendTimeoutToAll(c) ==
    /\ conn[c] = "late"
    /\ job[c] = "returned"
    /\ Send(c, "timeout")
    /\ UNCHANGED <<stop, jobsVars, kind, job, cancelled, response, gone>>

(* past_deadline_reply for a read: its response is discarded.              *)
SendTimeout(c) ==
    /\ conn[c] = "late" /\ kind[c] # "write"
    /\ job[c] = "returned"
    /\ Send(c, "timeout")
    /\ UNCHANGED <<stop, jobsVars, kind, job, cancelled, response, gone>>

(* Mutant of Unwind: past the deadline a disconnected channel is polled    *)
(* on.                                                                     *)
UnwindInTime(c) ==
    /\ conn[c] = "beating" /\ job[c] = "panicked"
    /\ conn' = [conn EXCEPT ![c] = "closed"]
    /\ UNCHANGED <<stop, jobsVars, kind, job, cancelled, response, sent, gone>>

(* A panicked job takes its connection with it, after the Timeout that a   *)
(* late read still gets.                                                   *)
Unwind(c) ==
    /\ conn[c] \in {"beating", "late"} /\ job[c] = "panicked"
    /\ conn' = [conn EXCEPT ![c] = "closed"]
    /\ sent' = [sent EXCEPT ![c] =
                  IF conn[c] = "late" /\ kind[c] # "write" /\ ~gone[c]
                  THEN "timeout" ELSE "none"]
    /\ UNCHANGED <<stop, jobsVars, kind, job, cancelled, response, gone>>

(* The deadline passed, perhaps with the response already in the channel.  *)
Deadline(c) ==
    /\ conn[c] = "beating"
    /\ conn' = [conn EXCEPT ![c] = "late"]
    /\ cancelled' = [cancelled EXCEPT ![c] = TRUE]
    /\ UNCHANGED <<stop, jobsVars, kind, job, response, sent, gone>>

(* Mutant of HeartbeatFails: the write error returns before the job has.   *)
HeartbeatAbandons(c) ==
    /\ gone[c]
    /\ conn[c] = "beating" \/ (conn[c] = "late" /\ kind[c] = "write")
    /\ conn' = [conn EXCEPT ![c] = "closed"]
    /\ cancelled' = [cancelled EXCEPT ![c] = TRUE]
    /\ UNCHANGED <<stop, jobsVars, kind, job, response, sent, gone>>

(* A Pending frame the master no longer takes.  A late read sends none.    *)
HeartbeatFails(c) ==
    /\ gone[c]
    /\ conn[c] = "beating" \/ (conn[c] = "late" /\ kind[c] = "write")
    /\ conn' = [conn EXCEPT ![c] = "draining"]
    /\ cancelled' = [cancelled EXCEPT ![c] = TRUE]
    /\ UNCHANGED <<stop, jobsVars, kind, job, response, sent, gone>>

(* The job ended; the write error ends the connection.                     *)
Drain(c) ==
    /\ conn[c] = "draining" /\ Ended(c)
    /\ conn' = [conn EXCEPT ![c] = "closed"]
    /\ UNCHANGED <<stop, jobsVars, kind, job, cancelled, response, sent, gone>>

-----------------------------------------------------------------------------
(* Worker::stop                                                            *)

RaiseStop ==
    /\ ~stop
    /\ stop' = TRUE
    /\ UNCHANGED <<jobsVars, connVars>>

(* cancel_all: the tokens of the jobs that hold a slot now.                *)
CancelAll ==
    /\ stop /\ ~stopped
    /\ stopped' = TRUE
    /\ cancelled' = [c \in Conns |-> cancelled[c] \/ c \in registry]
    /\ UNCHANGED <<stop, running, scans, waiting, registry, conn, kind, job,
                   response, sent, gone>>

-----------------------------------------------------------------------------
Connection(c) ==
    \/ \E k \in Kinds : Request(c, k)
    \/ EndServe(c) \/ HangUp(c)
    \/ SendResponse(c) \/ SendTimeout(c) \/ Unwind(c)
    \/ Deadline(c) \/ HeartbeatFails(c) \/ Drain(c)

Job(c) ==
    \/ AdmitRefused(c) \/ AdmitAtOnce(c) \/ AdmitWaits(c)
    \/ PollAdmits(c) \/ PollRefuses(c)
    \/ JobReturns(c) \/ JobPanics(c)

Next == (\E c \in Conns : Connection(c) \/ Job(c)) \/ RaiseStop \/ CancelAll

Spec == Init /\ [][Next]_vars

(* Threads run on: a waiting job polls every 50 ms and gives up at the end *)
(* of ADMIT_WAIT, a job ends once it is cancelled and a write ends anyway, *)
(* a deadline passes, and the connection's thread acts on what it finds.   *)
Admit(c) == AdmitRefused(c) \/ AdmitAtOnce(c) \/ AdmitWaits(c)
Poll(c) == PollAdmits(c) \/ PollRefuses(c)
JobEnds(c) == (cancelled[c] \/ kind[c] = "write") /\ JobReturns(c)
Reply(c) == SendResponse(c) \/ SendTimeout(c) \/ Unwind(c) \/ Drain(c)

Fairness ==
    \A c \in Conns :
        /\ WF_vars(Admit(c)) /\ WF_vars(Poll(c)) /\ WF_vars(JobEnds(c))
        /\ WF_vars(Deadline(c)) /\ WF_vars(Reply(c))

FairSpec == Spec /\ Fairness

-----------------------------------------------------------------------------
(* Properties                                                              *)

Running == {c \in Conns : job[c] = "running"}
Scanning == {c \in Running : kind[c] = "scan"}
Waiting == {c \in Conns : job[c] = "waiting"}

(* The counters, kept by hand across admission, refusal, return and panic, *)
(* are the numbers of jobs in those places: no slot leaks, none is given   *)
(* back twice (jobs.rs, JobGuard).                                         *)
CountersAreExact ==
    /\ running = Cardinality(Running)
    /\ scans = Cardinality(Scanning)
    /\ waiting = Cardinality(Waiting)

(* The limits of Jobs hold at every moment.                                *)
WithinLimits ==
    /\ running <= MaxGitJobs /\ scans <= MaxScanJobs
    /\ waiting <= MaxWaiting

(* cancel_all can find every job that holds a slot, and no other token.    *)
RegistryIsExact == registry = Running

(* "The connection slot is never freed while the job still runs": the next *)
(* request is read, or the connection is gone, only after the job ended.   *)
NoJobOutlivesItsRequest ==
    \A c \in Conns :
        conn[c] \notin Serving => job[c] \in {"none", "returned", "panicked"}

(* A final frame tells the truth: it follows the job's end; only a read    *)
(* past its deadline is answered Timeout, a write never, whatever deadline *)
(* passed; TooLarge stands for a result there is; anything else is the     *)
(* job's own response (run_job_with, past_deadline_reply, write_response). *)
FramesAreTrue ==
    \A c \in Conns :
        sent[c] # "none" =>
            /\ Ended(c)
            /\ sent[c] = "timeout" => kind[c] # "write" /\ cancelled[c]
            /\ sent[c] = "toolarge" => response[c] = "ok"
            /\ sent[c] \notin {"timeout", "toolarge"} => sent[c] = response[c]

(* While a request is served nothing final was sent, its job exists, and a *)
(* deadline that passed has cancelled it.                                  *)
ServingInv ==
    \A c \in Conns :
        /\ conn[c] \in Serving => sent[c] = "none" /\ job[c] # "none"
        /\ conn[c] = "late" => cancelled[c]
        /\ job[c] # "returned" => response[c] = "none"

(* The inductive invariant: it implies every safety invariant above.       *)
IInv ==
    /\ TypeOK
    /\ CountersAreExact /\ WithinLimits /\ RegistryIsExact
    /\ NoJobOutlivesItsRequest /\ FramesAreTrue /\ ServingInv

(* Once stopped nothing new gets in: only a job that already waited may    *)
(* still be admitted.                                                      *)
StoppedAdmitsNoNewJob ==
    [][stopped =>
         \A c \in Conns :
            job[c] # "running" /\ job'[c] = "running" => job[c] = "waiting"]_vars

(* The doc of Worker::stop: "Cancels every job".  A job that waited when   *)
(* cancel_all ran and finds a slot in its next turn runs uncancelled.      *)
StopCancelsEveryJob ==
    stopped => \A c \in Running : cancelled[c]

(* Every request ends: with its answer, or with its connection.            *)
RequestsEnd ==
    \A c \in Conns : conn[c] \in Serving ~> conn[c] \notin Serving

(* A stopped worker comes to rest: in the end no job holds a slot.         *)
StoppedDrains == stopped ~> [](running = 0 /\ waiting = 0)
=============================================================================
