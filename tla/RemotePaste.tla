---------------------------- MODULE RemotePaste ----------------------------
(***************************************************************************)
(* A prepared remote paste: the client's PreparedImportLease, its pinned   *)
(* connection, the worker process at the other end, and the destination    *)
(* the worker writes, which editors and other pastes change too.           *)
(*                                                                         *)
(* Client side   crates/remote/src/client.rs (prepare_import,              *)
(*               apply_prepared_import, prepare_replay,                    *)
(*               apply_prepared_replay, begin_apply, finish_apply, the     *)
(*               cleanup thread)                                           *)
(* Worker side   crates/remote/src/worker.rs (serve_copy), jobs.rs         *)
(*               (run_job_with), pasteserve.rs (apply_prepared,            *)
(*               import_apply, apply_prepared_replay, replay_apply)        *)
(* Destination   crates/core/src/transfer.rs (apply_observed, apply_with,  *)
(*               lock_destination_repos, revalidate), workspace.rs         *)
(*               (lock_heavy)                                              *)
(*                                                                         *)
(* Every lease has a connection of its own, and a connection is one worker *)
(* process, so the worker's state is indexed by the lease.  All leases     *)
(* paste into the same destination, the contended case.  Time is left out: *)
(* a deadline, a heartbeat failure or an expiry may happen at any moment.  *)
(***************************************************************************)
EXTENDS Naturals, FiniteSets

CONSTANTS
    Leases,         \* previews a client may prepare
    Replays,        \* those that replay commits; the others paste files
    MaxLeases,      \* PREPARED_IMPORT_LEASES
    InRepo,         \* the destination lies in a Git repository
    ResultsFit,     \* the result of a write fits one frame (MAX_FRAME)
    MaxEdits,       \* bound on changes by programs that take no lock
    MaxOthers       \* bound on pastes by other processes

ASSUME LeasesAssumption == IsFiniteSet(Leases) /\ Replays \subseteq Leases
ASSUME MaxLeasesAssumption == MaxLeases \in Nat
ASSUME FlagsAssumption == InRepo \in BOOLEAN /\ ResultsFit \in BOOLEAN
ASSUME BoundsAssumption == MaxEdits \in Nat /\ MaxOthers \in Nat

VARIABLES
    lease,      \* lease[l]: PreparedImportState, or the state around it
    mode,       \* mode[l]: what the current call asks, "apply" or "check"
    told,       \* told[l]: what the caller was last told (see PasteOnce)
    active,     \* PreparedImports.active: permits handed out
    cleanup,    \* dropped leases whose transport is not reaped yet
    req,        \* req[l]: request on its way to the worker
    rep,        \* rep[l]: final frame on its way to the client
    hungUp,     \* hungUp[l]: the client no longer reads from the worker
    eof,        \* eof[l]: the pump saw the stream end while no call ran
    alive,      \* alive[l]: the worker process runs
    token,      \* token[l]: the token in the worker's PreparedCache
    phase,      \* phase[l]: how far the worker's job is
    cancelled,  \* cancelled[l]: the job's CancelToken fired
    holds,      \* leases whose worker holds the destination's write lock
    otherHolds, \* another process holds it
    dest,       \* destination version: edits and pastes so far
    seen,       \* seen[l]: the version l's preview captured
    wrote       \* history: how often a worker began to write for l

clientVars == <<lease, mode, told, active, cleanup>>
wireVars == <<req, rep, hungUp, eof>>
workerVars == <<alive, token, phase, cancelled, seen, wrote>>
lockVars == <<holds, otherHolds>>
vars == <<clientVars, wireVars, workerVars, lockVars, dest>>

LeaseStates == {"None", "Preparing", "Ready", "Applying",
                "Used", "OutcomeUnknown", "Dropped"}
Told == {"idle", "asked", "retry", "result", "unwritten", "unknown"}
Refusals == {"busy", "timeout", "stale", "other"}
Replies == Refusals \cup {"gone", "failed", "fresh", "done", "overlong"}
PreWrite == {"replan", "locking", "revalidating", "fresh"}
Phases == PreWrite \cup {"idle", "writing"}
Version == [edits : Nat, pastes : Nat]

TypeOK ==
    /\ lease \in [Leases -> LeaseStates]
    /\ mode \in [Leases -> {"apply", "check"}]
    /\ told \in [Leases -> Told]
    /\ active \in Nat
    /\ cleanup \subseteq Leases
    /\ req \in [Leases -> {"none", "token", "full"}]
    /\ rep \in [Leases -> Replies \cup {"none"}]
    /\ hungUp \in [Leases -> BOOLEAN]
    /\ eof \in [Leases -> BOOLEAN]
    /\ alive \in [Leases -> BOOLEAN]
    /\ token \in [Leases -> {"none", "held", "leased", "gone"}]
    /\ phase \in [Leases -> Phases]
    /\ cancelled \in [Leases -> BOOLEAN]
    /\ holds \subseteq Leases
    /\ otherHolds \in BOOLEAN
    /\ dest \in Version
    /\ seen \in [Leases -> Version]
    /\ wrote \in [Leases -> Nat]

Init ==
    /\ lease = [l \in Leases |-> "None"]
    /\ mode = [l \in Leases |-> "apply"]
    /\ told = [l \in Leases |-> "idle"]
    /\ active = 0
    /\ cleanup = {}
    /\ req = [l \in Leases |-> "none"]
    /\ rep = [l \in Leases |-> "none"]
    /\ hungUp = [l \in Leases |-> FALSE]
    /\ eof = [l \in Leases |-> FALSE]
    /\ alive = [l \in Leases |-> FALSE]
    /\ token = [l \in Leases |-> "none"]
    /\ phase = [l \in Leases |-> "idle"]
    /\ cancelled = [l \in Leases |-> FALSE]
    /\ holds = {}
    /\ otherHolds = FALSE
    /\ dest = [edits |-> 0, pastes |-> 0]
    /\ seen = [l \in Leases |-> [edits |-> 0, pastes |-> 0]]
    /\ wrote = [l \in Leases |-> 0]

-----------------------------------------------------------------------------
(* Preparing a preview                                                     *)

(* reserve: a permit, then the connection (a fresh worker process).        *)
Reserve(l) ==
    /\ lease[l] = "None"
    /\ active < MaxLeases
    /\ active' = active + 1
    /\ lease' = [lease EXCEPT ![l] = "Preparing"]
    /\ alive' = [alive EXCEPT ![l] = TRUE]
    /\ UNCHANGED <<mode, told, cleanup, wireVars, token, phase, cancelled,
                   seen, wrote, lockVars, dest>>

(* The worker plans, captures the destination's freshness and retains the  *)
(* payload under a token.  A capture that met a concurrent change refuses  *)
(* itself, so the preview describes one version.                           *)
Plan(l) ==
    /\ lease[l] = "Preparing" /\ alive[l] /\ token[l] = "none"
    /\ seen' = [seen EXCEPT ![l] = dest]
    /\ token' = [token EXCEPT ![l] = "held"]
    /\ UNCHANGED <<clientVars, wireVars, alive, phase, cancelled, wrote,
                   lockVars, dest>>

(* The reply carried a token and the client still holds its permit.        *)
PrepareDone(l) ==
    /\ lease[l] = "Preparing" /\ token[l] # "none"
    /\ lease' = [lease EXCEPT ![l] = "Ready"]
    /\ UNCHANGED <<mode, told, active, cleanup, wireVars, workerVars,
                   lockVars, dest>>

(* An error, a cancel after the reply, or a reply without a token: the     *)
(* permit goes back and no lease is made.                                  *)
PrepareFailed(l) ==
    /\ lease[l] = "Preparing"
    /\ lease' = [lease EXCEPT ![l] = "Dropped"]
    /\ active' = active - 1
    /\ UNCHANGED <<mode, told, cleanup, wireVars, workerVars, lockVars, dest>>

-----------------------------------------------------------------------------
(* The client's Apply                                                      *)

(* Mutant of BeginApply: the state check lets a lease through whose        *)
(* outcome is unknown.                                                     *)
BeginApplyAgain(l, m) ==
    /\ lease[l] \in {"Ready", "OutcomeUnknown"} /\ ~eof[l]
    /\ m = "check" => l \in Replays
    /\ lease' = [lease EXCEPT ![l] = "Applying"]
    /\ mode' = [mode EXCEPT ![l] = m]
    /\ told' = [told EXCEPT ![l] = "asked"]
    /\ req' = [req EXCEPT ![l] = "token"]
    /\ UNCHANGED <<active, cleanup, rep, hungUp, eof, workerVars, lockVars,
                   dest>>

(* begin_apply, then the first request of the call: the token.             *)
BeginApply(l, m) ==
    /\ lease[l] = "Ready" /\ ~eof[l]
    /\ m = "check" => l \in Replays
    /\ lease' = [lease EXCEPT ![l] = "Applying"]
    /\ mode' = [mode EXCEPT ![l] = m]
    /\ told' = [told EXCEPT ![l] = "asked"]
    /\ req' = [req EXCEPT ![l] = "token"]
    /\ UNCHANGED <<active, cleanup, rep, hungUp, eof, workerVars, lockVars,
                   dest>>

(* begin_apply on a connection that spoke or ended while it sat idle: the  *)
(* call sends nothing and refuses itself as Stale.                         *)
BeginOutOfStep(l) ==
    /\ lease[l] = "Ready" /\ eof[l]
    /\ lease' = [lease EXCEPT ![l] = "Applying"]
    /\ told' = [told EXCEPT ![l] = "asked"]
    /\ rep' = [rep EXCEPT ![l] = "stale"]
    /\ UNCHANGED <<mode, active, cleanup, req, hungUp, eof, workerVars,
                   lockVars, dest>>

(* TOKEN_GONE: the worker wrote nothing; the full text goes once on the    *)
(* same connection.                                                        *)
ResendFullText(l) ==
    /\ lease[l] = "Applying" /\ rep[l] = "gone"
    /\ rep' = [rep EXCEPT ![l] = "none"]
    /\ req' = [req EXCEPT ![l] = "full"]
    /\ UNCHANGED <<clientVars, hungUp, eof, workerVars, lockVars, dest>>

(* finish_apply's choice of the next lease state for a definite answer.    *)
Retryable(l, answer) == mode[l] = "check" \/ answer \in {"busy", "timeout"}

(* finish_apply after an answer on a clean connection that may be retried: *)
(* Ready again, with the same connection, token and permit.                *)
FinishRetry(l) ==
    /\ lease[l] = "Applying" /\ rep[l] \notin {"none", "gone"}
    /\ ~eof[l] /\ Retryable(l, rep[l])
    /\ lease' = [lease EXCEPT ![l] = "Ready"]
    /\ told' = [told EXCEPT ![l] = "retry"]
    /\ rep' = [rep EXCEPT ![l] = "none"]
    /\ UNCHANGED <<mode, active, cleanup, req, hungUp, eof, workerVars,
                   lockVars, dest>>

(* finish_apply after any other answer, or when the stream is out of step: *)
(* Used.  The permit is dropped; a clean connection goes back to the pool. *)
(* The caller takes every error that is not an unknown outcome for a       *)
(* refusal that wrote nothing.                                             *)
FinishUsed(l) ==
    /\ lease[l] = "Applying" /\ rep[l] \notin {"none", "gone"}
    /\ ~Retryable(l, rep[l]) \/ eof[l] \/ ~alive[l]
    /\ lease' = [lease EXCEPT ![l] = "Used"]
    /\ told' = [told EXCEPT ![l] = IF rep[l] = "done" THEN "result"
                                   ELSE "unwritten"]
    /\ rep' = [rep EXCEPT ![l] = "none"]
    /\ active' = active - 1
    /\ UNCHANGED <<mode, cleanup, req, hungUp, eof, workerVars, lockVars,
                   dest>>

(* Mutant of Lose: a broken connection counts as a refusal that may be     *)
(* tried again.                                                            *)
LoseAndRetry(l) ==
    /\ lease[l] = "Applying"
    /\ lease' = [lease EXCEPT ![l] = "Ready"]
    /\ told' = [told EXCEPT ![l] = "retry"]
    /\ rep' = [rep EXCEPT ![l] = "none"]
    /\ req' = [req EXCEPT ![l] = "none"]
    /\ UNCHANGED <<mode, active, cleanup, hungUp, eof, workerVars, lockVars,
                   dest>>

(* finish_apply after an I/O error, a deadline, a stall or a protocol      *)
(* error.  The connection is dropped.  A request still on the wire may or  *)
(* may not reach the worker.                                               *)
Lose(l) ==
    /\ lease[l] = "Applying"
    /\ lease' = [lease EXCEPT ![l] = IF mode[l] = "check" THEN "Used"
                                     ELSE "OutcomeUnknown"]
    /\ told' = [told EXCEPT ![l] = IF mode[l] = "check" THEN "unwritten"
                                   ELSE "unknown"]
    /\ active' = active - 1
    /\ hungUp' = [hungUp EXCEPT ![l] = TRUE]
    /\ rep' = [rep EXCEPT ![l] = "none"]
    /\ \/ UNCHANGED req
       \/ req' = [req EXCEPT ![l] = "none"]
    /\ UNCHANGED <<mode, cleanup, eof, workerVars, lockVars, dest>>

(* The pump counts the end of the stream while no call is in flight.       *)
PumpEof(l) ==
    /\ lease[l] = "Ready" /\ ~alive[l] /\ ~eof[l]
    /\ eof' = [eof EXCEPT ![l] = TRUE]
    /\ UNCHANGED <<clientVars, req, rep, hungUp, workerVars, lockVars, dest>>

(* Mutant of DropLease: the permit goes back at once, before the transport *)
(* is reaped.                                                              *)
DropLeaseEarly(l) ==
    /\ lease[l] = "Ready"
    /\ lease' = [lease EXCEPT ![l] = "Dropped"]
    /\ cleanup' = cleanup \cup {l}
    /\ active' = active - 1
    /\ hungUp' = [hungUp EXCEPT ![l] = TRUE]
    /\ UNCHANGED <<mode, told, req, rep, eof, workerVars, lockVars, dest>>

(* The preview is closed: the cleanup thread gets connection and permit.   *)
DropLease(l) ==
    /\ lease[l] = "Ready"
    /\ lease' = [lease EXCEPT ![l] = "Dropped"]
    /\ cleanup' = cleanup \cup {l}
    /\ hungUp' = [hungUp EXCEPT ![l] = TRUE]
    /\ UNCHANGED <<mode, told, active, req, rep, eof, workerVars, lockVars,
                   dest>>

(* The cleanup thread saw the killed transport exit.                       *)
Reap(l) ==
    /\ l \in cleanup
    /\ cleanup' = cleanup \ {l}
    /\ active' = active - 1
    /\ UNCHANGED <<lease, mode, told, wireVars, workerVars, lockVars, dest>>

-----------------------------------------------------------------------------
(* The worker                                                              *)

(* What a job still open may rely on: the destination is as previewed.     *)
Unchanged(l) == dest = seen[l]

(* Mutant of LockFree: the lock is known to this application's workers     *)
(* only.                                                                   *)
LockFreeOfWorkers == holds = {}

(* The destination's write lock is free, or there is none to take.         *)
LockFree == holds = {} /\ ~otherHolds

(* Mutant of Answer: any job past its deadline is answered Timeout, a      *)
(* write too (DeadlineReply::Fail).                                        *)
AnswerTimeout(l, r) ==
    IF hungUp[l] THEN "none" ELSE IF cancelled[l] THEN "timeout" ELSE r

(* The frame that ends a job.  A write's own response is never replaced;   *)
(* a check past its deadline is answered Timeout.  Nobody reads it once    *)
(* the client hung up.                                                     *)
Answer(l, r) ==
    IF hungUp[l] THEN "none"
    ELSE IF mode[l] = "check" /\ cancelled[l] THEN "timeout" ELSE r

(* Mutant of EndJob: the lock outlives the job.                            *)
EndJobLocked(l, r) ==
    /\ phase' = [phase EXCEPT ![l] = "idle"]
    /\ rep' = [rep EXCEPT ![l] = Answer(l, r)]
    /\ cancelled' = [cancelled EXCEPT ![l] = FALSE]
    /\ UNCHANGED holds

(* A job ends: its locks are released, its response goes out.              *)
EndJob(l, r) ==
    /\ phase' = [phase EXCEPT ![l] = "idle"]
    /\ rep' = [rep EXCEPT ![l] = Answer(l, r)]
    /\ cancelled' = [cancelled EXCEPT ![l] = FALSE]
    /\ holds' = holds \ {l}

(* Mutant of GiveBack: whatever the answer, the payload goes back.         *)
GiveBackAlways(l, r) ==
    IF token[l] # "leased" THEN {token[l]} ELSE {"held", "gone"}

(* What becomes of a payload the job took: a check, and a refusal from     *)
(* before the first write, put it back unless it expired meanwhile.        *)
GiveBack(l, r) ==
    IF token[l] # "leased" THEN {token[l]}
    ELSE IF mode[l] = "check" \/ r \in {"busy", "timeout"}
         THEN {"held", "gone"} ELSE {"gone"}

(* serve_copy: admission, the shared root or the destination refuse the    *)
(* request before the token is looked at.                                  *)
RefuseEarly(l) ==
    /\ alive[l] /\ phase[l] = "idle" /\ req[l] # "none"
    /\ req' = [req EXCEPT ![l] = "none"]
    /\ \E r \in {"busy", "other"}
                 \cup (IF mode[l] = "check" THEN {"timeout"} ELSE {}) :
          rep' = [rep EXCEPT ![l] = Answer(l, r)]
    /\ UNCHANGED <<clientVars, hungUp, eof, workerVars, lockVars, dest>>

(* apply_prepared: take hands the payload out and the job begins.          *)
TakeToken(l) ==
    /\ alive[l] /\ phase[l] = "idle" /\ req[l] = "token" /\ token[l] = "held"
    /\ req' = [req EXCEPT ![l] = "none"]
    /\ token' = [token EXCEPT ![l] = "leased"]
    /\ phase' = [phase EXCEPT ![l] = "replan"]
    /\ UNCHANGED <<clientVars, rep, hungUp, eof, alive, cancelled, seen, wrote,
                   lockVars, dest>>

(* take found the entry, but the workspace or the destination now resolves *)
(* elsewhere (Scope): the payload is dropped with its charge.              *)
TakeMismatch(l) ==
    /\ alive[l] /\ phase[l] = "idle" /\ req[l] = "token" /\ token[l] = "held"
    /\ req' = [req EXCEPT ![l] = "none"]
    /\ token' = [token EXCEPT ![l] = "gone"]
    /\ rep' = [rep EXCEPT ![l] = Answer(l, "other")]
    /\ UNCHANGED <<clientVars, hungUp, eof, alive, phase, cancelled, seen,
                   wrote, lockVars, dest>>

(* take found nothing: TOKEN_GONE.                                         *)
TakeGone(l) ==
    /\ alive[l] /\ phase[l] = "idle" /\ req[l] = "token" /\ token[l] = "gone"
    /\ req' = [req EXCEPT ![l] = "none"]
    /\ rep' = [rep EXCEPT ![l] = Answer(l, "gone")]
    /\ UNCHANGED <<clientVars, hungUp, eof, workerVars, lockVars, dest>>

(* The full text arrived instead: no token is involved.                    *)
StartFull(l) ==
    /\ alive[l] /\ phase[l] = "idle" /\ req[l] = "full"
    /\ req' = [req EXCEPT ![l] = "none"]
    /\ phase' = [phase EXCEPT ![l] = "replan"]
    /\ UNCHANGED <<clientVars, rep, hungUp, eof, alive, token, cancelled, seen,
                   wrote, lockVars, dest>>

(* check_only: the preview is re-validated, nothing is locked or written.  *)
AnswerCheck(l) ==
    /\ alive[l] /\ phase[l] = "replan" /\ mode[l] = "check"
    /\ \E r \in {"busy", "timeout", "other",
                  IF Unchanged(l) THEN "fresh" ELSE "stale"} :
          /\ EndJob(l, r)
          /\ \E t \in GiveBack(l, r) : token' = [token EXCEPT ![l] = t]
    /\ UNCHANGED <<clientVars, req, hungUp, eof, alive, seen, wrote,
                   otherHolds, dest>>

(* import_apply re-validates and plans again before it takes any lock; a   *)
(* replay only opens the repository.  Both poll the cancel token last.     *)
Replan(l) ==
    /\ alive[l] /\ phase[l] = "replan" /\ mode[l] = "apply"
    /\ ~cancelled[l] /\ (l \in Replays \/ Unchanged(l))
    /\ phase' = [phase EXCEPT ![l] = "locking"]
    /\ UNCHANGED <<clientVars, wireVars, alive, token, cancelled, seen, wrote,
                   lockVars, dest>>

(* lock_destination_repos: the lock of every repository involved, refused  *)
(* at once while anyone else holds one; a plain folder has none.           *)
Lock(l) ==
    /\ alive[l] /\ phase[l] = "locking"
    /\ InRepo => LockFree
    /\ holds' = IF InRepo THEN holds \cup {l} ELSE holds
    /\ phase' = [phase EXCEPT ![l] = "revalidating"]
    /\ UNCHANGED <<clientVars, wireVars, alive, token, cancelled, seen, wrote,
                   otherHolds, dest>>

(* Mutant of Revalidate: what was checked before the lock is trusted.      *)
RevalidateNothing(l) ==
    /\ alive[l] /\ phase[l] = "revalidating"
    /\ l \in Replays => ~cancelled[l]
    /\ phase' = [phase EXCEPT ![l] = "fresh"]
    /\ UNCHANGED <<clientVars, wireVars, alive, token, cancelled, seen, wrote,
                   lockVars, dest>>

(* Freshness again, now under the lock; a replay polls cancellation for    *)
(* the last time.                                                          *)
Revalidate(l) ==
    /\ alive[l] /\ phase[l] = "revalidating"
    /\ Unchanged(l)
    /\ l \in Replays => ~cancelled[l]
    /\ phase' = [phase EXCEPT ![l] = "fresh"]
    /\ UNCHANGED <<clientVars, wireVars, alive, token, cancelled, seen, wrote,
                   lockVars, dest>>

(* Any refusal from before the first write.  Stale means the destination   *)
(* changed; Busy also comes from the lock and from the Git pool.           *)
Refuse(l) ==
    /\ alive[l] /\ mode[l] = "apply"
    /\ phase[l] \in {"replan", "locking", "revalidating"}
    /\ \E r \in {"busy", "timeout", "other"}
                 \cup (IF Unchanged(l) THEN {} ELSE {"stale"})
                 \cup (IF l \in Replays /\ phase[l] # "replan"
                       THEN {"failed"} ELSE {}) :
          /\ EndJob(l, r)
          /\ \E t \in GiveBack(l, r) : token' = [token EXCEPT ![l] = t]
    /\ UNCHANGED <<clientVars, req, hungUp, eof, alive, seen, wrote,
                   otherHolds, dest>>

(* The first write.  From here nothing polls cancellation.                 *)
BeginWrite(l) ==
    /\ alive[l] /\ phase[l] = "fresh"
    /\ phase' = [phase EXCEPT ![l] = "writing"]
    /\ wrote' = [wrote EXCEPT ![l] = @ + 1]
    /\ dest' = [dest EXCEPT !.pastes = @ + 1]
    /\ UNCHANGED <<clientVars, wireVars, alive, token, cancelled, seen,
                   lockVars>>

(* write_response sends the result, which lists what failed, in one frame: *)
(* the error TooLarge replaces one that is longer.                         *)
Results == {"done"} \cup (IF ResultsFit THEN {} ELSE {"overlong"})

(* Mutant of EndWrite: the job cannot end while nobody reads its response. *)
EndWriteIfRead(l) ==
    /\ alive[l] /\ phase[l] = "writing" /\ ~hungUp[l]
    /\ \E r \in Results : EndJob(l, r)
    /\ \E t \in GiveBack(l, "done") : token' = [token EXCEPT ![l] = t]
    /\ \E more \in {0, 1} : dest' = [dest EXCEPT !.pastes = @ + more]
    /\ UNCHANGED <<clientVars, req, hungUp, eof, alive, seen, wrote,
                   otherHolds>>

(* The other writes, if any, and the job's own response.                   *)
EndWrite(l) ==
    /\ alive[l] /\ phase[l] = "writing"
    /\ \E r \in Results : EndJob(l, r)
    /\ \E t \in GiveBack(l, "done") : token' = [token EXCEPT ![l] = t]
    /\ \E more \in {0, 1} : dest' = [dest EXCEPT !.pastes = @ + more]
    /\ UNCHANGED <<clientVars, req, hungUp, eof, alive, seen, wrote,
                   otherHolds>>

(* The job's deadline, or a heartbeat the client no longer takes.          *)
CancelJob(l) ==
    /\ alive[l] /\ phase[l] # "idle" /\ ~cancelled[l]
    /\ cancelled' = [cancelled EXCEPT ![l] = TRUE]
    /\ UNCHANGED <<clientVars, wireVars, alive, token, phase, seen, wrote,
                   lockVars, dest>>

(* The token's time to live ran out; the next prune drops the payload.     *)
Expire(l) ==
    /\ token[l] = "held"
    /\ token' = [token EXCEPT ![l] = "gone"]
    /\ UNCHANGED <<clientVars, wireVars, alive, phase, cancelled, seen, wrote,
                   lockVars, dest>>

(* The worker's process ends: killed, or hung up and idle.  The operating  *)
(* system releases its locks; a frame already sent still arrives.          *)
WorkerExits(l) ==
    /\ alive[l]
    /\ alive' = [alive EXCEPT ![l] = FALSE]
    /\ phase' = [phase EXCEPT ![l] = "idle"]
    /\ token' = [token EXCEPT ![l] = IF @ = "none" THEN @ ELSE "gone"]
    /\ cancelled' = [cancelled EXCEPT ![l] = FALSE]
    /\ req' = [req EXCEPT ![l] = "none"]
    /\ holds' = holds \ {l}
    /\ UNCHANGED <<clientVars, rep, hungUp, eof, seen, wrote, otherHolds, dest>>

-----------------------------------------------------------------------------
(* Everyone else at the destination                                        *)

(* An editor or a Git command changes a target; it takes no lock.          *)
Edit ==
    /\ dest.edits < MaxEdits
    /\ dest' = [dest EXCEPT !.edits = @ + 1]
    /\ UNCHANGED <<clientVars, wireVars, workerVars, lockVars>>

(* A paste of the desktop app, the CLI or another master's worker.         *)
OtherLocks ==
    /\ InRepo /\ LockFree /\ dest.pastes < MaxOthers
    /\ otherHolds' = TRUE
    /\ UNCHANGED <<clientVars, wireVars, workerVars, holds, dest>>

OtherWrites ==
    /\ InRepo => otherHolds
    /\ dest.pastes < MaxOthers
    /\ dest' = [dest EXCEPT !.pastes = @ + 1]
    /\ UNCHANGED <<clientVars, wireVars, workerVars, lockVars>>

OtherUnlocks ==
    /\ otherHolds
    /\ otherHolds' = FALSE
    /\ UNCHANGED <<clientVars, wireVars, workerVars, holds, dest>>

-----------------------------------------------------------------------------
Client(l) ==
    \/ Reserve(l) \/ PrepareDone(l) \/ PrepareFailed(l)
    \/ BeginApply(l, "apply") \/ BeginApply(l, "check") \/ BeginOutOfStep(l)
    \/ ResendFullText(l) \/ FinishRetry(l) \/ FinishUsed(l)
    \/ Lose(l) \/ PumpEof(l) \/ DropLease(l) \/ Reap(l)

Worker(l) ==
    \/ Plan(l) \/ RefuseEarly(l)
    \/ TakeToken(l) \/ TakeMismatch(l) \/ TakeGone(l) \/ StartFull(l)
    \/ AnswerCheck(l) \/ Replan(l) \/ Lock(l) \/ Revalidate(l) \/ Refuse(l)
    \/ BeginWrite(l) \/ EndWrite(l)
    \/ CancelJob(l) \/ Expire(l) \/ WorkerExits(l)

Others == Edit \/ OtherLocks \/ OtherWrites \/ OtherUnlocks

Next == (\E l \in Leases : Client(l) \/ Worker(l)) \/ Others

Spec == Init /\ [][Next]_vars

(* A job's own steps: the worker reads the request and runs it to its end  *)
(* (its Git calls have deadlines, its writes finish).  The client's call   *)
(* has an absolute deadline, and a killed transport is reaped.             *)
JobStep(l) ==
    \/ RefuseEarly(l) \/ TakeToken(l) \/ TakeMismatch(l) \/ TakeGone(l)
    \/ StartFull(l) \/ AnswerCheck(l) \/ Replan(l) \/ Lock(l)
    \/ Revalidate(l) \/ Refuse(l) \/ BeginWrite(l) \/ EndWrite(l)

Fairness ==
    \A l \in Leases :
        WF_vars(JobStep(l)) /\ WF_vars(Lose(l)) /\ WF_vars(Reap(l))

FairSpec == Spec /\ Fairness

-----------------------------------------------------------------------------
(* Properties                                                              *)

(* A lease that can be applied has nothing in flight and has written       *)
(* nothing: finish_apply returns to Ready only after an answer that rules  *)
(* a write out.  This is what makes applying the same preview again safe.  *)
ReadyIsUntouched ==
    \A l \in Leases :
        lease[l] = "Ready" =>
            wrote[l] = 0 /\ phase[l] = "idle" /\ req[l] = "none"

(* What the caller hears about an Apply is what happened, in every later   *)
(* state too: no write lands behind a refusal or a lost check, and a       *)
(* result means one write.  A write past its deadline must therefore send  *)
(* its own response (DeadlineReply::WriteOutcome).  It holds while results *)
(* fit a frame (ResultsFit).                                               *)
AnswersAreTrue ==
    \A l \in Leases :
        /\ told[l] \in {"retry", "unwritten"} => wrote[l] = 0
        /\ told[l] = "result" => wrote[l] = 1

(* "A write's own response is never discarded [...] the real response goes *)
(* out whatever it says" (jobs.rs, DeadlineReply::WriteOutcome): whoever   *)
(* gets a definite answer about a paste that wrote gets its result.  The   *)
(* code breaks it for a result longer than a frame.                        *)
LandedWriteIsReported ==
    \A l \in Leases : told[l] = "unwritten" => wrote[l] = 0

(* A payload that was written is never handed out again: only a refusal    *)
(* from before the first write puts it back under its token.               *)
WriteSpendsToken ==
    \A l \in Leases : wrote[l] > 0 => token[l] # "held"

(* In a repository nobody else writes while a paste checks its             *)
(* destination for the last time or writes.                                *)
OneWriterPerRepo ==
    InRepo =>
        \A l \in Leases :
            phase[l] \in {"fresh", "writing"} => holds = {l} /\ ~otherHolds

(* A paste into a repository starts to write only while no paste has       *)
(* written there since its preview: apply_observed and apply_with lock     *)
(* before they re-validate for the last time.                              *)
NoPasteOverUnseenPaste ==
    [][InRepo =>
         \A l \in Leases :
            wrote'[l] # wrote[l] => dest.pastes = seen[l].pastes]_vars

(* Where the current call of an applying lease is: its request on the      *)
(* wire, its job running, its answer on the way back, or nowhere because   *)
(* the worker died with it.  Only the job's last phase has written.        *)
CallInFlight(l) ==
    /\ req[l] # "none" => phase[l] = "idle" /\ rep[l] = "none" /\ wrote[l] = 0
    /\ phase[l] # "idle" => rep[l] = "none" /\ alive[l]
    /\ phase[l] \in PreWrite => wrote[l] = 0
    /\ phase[l] = "writing" => wrote[l] = 1
    /\ wrote[l] <= 1
    /\ rep[l] # "none" =>
          wrote[l] = IF rep[l] \in {"done", "overlong"} THEN 1 ELSE 0
    /\ rep[l] = "overlong" => ~ResultsFit
    /\ phase[l] = "idle" /\ req[l] = "none" /\ rep[l] = "none" => ~alive[l]
    /\ mode[l] = "check" => wrote[l] = 0 /\ phase[l] \in {"idle", "replan"}

(* Nothing of a call is left outside it.                                   *)
NoCall(l) ==
    phase[l] = "idle" /\ req[l] = "none" /\ rep[l] = "none" /\ wrote[l] = 0

(* The lease and what its worker does, state by state.                     *)
LeaseInv(l) ==
    /\ lease[l] \in {"None", "Preparing"} => told[l] = "idle" /\ NoCall(l)
    /\ lease[l] = "None" => ~alive[l] /\ token[l] = "none"
    /\ lease[l] \in {"Ready", "Dropped"}
          => told[l] \in {"idle", "retry"} /\ NoCall(l)
    /\ lease[l] = "Applying" => told[l] = "asked" /\ CallInFlight(l)
    /\ lease[l] = "Used" =>
          /\ told[l] \in {"result", "unwritten"}
          /\ rep[l] = "none"
          /\ told[l] = "result" =>
                wrote[l] = 1 /\ phase[l] = "idle" /\ req[l] = "none"
          /\ told[l] = "unwritten" =>
                /\ ResultsFit \/ mode[l] = "check" => wrote[l] = 0
                /\ \/ mode[l] = "check" /\ hungUp[l]
                   \/ phase[l] = "idle" /\ req[l] = "none"
                /\ phase[l] \in {"idle", "replan"}
    /\ lease[l] = "OutcomeUnknown" =>
          /\ told[l] = "unknown" /\ mode[l] = "apply"
          /\ hungUp[l] /\ rep[l] = "none"
          /\ req[l] # "none" => phase[l] = "idle" /\ wrote[l] = 0
          /\ phase[l] \in PreWrite => wrote[l] = 0
          /\ phase[l] = "writing" => wrote[l] = 1
          /\ wrote[l] <= 1

(* The client reads until the lease ends, so no answer is lost before.     *)
ReaderInv(l) ==
    lease[l] \in {"None", "Preparing", "Ready", "Applying"} => ~hungUp[l]

(* A job works on a leased payload or on a full text sent because the      *)
(* token was gone; a stored token therefore belongs to an idle worker.     *)
TokenInv(l) ==
    /\ phase[l] # "idle" => token[l] \in {"leased", "gone"}
    /\ token[l] = "leased" => phase[l] # "idle"
    /\ req[l] = "full" \/ rep[l] = "gone" => token[l] = "gone"
    /\ token[l] = "none" => lease[l] \in {"None", "Preparing", "Dropped"}
    /\ wrote[l] > 0 => token[l] # "held"

(* The destination lock: who holds it, alone, and what that guarantees     *)
(* between the last check and the first write.                             *)
LockInv ==
    /\ \A l \in Leases :
          l \in holds <=>
              InRepo /\ phase[l] \in {"revalidating", "fresh", "writing"}
    /\ \A l, m \in holds : l = m
    /\ otherHolds => InRepo /\ holds = {}
    /\ \A l \in Leases :
          InRepo /\ phase[l] = "fresh" => dest.pastes = seen[l].pastes

(* Leases that own a permit.                                               *)
PermitHolders ==
    {l \in Leases : lease[l] \in {"Preparing", "Ready", "Applying"}}
        \cup cleanup

PermitInv ==
    /\ cleanup \subseteq {l \in Leases : lease[l] = "Dropped"}
    /\ active = Cardinality(PermitHolders)
    /\ active <= MaxLeases

(* The inductive invariant: the safety invariants follow from it.          *)
IInv ==
    /\ TypeOK
    /\ \A l \in Leases : LeaseInv(l) /\ ReaderInv(l) /\ TokenInv(l)
    /\ LockInv
    /\ PermitInv

(* PreparedImports.active counts exactly the leases that own a connection  *)
(* and the dropped ones whose transport is not reaped, within its limit.   *)
PermitsAreCounted ==
    active = Cardinality(PermitHolders) /\ active <= MaxLeases

(* A destination lock a paste took is released, whatever became of the     *)
(* client: no paste holds it for ever.                                     *)
LocksAreReleased == \A l \in Leases : []<>(l \notin holds)

(* After an unknown outcome the worker comes to rest, so that inspecting   *)
(* the destination, as the message asks, gives a final answer (a lease     *)
(* that is OutcomeUnknown stays so).                                       *)
UnknownSettles ==
    \A l \in Leases :
        <>[](lease[l] = "OutcomeUnknown" =>
                ~alive[l] \/ (phase[l] = "idle" /\ req[l] = "none"))

(* The client and the worker together keep PasteOnce's contract.           *)
Contract == INSTANCE PasteOnce
                WITH written <- {l \in Leases : wrote[l] > 0}
ImplementsPasteOnce == Contract!Spec

=============================================================================
