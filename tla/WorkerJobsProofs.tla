-------------------------- MODULE WorkerJobsProofs --------------------------
(***************************************************************************)
(* Proofs about WorkerJobs for any number of connections and any limits.   *)
(* The counters are shown to be cardinalities of sets of connections, so   *)
(* the lemmas below say how each step of a job changes those sets.         *)
(***************************************************************************)
EXTENDS WorkerJobs, FiniteSetTheorems, TLAPS

USE ConnsAssumption, LimitsAssumption

LEMMA InitIInv == Init => IInv
<1> SUFFICES ASSUME Init PROVE IInv
    OBVIOUS
<1>1. Running = {} /\ Scanning = {} /\ Waiting = {}
    BY DEF Init, Running, Scanning, Waiting
<1>2. TypeOK
    BY DEF Init, TypeOK, Serving, Kinds, JobStates, Responses
<1>3. CountersAreExact /\ WithinLimits /\ RegistryIsExact
    BY <1>1, FS_EmptySet DEF Init, CountersAreExact, WithinLimits,
       RegistryIsExact
<1>4. NoJobOutlivesItsRequest /\ FramesAreTrue /\ ServingInv
    BY DEF Init, NoJobOutlivesItsRequest, FramesAreTrue, ServingInv, Serving,
       Ended
<1> QED
    BY <1>2, <1>3, <1>4 DEF IInv

(* The sets the counters count are finite.                                 *)
LEMMA CountedFinite ==
    /\ IsFiniteSet(Running) /\ IsFiniteSet(Scanning) /\ IsFiniteSet(Waiting)
    /\ Cardinality(Running) \in Nat /\ Cardinality(Scanning) \in Nat
    /\ Cardinality(Waiting) \in Nat
<1>1. /\ Running \subseteq Conns /\ Scanning \subseteq Conns
      /\ Waiting \subseteq Conns
    BY DEF Running, Scanning, Waiting
<1> QED
    BY <1>1, FS_Subset, FS_CardinalityType

(* What only moves connections, tokens or frames about leaves every job in *)
(* its place.                                                              *)
JobsKept ==
    /\ UNCHANGED <<running, scans, waiting, registry>>
    /\ Running' = Running /\ Scanning' = Scanning /\ Waiting' = Waiting

CountInv == CountersAreExact /\ WithinLimits /\ RegistryIsExact

LEMMA KeptCounts ==
    ASSUME CountInv, JobsKept
    PROVE  CountInv'
BY DEF CountInv, JobsKept, CountersAreExact, WithinLimits, RegistryIsExact

(* A job that enters a slot.                                               *)
LEMMA OccupyCounts ==
    ASSUME IInv, NEW c \in Conns, Occupy(c), CanAdmit(c),
           job[c] \in {"admitting", "waiting"}, kind' = kind
    PROVE  /\ running' = Cardinality(Running') /\ running' <= MaxGitJobs
           /\ scans' = Cardinality(Scanning') /\ scans' <= MaxScanJobs
           /\ registry' = Running'
           /\ Waiting' = Waiting \ {c}
<1> USE DEF IInv, TypeOK, CountersAreExact, WithinLimits, RegistryIsExact
<1>1. c \notin Running /\ c \notin Scanning
    BY DEF Running, Scanning
<1>2. Running' = Running \cup {c}
    BY DEF Occupy, Running
<1>3. Waiting' = Waiting \ {c}
    BY DEF Occupy, Waiting
<1>4. Scanning' = IF kind[c] = "scan" THEN Scanning \cup {c} ELSE Scanning
    BY <1>2 DEF Scanning
<1>5. /\ Cardinality(Running \cup {c}) = Cardinality(Running) + 1
      /\ Cardinality(Scanning \cup {c}) = Cardinality(Scanning) + 1
    BY <1>1, CountedFinite, FS_AddElement
<1>6. running' = running + 1 /\ running + 1 <= MaxGitJobs
    BY DEF Occupy, CanAdmit
<1>7. scans' = Cardinality(Scanning') /\ scans' <= MaxScanJobs
  <2>1. CASE kind[c] = "scan"
      BY <2>1, <1>4, <1>5 DEF Occupy, CanAdmit
  <2>2. CASE kind[c] # "scan"
      BY <2>2, <1>4 DEF Occupy
  <2> QED
      BY <2>1, <2>2
<1>8. registry' = Running'
    BY <1>2 DEF Occupy
<1> QED
    BY <1>2, <1>3, <1>5, <1>6, <1>7, <1>8

(* A job that leaves its slot.                                             *)
LEMMA ReleaseCounts ==
    ASSUME IInv, NEW c \in Conns, Release(c), job[c] = "running",
           NEW s \in {"returned", "panicked"},
           job' = [job EXCEPT ![c] = s], kind' = kind, waiting' = waiting
    PROVE  CountInv'
<1> USE DEF IInv, TypeOK, CountersAreExact, WithinLimits, RegistryIsExact
<1>1. c \in Running /\ (kind[c] = "scan" <=> c \in Scanning)
    BY DEF Running, Scanning
<1>2. Running' = Running \ {c}
    BY DEF Running
<1>3. Waiting' = Waiting
    BY DEF Waiting
<1>4. Scanning' = Scanning \ {c}
    BY <1>2 DEF Scanning
<1>5. Cardinality(Running \ {c}) = Cardinality(Running) - 1
    BY <1>1, CountedFinite, FS_RemoveElement
<1>6. Cardinality(Scanning \ {c}) =
          IF kind[c] = "scan" THEN Cardinality(Scanning) - 1
          ELSE Cardinality(Scanning)
  <2>1. CASE c \in Scanning
      BY <2>1, <1>1, CountedFinite, FS_RemoveElement
  <2>2. CASE c \notin Scanning
      <3>1. Scanning \ {c} = Scanning
          BY <2>2
      <3> QED
          BY <3>1, <2>2, <1>1
  <2> QED
      BY <2>1, <2>2
<1>7. /\ IsFiniteSet(Running \ {c}) /\ IsFiniteSet(Scanning \ {c})
      /\ Cardinality(Running \ {c}) \in Nat
      /\ Cardinality(Scanning \ {c}) \in Nat
    BY CountedFinite, FS_Subset, FS_CardinalityType
<1>8. running' = Cardinality(Running') /\ running' <= MaxGitJobs
    BY <1>2, <1>5, <1>7, CountedFinite DEF Release, SaturatingPred
<1>9. scans' = Cardinality(Scanning') /\ scans' <= MaxScanJobs
    BY <1>4, <1>6, <1>7, CountedFinite DEF Release, SaturatingPred
<1>10. registry' = Running'
    BY <1>2 DEF Release
<1> QED
    BY <1>3, <1>8, <1>9, <1>10 DEF CountInv

(* The rest of the invariant, one connection at a time: what a step of c   *)
(* does to c suffices.                                                     *)
ConnInv == TypeOK /\ NoJobOutlivesItsRequest /\ FramesAreTrue /\ ServingInv

(* Connection steps keep every job where it is, except a new request,      *)
(* which starts one that is not counted yet.                               *)
LEMMA ConnectionCounts ==
    ASSUME IInv, NEW c \in Conns, Connection(c)
    PROVE  CountInv'
<1> SUFFICES JobsKept
    BY KeptCounts DEF IInv, CountInv
<1>1. ASSUME NEW k \in Kinds, Request(c, k) PROVE JobsKept
  <2>1. job[c] \in {"none", "returned", "panicked"}
      BY <1>1 DEF IInv, NoJobOutlivesItsRequest, Request, Serving
  <2>2. Running' = Running /\ Waiting' = Waiting
      BY <1>1, <2>1 DEF Request, Running, Waiting, IInv, TypeOK
  <2>3. Scanning' = Scanning
      BY <1>1, <2>1, <2>2 DEF Request, Scanning, Running, IInv, TypeOK
  <2> QED
      BY <1>1, <2>2, <2>3 DEF JobsKept, Request, jobsVars
<1>2. ASSUME job' = job, kind' = kind, UNCHANGED jobsVars PROVE JobsKept
    BY <1>2 DEF JobsKept, Running, Scanning, Waiting, jobsVars
<1> QED
    BY <1>1, <1>2 DEF Connection, EndServe, HangUp, SendResponse, SendTimeout,
       Unwind, Deadline, HeartbeatFails, Drain

LEMMA JobCounts ==
    ASSUME IInv, NEW c \in Conns, Job(c)
    PROVE  CountInv'
<1> USE DEF Serving
<1>1. CASE AdmitRefused(c)
  <2>1. Running' = Running /\ Waiting' = Waiting
      BY <1>1 DEF AdmitRefused, Return, Running, Waiting, IInv, TypeOK
  <2>2. JobsKept
      BY <1>1, <2>1 DEF AdmitRefused, JobsKept, Scanning, jobsVars
  <2> QED
      BY <2>2, KeptCounts DEF IInv, CountInv
<1>2. CASE AdmitAtOnce(c)
  <2>1. c \notin Waiting
      BY <1>2 DEF AdmitAtOnce, Admissible, Waiting
  <2>2. Waiting' = Waiting
      BY <1>2, <2>1, OccupyCounts DEF AdmitAtOnce, Admissible
  <2> QED
      BY <1>2, <2>2, OccupyCounts DEF AdmitAtOnce, Admissible, CountInv, IInv,
         CountersAreExact, WithinLimits, RegistryIsExact
<1>3. CASE AdmitWaits(c)
  <2>1. /\ Running' = Running /\ Waiting' = Waiting \cup {c}
        /\ c \notin Waiting
      BY <1>3 DEF AdmitWaits, Admissible, Running, Waiting, IInv, TypeOK
  <2>2. Scanning' = Scanning
      BY <1>3, <2>1 DEF AdmitWaits, Scanning
  <2>3. waiting' = Cardinality(Waiting')
      BY <1>3, <2>1, CountedFinite, FS_AddElement
         DEF AdmitWaits, IInv, CountersAreExact
  <2>4. waiting' <= MaxWaiting
      BY <1>3 DEF AdmitWaits, Admissible, IInv, TypeOK
  <2> QED
      BY <1>3, <2>1, <2>2, <2>3, <2>4 DEF AdmitWaits, CountInv, IInv,
         CountersAreExact, WithinLimits, RegistryIsExact
<1>4. ASSUME job[c] = "waiting", waiting' = SaturatingPred(waiting),
             Waiting' = Waiting \ {c}
      PROVE  waiting' = Cardinality(Waiting') /\ waiting' <= MaxWaiting
  <2>1. c \in Waiting
      BY <1>4 DEF Waiting
  <2>2. /\ Cardinality(Waiting \ {c}) = Cardinality(Waiting) - 1
        /\ Cardinality(Waiting \ {c}) \in Nat
      BY <2>1, CountedFinite, FS_RemoveElement, FS_Subset, FS_CardinalityType
  <2> QED
      BY <1>4, <2>2, CountedFinite DEF SaturatingPred, IInv, CountersAreExact,
         WithinLimits
<1>5. CASE PollAdmits(c)
    BY <1>4, <1>5, OccupyCounts DEF PollAdmits, CountInv, CountersAreExact,
       WithinLimits, RegistryIsExact
<1>6. CASE PollRefuses(c)
  <2>1. Running' = Running /\ Waiting' = Waiting \ {c}
      BY <1>6 DEF PollRefuses, Return, Running, Waiting, IInv, TypeOK
  <2>2. Scanning' = Scanning
      BY <1>6, <2>1 DEF PollRefuses, Scanning
  <2> QED
      BY <1>4, <1>6, <2>1, <2>2 DEF PollRefuses, CountInv, IInv,
         CountersAreExact, WithinLimits, RegistryIsExact
<1>7. CASE JobReturns(c)
    BY <1>7, ReleaseCounts DEF JobReturns, Return
<1>8. CASE JobPanics(c)
    BY <1>8, ReleaseCounts DEF JobPanics
<1> QED
    BY <1>1, <1>2, <1>3, <1>5, <1>6, <1>7, <1>8 DEF Job

LEMMA ConnectionKeeps ==
    ASSUME IInv, NEW c \in Conns, Connection(c)
    PROVE  ConnInv'
<1> USE DEF IInv, ConnInv, TypeOK, NoJobOutlivesItsRequest, FramesAreTrue,
        ServingInv, Serving, Ended, Kinds, JobStates, Responses, jobsVars
<1>1. ASSUME NEW k \in Kinds, Request(c, k) PROVE ConnInv'
    BY <1>1 DEF Request
<1>2. CASE EndServe(c)
    BY <1>2 DEF EndServe
<1>3. CASE HangUp(c)
    BY <1>3 DEF HangUp
<1>4. CASE SendResponse(c)
  <2>1. PICK frame \in Framed(response[c]) :
          sent' = [sent EXCEPT ![c] = IF gone[c] THEN "none" ELSE frame]
      BY <1>4 DEF SendResponse, Send
  <2>2. /\ frame \in Responses \cup {"none", "toolarge"}
        /\ frame = "toolarge" => response[c] = "ok"
        /\ frame # "toolarge" => frame = response[c]
        /\ frame # "timeout"
      BY DEF Framed
  <2> QED
      BY <1>4, <2>1, <2>2 DEF SendResponse, Send
<1>5. CASE SendTimeout(c)
    BY <1>5 DEF SendTimeout, Send, Framed
<1>6. CASE Unwind(c)
    BY <1>6 DEF Unwind
<1>7. CASE Deadline(c)
    BY <1>7 DEF Deadline
<1>8. CASE HeartbeatFails(c)
    BY <1>8 DEF HeartbeatFails
<1>9. CASE Drain(c)
    BY <1>9 DEF Drain
<1> QED
    BY <1>1, <1>2, <1>3, <1>4, <1>5, <1>6, <1>7, <1>8, <1>9 DEF Connection

(* A job that is admitted, waits, runs or ends belongs to a connection     *)
(* that serves it, so no frame and no idle connection is touched.          *)
LEMMA JobKeeps ==
    ASSUME IInv, NEW c \in Conns, Job(c)
    PROVE  ConnInv'
<1> USE DEF IInv, ConnInv, TypeOK, NoJobOutlivesItsRequest, FramesAreTrue,
        ServingInv, Serving, Ended, Kinds, JobStates, Responses
<1>1. job[c] \in {"admitting", "waiting", "running"} /\ sent[c] = "none"
      /\ conn[c] \in Serving
    BY DEF Job, AdmitRefused, AdmitAtOnce, AdmitWaits, PollAdmits,
       PollRefuses, JobReturns, JobPanics, Admissible
<1>2. CASE AdmitRefused(c)
    BY <1>1, <1>2 DEF AdmitRefused, Return, jobsVars
<1>3. CASE AdmitAtOnce(c)
    BY <1>1, <1>3 DEF AdmitAtOnce, Occupy
<1>4. CASE AdmitWaits(c)
    BY <1>1, <1>4 DEF AdmitWaits
<1>5. CASE PollAdmits(c)
    BY <1>1, <1>5 DEF PollAdmits, Occupy, SaturatingPred
<1>6. CASE PollRefuses(c)
    BY <1>1, <1>6 DEF PollRefuses, Return, SaturatingPred
<1>7. CASE JobReturns(c)
    BY <1>1, <1>7 DEF JobReturns, Return, Release, SaturatingPred
<1>8. CASE JobPanics(c)
    BY <1>1, <1>8 DEF JobPanics, Release, SaturatingPred
<1> QED
    BY <1>2, <1>3, <1>4, <1>5, <1>6, <1>7, <1>8 DEF Job

(* cancel_all fires tokens; everything else stays.                         *)
LEMMA StopKeeps ==
    ASSUME IInv, RaiseStop \/ CancelAll
    PROVE  IInv'
<1> USE DEF RaiseStop, CancelAll, jobsVars, connVars
<1>1. CountInv'
  <2>1. JobsKept
      BY DEF JobsKept, Running, Scanning, Waiting
  <2> QED
      BY <2>1, KeptCounts DEF IInv, CountInv
<1>2. TypeOK'
    BY DEF IInv, TypeOK
<1>3. \A c \in Conns : cancelled[c] => cancelled'[c]
    OBVIOUS
<1>4. NoJobOutlivesItsRequest'
    BY DEF IInv, NoJobOutlivesItsRequest
<1>5. FramesAreTrue' /\ ServingInv'
    BY <1>3 DEF IInv, FramesAreTrue, ServingInv, Serving, Ended
<1> QED
    BY <1>1, <1>2, <1>4, <1>5 DEF IInv, CountInv

THEOREM Invariance == Spec => []IInv
<1>1. IInv /\ [Next]_vars => IInv'
  <2> SUFFICES ASSUME IInv, [Next]_vars PROVE IInv'
      OBVIOUS
  <2>1. ASSUME NEW c \in Conns, Connection(c) PROVE IInv'
      BY <2>1, ConnectionCounts, ConnectionKeeps DEF IInv, CountInv, ConnInv
  <2>2. ASSUME NEW c \in Conns, Job(c) PROVE IInv'
      BY <2>2, JobCounts, JobKeeps DEF IInv, CountInv, ConnInv
  <2>3. CASE RaiseStop \/ CancelAll
      BY <2>3, StopKeeps
  <2>4. CASE UNCHANGED vars
    <3> USE <2>4 DEF vars, jobsVars, connVars
    <3>1. JobsKept
        BY DEF JobsKept, Running, Scanning, Waiting
    <3>2. CountInv'
        BY <3>1, KeptCounts DEF IInv, CountInv
    <3>3. ConnInv'
        BY DEF IInv, ConnInv, TypeOK, NoJobOutlivesItsRequest, FramesAreTrue,
           ServingInv, Ended
    <3> QED
        BY <3>2, <3>3 DEF IInv, CountInv, ConnInv
  <2> QED
      BY <2>1, <2>2, <2>3, <2>4 DEF Next
<1> QED
    BY <1>1, InitIInv, PTL DEF Spec

(* Every variable keeps to its type.                                       *)
THEOREM TypeCorrect == Spec => []TypeOK
<1>1. IInv => TypeOK
    BY DEF IInv
<1> QED
    BY <1>1, Invariance, PTL

(* No slot leaks and none is given back twice, for any number of           *)
(* connections and any limits.                                             *)
THEOREM CountersExact == Spec => []CountersAreExact
<1>1. IInv => CountersAreExact
    BY DEF IInv
<1> QED
    BY <1>1, Invariance, PTL

(* The limits hold whatever admissions, refusals, panics and stops mix.    *)
THEOREM LimitsHold == Spec => []WithinLimits
<1>1. IInv => WithinLimits
    BY DEF IInv
<1> QED
    BY <1>1, Invariance, PTL

(* cancel_all finds every job that holds a slot.                           *)
THEOREM RegistryExact == Spec => []RegistryIsExact
<1>1. IInv => RegistryIsExact
    BY DEF IInv
<1> QED
    BY <1>1, Invariance, PTL

(* The next request is read only after the job ended.                      *)
THEOREM JobsEndFirst == Spec => []NoJobOutlivesItsRequest
<1>1. IInv => NoJobOutlivesItsRequest
    BY DEF IInv
<1> QED
    BY <1>1, Invariance, PTL

(* No final frame precedes the end of its job, and it is the job's own     *)
(* response, but for the Timeout of a late read and for the TooLarge of a  *)
(* result no frame holds.  A write gets no Timeout.                        *)
THEOREM FramesTrue == Spec => []FramesAreTrue
<1>1. IInv => FramesAreTrue
    BY DEF IInv
<1> QED
    BY <1>1, Invariance, PTL

(* Once stopped, only a job that already waited may still get a slot.      *)
THEOREM StoppedAdmits == Spec => StoppedAdmitsNoNewJob
<1>1. ASSUME IInv, [Next]_vars, stopped, NEW d \in Conns,
             job[d] # "running", job'[d] = "running"
      PROVE  job[d] = "waiting"
  <2> USE DEF IInv, TypeOK
  <2>1. ASSUME NEW c \in Conns, Job(c) PROVE job[d] = "waiting"
      BY <1>1, <2>1 DEF Job, AdmitRefused, AdmitAtOnce, Admissible,
         AdmitWaits, PollAdmits, PollRefuses, JobReturns, JobPanics, Occupy,
         Return
  <2>2. ASSUME NEW c \in Conns, Connection(c) PROVE job[d] = "waiting"
      BY <1>1, <2>2 DEF Connection, Request, EndServe, HangUp, SendResponse,
         SendTimeout, Unwind, Deadline, HeartbeatFails, Drain
  <2> QED
      BY <1>1, <2>1, <2>2 DEF Next, RaiseStop, CancelAll, connVars, vars
<1>2. IInv /\ [Next]_vars =>
          [stopped =>
             \A c \in Conns :
                job[c] # "running" /\ job'[c] = "running"
                    => job[c] = "waiting"]_vars
    BY <1>1
<1> QED
    BY <1>2, Invariance, PTL DEF Spec, StoppedAdmitsNoNewJob
=============================================================================
