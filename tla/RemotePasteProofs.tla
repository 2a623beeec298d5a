------------------------ MODULE RemotePasteProofs ------------------------
(***************************************************************************)
(* Proofs about RemotePaste, for any finite set of leases and any limits.  *)
(***************************************************************************)
EXTENDS RemotePaste, FiniteSetTheorems, TLAPS

USE LeasesAssumption, MaxLeasesAssumption, FlagsAssumption, BoundsAssumption

(* The parts of the invariant that speak of one lease at a time.           *)
Local(l) == LeaseInv(l) /\ ReaderInv(l) /\ TokenInv(l)

LEMMA InitIInv == Init => IInv
<1> SUFFICES ASSUME Init PROVE IInv
    OBVIOUS
<1>1. TypeOK
    BY DEF Init, TypeOK, LeaseStates, Told, Replies, Refusals, Phases,
        PreWrite, Version
<1>2. \A l \in Leases : LeaseInv(l) /\ ReaderInv(l) /\ TokenInv(l)
    BY DEF Init, LeaseInv, ReaderInv, TokenInv, NoCall
<1>3. LockInv
    BY DEF Init, LockInv
<1>4. PermitInv
  <2>1. PermitHolders = {}
      BY DEF Init, PermitHolders
  <2> QED
      BY <2>1, FS_EmptySet DEF Init, PermitInv
<1> QED
    BY <1>1, <1>2, <1>3, <1>4 DEF IInv

(* Type correctness: every step of the client, of the worker and of the    *)
(* others keeps it.  active counts down only while a permit is out.        *)
LEMMA ClientTypeOK ==
    ASSUME TypeOK, NEW l \in Leases, Client(l),
           lease[l] \in {"Preparing", "Applying"} \/ l \in cleanup
               => active > 0
    PROVE  TypeOK'
<1> USE DEF TypeOK, LeaseStates, Told, Replies, Refusals, Phases, PreWrite,
        Version, lockVars, wireVars, workerVars, clientVars
<1>1. CASE Reserve(l)
    BY <1>1 DEF Reserve
<1>2. CASE PrepareDone(l)
    BY <1>2 DEF PrepareDone
<1>3. CASE PrepareFailed(l)
    BY <1>3 DEF PrepareFailed
<1>4. CASE BeginOutOfStep(l)
    BY <1>4 DEF BeginOutOfStep
<1>5. CASE ResendFullText(l)
    BY <1>5 DEF ResendFullText
<1>6. CASE FinishRetry(l)
    BY <1>6 DEF FinishRetry
<1>7. CASE FinishUsed(l)
    BY <1>7 DEF FinishUsed
<1>8. CASE Lose(l)
    BY <1>8 DEF Lose
<1>9. CASE PumpEof(l)
    BY <1>9 DEF PumpEof
<1>10. CASE DropLease(l)
    BY <1>10 DEF DropLease
<1>11. CASE Reap(l)
    BY <1>11 DEF Reap
<1>12. CASE BeginApply(l, "apply")
    BY <1>12 DEF BeginApply
<1>13. CASE BeginApply(l, "check")
    BY <1>13 DEF BeginApply
<1> QED
    BY <1>1, <1>2, <1>3, <1>4, <1>5, <1>6, <1>7, <1>8,
       <1>9, <1>10, <1>11, <1>12, <1>13 DEF Client

LEMMA WorkerTypeOK ==
    ASSUME TypeOK, NEW l \in Leases, Worker(l)
    PROVE  TypeOK'
<1> USE DEF TypeOK, LeaseStates, Told, Replies, Refusals, Phases, PreWrite,
        Version, lockVars, wireVars, workerVars, clientVars
<1>1. CASE Plan(l)
    BY <1>1 DEF Plan
<1>2. CASE RefuseEarly(l)
    BY <1>2 DEF RefuseEarly, Answer
<1>3. CASE TakeToken(l)
    BY <1>3 DEF TakeToken
<1>4. CASE TakeMismatch(l)
    BY <1>4 DEF TakeMismatch, Answer
<1>5. CASE TakeGone(l)
    BY <1>5 DEF TakeGone, Answer
<1>6. CASE StartFull(l)
    BY <1>6 DEF StartFull
<1>7. CASE AnswerCheck(l)
    BY <1>7 DEF AnswerCheck, EndJob, Answer, GiveBack
<1>8. CASE Replan(l)
    BY <1>8 DEF Replan
<1>9. CASE Lock(l)
    BY <1>9 DEF Lock
<1>10. CASE Revalidate(l)
    BY <1>10 DEF Revalidate
<1>11. CASE Refuse(l)
    BY <1>11 DEF Refuse, EndJob, Answer, GiveBack
<1>12. CASE BeginWrite(l)
    BY <1>12 DEF BeginWrite
<1>13. CASE EndWrite(l)
  <2> PICK r \in {"done", "overlong"} : EndJob(l, r)
      BY <1>13 DEF EndWrite, Results
  <2>1. Answer(l, r) \in Replies \cup {"none"}
      BY DEF Answer
  <2>2. GiveBack(l, "done") \subseteq {"none", "held", "leased", "gone"}
      BY DEF GiveBack
  <2> QED
      BY <1>13, <2>1, <2>2 DEF EndWrite, EndJob
<1>14. CASE CancelJob(l)
    BY <1>14 DEF CancelJob
<1>15. CASE Expire(l)
    BY <1>15 DEF Expire
<1>16. CASE WorkerExits(l)
    BY <1>16 DEF WorkerExits
<1> QED
    BY <1>1, <1>2, <1>3, <1>4, <1>5, <1>6, <1>7, <1>8,
       <1>9, <1>10, <1>11, <1>12, <1>13, <1>14, <1>15, <1>16 DEF Worker

(* What one lease's client does keeps the invariant of every lease.        *)
LEMMA ClientLocal ==
    ASSUME IInv, NEW l \in Leases, Client(l), NEW k \in Leases
    PROVE  Local(k)'
<1> USE DEF IInv, TypeOK, LeaseStates, Told, Replies, Refusals, Phases,
        PreWrite, lockVars, wireVars, workerVars, clientVars, Local, LeaseInv,
        ReaderInv, TokenInv, NoCall, CallInFlight
<1>1. CASE Reserve(l)
    BY <1>1 DEF Reserve
<1>2. CASE PrepareDone(l)
    BY <1>2 DEF PrepareDone
<1>3. CASE PrepareFailed(l)
    BY <1>3 DEF PrepareFailed
<1>4. CASE BeginOutOfStep(l)
    BY <1>4 DEF BeginOutOfStep
<1>5. CASE ResendFullText(l)
    BY <1>5 DEF ResendFullText
<1>6. CASE FinishRetry(l)
    BY <1>6 DEF FinishRetry, Retryable
<1>7. CASE FinishUsed(l)
    BY <1>7 DEF FinishUsed, Retryable
<1>8. CASE Lose(l)
    BY <1>8 DEF Lose
<1>9. CASE PumpEof(l)
    BY <1>9 DEF PumpEof
<1>10. CASE DropLease(l)
    BY <1>10 DEF DropLease, PermitInv
<1>11. CASE Reap(l)
    BY <1>11 DEF Reap, PermitInv
<1>12. CASE BeginApply(l, "apply")
    BY <1>12 DEF BeginApply
<1>13. CASE BeginApply(l, "check")
    BY <1>13 DEF BeginApply
<1> QED
    BY <1>1, <1>2, <1>3, <1>4, <1>5, <1>6, <1>7, <1>8,
       <1>9, <1>10, <1>11, <1>12, <1>13 DEF Client

(* So does what one lease's worker does.                                   *)
LEMMA WorkerLocal ==
    ASSUME IInv, NEW l \in Leases, Worker(l), NEW k \in Leases
    PROVE  Local(k)'
<1> USE DEF IInv, TypeOK, LeaseStates, Told, Replies, Refusals, Phases,
        PreWrite, lockVars, wireVars, workerVars, clientVars, Local, LeaseInv,
        ReaderInv, TokenInv, NoCall, CallInFlight
<1>1. CASE Plan(l)
    BY <1>1 DEF Plan
<1>2. CASE RefuseEarly(l)
    BY <1>2 DEF RefuseEarly, Answer
<1>3. CASE TakeToken(l)
    BY <1>3 DEF TakeToken
<1>4. CASE TakeMismatch(l)
    BY <1>4 DEF TakeMismatch, Answer
<1>5. CASE TakeGone(l)
    BY <1>5 DEF TakeGone, Answer
<1>6. CASE StartFull(l)
    BY <1>6 DEF StartFull
<1>7. CASE AnswerCheck(l)
  <2>1. PICK r \in {"busy", "timeout", "other",
                    IF Unchanged(l) THEN "fresh" ELSE "stale"} :
           EndJob(l, r) /\ \E t \in GiveBack(l, r) :
                               token' = [token EXCEPT ![l] = t]
      BY <1>7 DEF AnswerCheck
  <2>2. /\ phase[l] = "replan" /\ mode[l] = "check" /\ alive[l]
        /\ phase' = [phase EXCEPT ![l] = "idle"]
        /\ rep' = [rep EXCEPT ![l] = Answer(l, r)]
        /\ UNCHANGED <<lease, mode, told, req, hungUp, alive, wrote>>
      BY <1>7, <2>1 DEF AnswerCheck, EndJob
  <2>3. lease[l] \in {"Applying", "Used"} /\ wrote[l] = 0
    <3>1. lease[l] \in LeaseStates /\ told[l] \in Told /\ wrote[l] \in Nat
        OBVIOUS
    <3>2. lease[l] \in {"Applying", "Used"}
        BY <2>2, <3>1
    <3>3. CASE lease[l] = "Applying"
        BY <2>2, <3>3
    <3>4. CASE lease[l] = "Used"
      <4>1. told[l] = "unwritten"
          BY <2>2, <3>1, <3>4
      <4>2. wrote[l] = 0
          BY <2>2, <3>4, <4>1
      <4> QED
          BY <3>4, <4>2
    <3> QED
        BY <3>2, <3>3, <3>4
  <2>4. Answer(l, r) \in {"none", "busy", "timeout", "other", "fresh", "stale"}
      BY <2>1 DEF Answer
  <2>5. hungUp[l] <=> Answer(l, r) = "none"
      BY <2>1 DEF Answer
  <2>6. \E t \in {"held", "gone"} :
            /\ token' = [token EXCEPT ![l] = t]
            /\ token[l] = "gone" => t = "gone"
    <3>1. token[l] \in {"leased", "gone"}
        BY <2>2
    <3>2. GiveBack(l, r) \subseteq IF token[l] = "gone" THEN {"gone"}
                                   ELSE {"held", "gone"}
        BY <2>2, <3>1 DEF GiveBack
    <3> QED
        BY <2>1, <3>2
  <2>7. CASE lease[l] = "Applying"
    <3>1. req[l] = "none" /\ told[l] = "asked" /\ ~hungUp[l]
        BY <2>2, <2>7
    <3>2. token'[l] \in {"held", "gone"}
        BY <2>6
    <3> QED
        BY <2>2, <2>3, <2>4, <2>5, <2>6, <2>7, <3>1, <3>2
  <2>8. CASE lease[l] = "Used"
    <3>1. told[l] = "unwritten" /\ hungUp[l]
        BY <2>2, <2>8
    <3>2. token'[l] \in {"held", "gone"} /\ Answer(l, r) = "none"
        BY <2>5, <2>6, <3>1
    <3>3. CASE k = l
      <4>1. LeaseInv(l)'
          BY <2>2, <2>3, <2>8, <3>1, <3>2
      <4>2. ReaderInv(l)'
          BY <2>2, <2>8
      <4>3. TokenInv(l)'
          BY <2>2, <2>3, <2>6, <2>8, <3>1, <3>2
      <4> QED
          BY <3>3, <4>1, <4>2, <4>3
    <3>4. CASE k # l
        BY <2>2, <2>6, <3>4
    <3> QED
        BY <3>3, <3>4
  <2> QED
      BY <2>3, <2>7, <2>8
<1>8. CASE Replan(l)
    BY <1>8 DEF Replan
<1>9. CASE Lock(l)
    BY <1>9 DEF Lock
<1>10. CASE Revalidate(l)
    BY <1>10 DEF Revalidate
<1>11. CASE Refuse(l)
    BY <1>11 DEF Refuse, EndJob, Answer, GiveBack
<1>12. CASE BeginWrite(l)
    BY <1>12 DEF BeginWrite
<1>13. CASE EndWrite(l)
  <2> PICK r \in {"done", "overlong"} :
           (r = "overlong" => ~ResultsFit) /\ EndJob(l, r)
      BY <1>13 DEF EndWrite, Results
  <2>1. /\ phase[l] = "writing" /\ alive[l]
        /\ phase' = [phase EXCEPT ![l] = "idle"]
        /\ rep' = [rep EXCEPT ![l] = Answer(l, r)]
        /\ UNCHANGED <<lease, mode, told, req, hungUp, alive, wrote>>
      BY <1>13 DEF EndWrite, EndJob
  <2>2. /\ lease[l] \in {"Applying", "OutcomeUnknown"}
        /\ wrote[l] = 1 /\ mode[l] = "apply"
      BY <2>1
  <2>3. token' = [token EXCEPT ![l] = "gone"]
    <3>1. token[l] \in {"leased", "gone"}
        BY <2>1
    <3>2. GiveBack(l, "done") = {"gone"}
        BY <2>2, <3>1 DEF GiveBack
    <3> QED
        BY <1>13, <3>2 DEF EndWrite
  <2>4. CASE lease[l] = "Applying"
      BY <2>1, <2>2, <2>3, <2>4 DEF Answer
  <2>5. CASE lease[l] = "OutcomeUnknown"
      BY <2>1, <2>2, <2>3, <2>5 DEF Answer
  <2> QED
      BY <2>2, <2>4, <2>5
<1>14. CASE CancelJob(l)
    BY <1>14 DEF CancelJob
<1>15. CASE Expire(l)
    BY <1>15 DEF Expire
<1>16. CASE WorkerExits(l)
    BY <1>16 DEF WorkerExits
<1> QED
    BY <1>1, <1>2, <1>3, <1>4, <1>5, <1>6, <1>7, <1>8,
       <1>9, <1>10, <1>11, <1>12, <1>13, <1>14, <1>15, <1>16 DEF Worker

(* No step of a client touches what the lock invariant speaks of.          *)
LEMMA ClientLock ==
    ASSUME IInv, NEW l \in Leases, Client(l)
    PROVE  LockInv'
<1>1. UNCHANGED <<holds, otherHolds, phase, dest, seen>>
    BY DEF Client, Reserve, PrepareDone, PrepareFailed, BeginApply,
        BeginOutOfStep, ResendFullText, FinishRetry, FinishUsed, Lose, PumpEof,
        DropLease, Reap, lockVars, workerVars
<1> QED
    BY <1>1 DEF IInv, LockInv

(* The worker takes the lock only while it is free, and pastes are counted *)
(* only by whoever holds it.                                               *)
LEMMA WorkerLock ==
    ASSUME IInv, NEW l \in Leases, Worker(l)
    PROVE  LockInv'
<1> USE DEF IInv, TypeOK, Phases, PreWrite, Version, LockInv, lockVars,
        workerVars
<1>1. CASE RefuseEarly(l) \/ TakeMismatch(l) \/ TakeGone(l)
            \/ CancelJob(l) \/ Expire(l)
  <2>1. UNCHANGED <<holds, otherHolds, phase, dest, seen>>
      BY <1>1 DEF RefuseEarly, TakeMismatch, TakeGone, CancelJob, Expire
  <2> QED
      BY <2>1
<1>2. CASE Plan(l)
    BY <1>2 DEF Plan, LeaseInv, NoCall
<1>3. CASE TakeToken(l)
    BY <1>3 DEF TakeToken
<1>4. CASE StartFull(l)
    BY <1>4 DEF StartFull
<1>5. CASE AnswerCheck(l)
    BY <1>5 DEF AnswerCheck, EndJob
<1>6. CASE Replan(l)
    BY <1>6 DEF Replan
<1>7. CASE Lock(l)
    BY <1>7 DEF Lock, LockFree
<1>8. CASE Revalidate(l)
    BY <1>8 DEF Revalidate, Unchanged
<1>9. CASE Refuse(l)
    BY <1>9 DEF Refuse, EndJob
<1>10. CASE BeginWrite(l)
    BY <1>10 DEF BeginWrite
<1>11. CASE EndWrite(l)
    BY <1>11 DEF EndWrite, EndJob
<1>12. CASE WorkerExits(l)
    BY <1>12 DEF WorkerExits
<1> QED
    BY <1>1, <1>2, <1>3, <1>4, <1>5, <1>6, <1>7, <1>8,
       <1>9, <1>10, <1>11, <1>12 DEF Worker

(* The permits: FiniteSetTheorems count what enters and leaves the set.    *)
LEMMA HoldersFinite ==
    ASSUME IInv
    PROVE  IsFiniteSet(PermitHolders) /\ PermitHolders \subseteq Leases
<1>1. PermitHolders \subseteq Leases
    BY DEF IInv, TypeOK, PermitHolders
<1> QED
    BY <1>1, FS_Subset

LEMMA PermitTaken ==
    ASSUME IInv, NEW l \in Leases, l \notin PermitHolders,
           active' = active + 1, active < MaxLeases,
           PermitHolders' = PermitHolders \cup {l},
           cleanup' \subseteq {k \in Leases : lease'[k] = "Dropped"}
    PROVE  PermitInv'
<1>1. Cardinality(PermitHolders') = Cardinality(PermitHolders) + 1
    BY HoldersFinite, FS_AddElement
<1> QED
    BY <1>1 DEF IInv, TypeOK, PermitInv

LEMMA PermitReturned ==
    ASSUME IInv, NEW l \in PermitHolders,
           active' = active - 1,
           PermitHolders' = PermitHolders \ {l},
           cleanup' \subseteq {k \in Leases : lease'[k] = "Dropped"}
    PROVE  PermitInv'
<1>1. Cardinality(PermitHolders') = Cardinality(PermitHolders) - 1
    BY HoldersFinite, FS_RemoveElement
<1> QED
    BY <1>1 DEF IInv, TypeOK, PermitInv

LEMMA PermitKept ==
    ASSUME IInv, UNCHANGED active, PermitHolders' = PermitHolders,
           cleanup' \subseteq {k \in Leases : lease'[k] = "Dropped"}
    PROVE  PermitInv'
BY DEF IInv, PermitInv

(* A permit that is handed back was out.                                   *)
LEMMA SomePermitOut ==
    ASSUME IInv, NEW l \in PermitHolders
    PROVE  active > 0
<1>1. Cardinality(PermitHolders) # 0
    BY HoldersFinite, FS_EmptySet
<1> QED
    BY <1>1 DEF IInv, TypeOK, PermitInv

LEMMA ClientPermits ==
    ASSUME IInv, NEW l \in Leases, Client(l)
    PROVE  PermitInv'
<1> USE DEF IInv, TypeOK, PermitInv, PermitHolders, clientVars, LeaseStates
<1>1. CASE Reserve(l)
    BY <1>1, PermitTaken DEF Reserve
<1>2. CASE PrepareFailed(l)
    BY <1>2, PermitReturned DEF PrepareFailed
<1>3. CASE FinishUsed(l)
    BY <1>3, PermitReturned DEF FinishUsed
<1>4. CASE Lose(l)
    BY <1>4, PermitReturned DEF Lose
<1>5. CASE Reap(l)
    BY <1>5, PermitReturned DEF Reap
<1>6. CASE PrepareDone(l)
    BY <1>6, PermitKept DEF PrepareDone
<1>7. CASE BeginApply(l, "apply") \/ BeginApply(l, "check")
    BY <1>7, PermitKept DEF BeginApply
<1>8. CASE BeginOutOfStep(l)
    BY <1>8, PermitKept DEF BeginOutOfStep
<1>9. CASE FinishRetry(l)
    BY <1>9, PermitKept DEF FinishRetry
<1>10. CASE ResendFullText(l) \/ PumpEof(l)
    BY <1>10, PermitKept DEF ResendFullText, PumpEof
<1>11. CASE DropLease(l)
    BY <1>11, PermitKept DEF DropLease
<1> QED
    BY <1>1, <1>2, <1>3, <1>4, <1>5, <1>6, <1>7, <1>8, <1>9, <1>10, <1>11
       DEF Client

LEMMA WorkerPermits ==
    ASSUME IInv, NEW l \in Leases, Worker(l)
    PROVE  PermitInv'
<1>1. UNCHANGED <<lease, active, cleanup>>
    BY DEF Worker, Plan, RefuseEarly, TakeToken, TakeMismatch, TakeGone,
        StartFull, AnswerCheck, Replan, Lock, Revalidate, Refuse, BeginWrite,
        EndWrite, CancelJob, Expire, WorkerExits, clientVars
<1> QED
    BY <1>1 DEF IInv, PermitInv, PermitHolders

(* Steps of the others change the destination and their own lock only.     *)
LEMMA OthersIInv ==
    ASSUME IInv, Others
    PROVE  IInv'
<1>1. UNCHANGED <<clientVars, wireVars, workerVars, holds>>
    BY DEF Others, Edit, OtherLocks, OtherWrites, OtherUnlocks, lockVars
<1>2. TypeOK'
  <2>1. dest' \in Version
      BY DEF IInv, TypeOK, Version, Others, Edit, OtherLocks, OtherWrites,
          OtherUnlocks
  <2>2. otherHolds' \in BOOLEAN
      BY DEF IInv, TypeOK, Others, Edit, OtherLocks, OtherWrites, OtherUnlocks,
          lockVars
  <2> QED
      BY <1>1, <2>1, <2>2 DEF IInv, TypeOK, clientVars, wireVars, workerVars
<1>3. \A l \in Leases : (LeaseInv(l) /\ ReaderInv(l) /\ TokenInv(l))'
    BY <1>1 DEF IInv, LeaseInv, ReaderInv, TokenInv, NoCall, CallInFlight,
        clientVars, wireVars, workerVars
<1>4. LockInv'
    BY <1>1 DEF IInv, TypeOK, Version, LockInv, LockFree, Others, Edit,
        OtherLocks, OtherWrites, OtherUnlocks, lockVars, workerVars
<1>5. PermitInv'
    BY <1>1 DEF IInv, PermitInv, PermitHolders, clientVars
<1> QED
    BY <1>2, <1>3, <1>4, <1>5 DEF IInv

LEMMA NextIInv == IInv /\ [Next]_vars => IInv'
<1> SUFFICES ASSUME IInv, [Next]_vars PROVE IInv'
    OBVIOUS
<1>1. ASSUME NEW l \in Leases, Client(l) PROVE IInv'
  <2>1. lease[l] \in {"Preparing", "Applying"} \/ l \in cleanup => active > 0
      BY SomePermitOut DEF PermitHolders
  <2>2. TypeOK'
      BY <1>1, <2>1, ClientTypeOK DEF IInv
  <2> QED
      BY <1>1, <2>2, ClientLocal, ClientLock, ClientPermits DEF IInv, Local
<1>2. ASSUME NEW l \in Leases, Worker(l) PROVE IInv'
    BY <1>2, WorkerTypeOK, WorkerLocal, WorkerLock, WorkerPermits
       DEF IInv, Local
<1>3. CASE Others
    BY <1>3, OthersIInv
<1>4. CASE UNCHANGED vars
    BY <1>4 DEF vars, clientVars, wireVars, workerVars, lockVars, IInv, TypeOK,
        LeaseInv, ReaderInv, TokenInv, NoCall, CallInFlight, LockInv,
        PermitInv, PermitHolders
<1> QED
    BY <1>1, <1>2, <1>3, <1>4 DEF Next

(* The inductive invariant holds in every reachable state.                 *)
THEOREM Invariance == Spec => []IInv
BY InitIInv, NextIInv, PTL DEF Spec

(* Type correctness of the paste protocol.                                 *)
THEOREM TypeCorrect == Spec => []TypeOK
<1>1. IInv => TypeOK
    BY DEF IInv
<1> QED
    BY <1>1, Invariance, PTL

(* A lease that can be applied again has written nothing and has nothing   *)
(* in flight: client.rs, finish_apply.                                     *)
THEOREM ReadyUntouched == Spec => []ReadyIsUntouched
<1>1. IInv => ReadyIsUntouched
    BY DEF IInv, ReadyIsUntouched, LeaseInv, NoCall
<1> QED
    BY <1>1, Invariance, PTL

(* Refusals and results are true in every later state: jobs.rs,            *)
(* DeadlineReply::WriteOutcome, and client.rs, finish_apply.  The result   *)
(* of a write must fit a frame.                                            *)
THEOREM AnswersTrue ==
    ASSUME ResultsFit
    PROVE  Spec => []AnswersAreTrue
<1>1. IInv => AnswersAreTrue
  <2> SUFFICES ASSUME IInv, NEW l \in Leases
               PROVE  /\ told[l] \in {"retry", "unwritten"} => wrote[l] = 0
                      /\ told[l] = "result" => wrote[l] = 1
      BY DEF AnswersAreTrue
  <2> QED
      BY DEF IInv, TypeOK, LeaseStates, LeaseInv, NoCall
<1> QED
    BY <1>1, Invariance, PTL

(* A payload that was written is never handed out again: prepared.rs,      *)
(* restore, and pasteserve.rs, apply_prepared.                             *)
THEOREM TokenSpent == Spec => []WriteSpendsToken
<1>1. IInv => WriteSpendsToken
    BY DEF IInv, WriteSpendsToken, TokenInv
<1> QED
    BY <1>1, Invariance, PTL

(* Mutual exclusion at the destination: workspace.rs, lock_heavy.          *)
THEOREM OneWriter == Spec => []OneWriterPerRepo
<1>1. IInv => OneWriterPerRepo
    BY DEF IInv, LockInv, OneWriterPerRepo
<1> QED
    BY <1>1, Invariance, PTL

(* The permits are counted and bounded: client.rs, PreparedImports.        *)
THEOREM PermitsCounted == Spec => []PermitsAreCounted
<1>1. IInv => PermitsAreCounted
    BY DEF IInv, PermitInv, PermitsAreCounted
<1> QED
    BY <1>1, Invariance, PTL

(* A paste starts to write only over a destination no paste has changed    *)
(* since its preview: transfer.rs, apply_observed and apply_with.          *)
THEOREM NoUnseenPaste == Spec => NoPasteOverUnseenPaste
<1>1. ASSUME IInv, [Next]_vars, InRepo, NEW l \in Leases, wrote'[l] # wrote[l]
      PROVE  dest.pastes = seen[l].pastes
  <2>1. PICK k \in Leases : BeginWrite(k)
      BY <1>1 DEF Next, Others, Edit, OtherLocks, OtherWrites, OtherUnlocks,
          vars, workerVars, Client, Reserve, PrepareDone, PrepareFailed,
          BeginApply, BeginOutOfStep, ResendFullText, FinishRetry, FinishUsed,
          Lose, PumpEof, DropLease, Reap, Worker, Plan, RefuseEarly, TakeToken,
          TakeMismatch, TakeGone, StartFull, AnswerCheck, Replan, Lock,
          Revalidate, Refuse, EndWrite, CancelJob, Expire, WorkerExits
  <2>2. k = l
      BY <1>1, <2>1 DEF BeginWrite, IInv, TypeOK
  <2> QED
      BY <1>1, <2>1, <2>2 DEF BeginWrite, IInv, LockInv
<1>2. IInv /\ [Next]_vars =>
        [InRepo => \A l \in Leases :
            wrote'[l] # wrote[l] => dest.pastes = seen[l].pastes]_vars
    BY <1>1
<1> QED
    BY <1>2, Invariance, PTL DEF Spec, NoPasteOverUnseenPaste

LEMMA InitContract == Init => Contract!Init
BY DEF Init, Contract!Init

(* A step that writes nothing and tells nothing is a stutter.              *)
LEMMA QuietStep ==
    ASSUME UNCHANGED <<wrote, told>>
    PROVE  UNCHANGED Contract!vars
BY DEF Contract!vars

LEMMA ClientContract ==
    ASSUME ResultsFit, IInv, NEW l \in Leases, Client(l)
    PROVE  [Contract!Next]_(Contract!vars)
<1> USE DEF IInv, TypeOK, LeaseStates, LeaseInv, NoCall, CallInFlight,
        Contract!Next, Contract!Tell, clientVars, workerVars
<1>1. CASE BeginApply(l, "apply") \/ BeginApply(l, "check")
  <2>1. Contract!Ask(l)
      BY <1>1 DEF BeginApply, Contract!Ask
  <2> QED
      BY <2>1
<1>2. CASE BeginOutOfStep(l)
  <2>1. Contract!Ask(l)
      BY <1>2 DEF BeginOutOfStep, Contract!Ask
  <2> QED
      BY <2>1
<1>3. CASE FinishRetry(l)
  <2>1. Contract!TellRetry(l)
      BY <1>3 DEF FinishRetry, Retryable, Contract!TellRetry
  <2> QED
      BY <2>1
<1>4. CASE FinishUsed(l)
  <2>1. CASE rep[l] = "done"
    <3>1. Contract!TellResult(l)
        BY <1>4, <2>1 DEF FinishUsed, Contract!TellResult
    <3> QED
        BY <3>1
  <2>2. CASE rep[l] # "done"
    <3>1. Contract!TellUnwritten(l)
        BY <1>4, <2>2 DEF FinishUsed, Contract!TellUnwritten
    <3> QED
        BY <3>1
  <2> QED
      BY <2>1, <2>2
<1>5. CASE Lose(l)
  <2>1. CASE mode[l] = "check"
    <3>1. Contract!TellUnwritten(l)
        BY <1>5, <2>1 DEF Lose, Contract!TellUnwritten
    <3> QED
        BY <3>1
  <2>2. CASE mode[l] # "check"
    <3>1. Contract!TellUnknown(l)
        BY <1>5, <2>2 DEF Lose, Contract!TellUnknown
    <3> QED
        BY <3>1
  <2> QED
      BY <2>1, <2>2
<1>6. CASE Reserve(l) \/ PrepareDone(l) \/ PrepareFailed(l)
           \/ ResendFullText(l) \/ PumpEof(l) \/ DropLease(l) \/ Reap(l)
  <2>1. UNCHANGED <<wrote, told>>
      BY <1>6 DEF Reserve, PrepareDone, PrepareFailed, ResendFullText, PumpEof,
          DropLease, Reap
  <2> QED
      BY <2>1, QuietStep
<1> QED
    BY <1>1, <1>2, <1>3, <1>4, <1>5, <1>6 DEF Client

LEMMA WorkerContract ==
    ASSUME IInv, NEW l \in Leases, Worker(l)
    PROVE  [Contract!Next]_(Contract!vars)
<1>1. CASE BeginWrite(l)
  <2>1. lease[l] \in {"Applying", "OutcomeUnknown"} /\ wrote[l] = 0
      BY <1>1 DEF BeginWrite, IInv, TypeOK, LeaseStates, LeaseInv, NoCall,
          CallInFlight, PreWrite
  <2>2. Contract!Write(l)
      BY <1>1, <2>1 DEF BeginWrite, IInv, TypeOK, LeaseInv, Contract!Write,
          clientVars
  <2> QED
      BY <2>2 DEF Contract!Next
<1>2. CASE ~BeginWrite(l)
  <2>1. UNCHANGED <<wrote, told>>
      BY <1>2 DEF Worker, Plan, RefuseEarly, TakeToken, TakeMismatch, TakeGone,
          StartFull, AnswerCheck, Replan, Lock, Revalidate, Refuse, EndWrite,
          CancelJob, Expire, WorkerExits, clientVars, workerVars
  <2> QED
      BY <2>1, QuietStep
<1> QED
    BY <1>1, <1>2

LEMMA NextContract ==
    ASSUME ResultsFit
    PROVE  IInv /\ [Next]_vars => [Contract!Next]_(Contract!vars)
<1> SUFFICES ASSUME IInv, [Next]_vars PROVE [Contract!Next]_(Contract!vars)
    OBVIOUS
<1>1. CASE Others \/ UNCHANGED vars
  <2>1. UNCHANGED <<wrote, told>>
      BY <1>1 DEF Others, Edit, OtherLocks, OtherWrites, OtherUnlocks, vars,
          clientVars, workerVars
  <2> QED
      BY <2>1, QuietStep
<1> QED
    BY <1>1, ClientContract, WorkerContract DEF Next

(* The client, the worker and the connection between them implement the    *)
(* contract of PasteOnce, as long as results fit a frame.                  *)
THEOREM Refinement ==
    ASSUME ResultsFit
    PROVE  Spec => ImplementsPasteOnce
BY InitContract, NextContract, Invariance, PTL
   DEF Spec, ImplementsPasteOnce, Contract!Spec
=============================================================================
