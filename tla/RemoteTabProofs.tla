--------------------------- MODULE RemoteTabProofs ---------------------------
(***************************************************************************)
(* Proofs about RemoteTab, for any folders and any bounds.                 *)
(***************************************************************************)
EXTENDS RemoteTab, TLAPS

USE RetriesAssumption, BoundsAssumption

(* TypeOK by the parts that change together.                               *)
RestoreType ==
    /\ restoring \in BOOLEAN
    /\ failed \in {"no", "retryable", "final"}
    /\ attempt \in Nat /\ attempts \in Nat /\ openSeq \in Nat
    /\ timers \subseteq Nat
    /\ flight \in Opens \cup {None}

ScanType ==
    /\ scan \in Scans \cup {None}
    /\ recovery \in Recoveries \cup {None}
    /\ late \in BOOLEAN /\ loading \in BOOLEAN /\ error \in BOOLEAN
    /\ limited \subseteq Deep

TabType ==
    /\ gone \in BOOLEAN
    /\ phase \in Places \cup {"idle", "quit", "close"}
    /\ quit \in {"no", "waits", "drained"}
    /\ shown \in Places \cup {"none"}
    /\ acts \in Nat

LEMMA TypeParts == TypeOK <=> RestoreType /\ ScanType /\ TabType
BY DEF TypeOK, RestoreType, ScanType, TabType

LEMMA NoneIsNoRecord ==
    /\ \A f \in Opens : f # None
    /\ \A s \in Scans : s # None
    /\ \A r \in Recoveries : r # None
BY DEF Opens, Scans, Recoveries, None

(***************************************************************************)
(* Opens.                                                                  *)
(***************************************************************************)
LEMMA OpenPathKeeps ==
    ASSUME RestoreType, NEW place \in Places, OpenPath(place)
    PROVE  /\ openSeq' = openSeq + 1 /\ openSeq' \in Nat
           /\ flight' \in Opens /\ flight' # None
           /\ flight'.seq = openSeq + 1 /\ flight'.place = place
BY NoneIsNoRecord DEF OpenPath, Opens, RestoreType

LEMMA AttemptKeeps ==
    ASSUME RestoreType, OpensInv, NEW ts \in SUBSET Nat, Attempt(ts)
    PROVE  RestoreType' /\ OpensInv'
<1>1. attempts' \in Nat /\ restoring' = restoring
    BY DEF Attempt, RestoreType
<1>2. CASE OpenPath("saved") /\ attempt' = openSeq + 1 /\ timers' = ts
            /\ UNCHANGED failed
  <2>1. /\ openSeq' = openSeq + 1 /\ flight' \in Opens
        /\ flight'.seq = openSeq + 1 /\ flight'.place = "saved"
      BY <1>2, OpenPathKeeps DEF Places
  <2> QED
      BY <1>1, <1>2, <2>1 DEF RestoreType, OpensInv, Busy
<1>3. CASE /\ failed' = "retryable" /\ attempt' = 0
           /\ timers' = ts \cup {attempts + 1} /\ flight' = None
           /\ UNCHANGED openSeq
    BY <1>1, <1>3 DEF RestoreType, OpensInv, Busy
<1> QED
    BY <1>2, <1>3 DEF Attempt

(* What is in flight is dropped, left, or the restore's next attempt.      *)
LEMMA ResumeRestoreKeeps ==
    ASSUME RestoreType, OpensInv, NEW fl \in {flight, None}, NEW ph,
           ResumeRestore(fl, ph)
    PROVE  /\ RestoreType' /\ OpensInv'
           /\ ph # "idle" => flight' = fl /\ openSeq' = openSeq
<1>1. CASE fl = None /\ ph = "idle" /\ Interrupted
  <2>1. Attempt(timers) /\ timers \in SUBSET Nat
      BY <1>1 DEF ResumeRestore, RestoreType
  <2> QED
      BY <1>1, <2>1, AttemptKeeps
<1>2. CASE ~(fl = None /\ ph = "idle" /\ Interrupted)
  <2>1. flight' = fl /\ UNCHANGED <<restore, openSeq>>
      BY <1>2 DEF ResumeRestore
  <2> QED
      BY <2>1 DEF restore, RestoreType, OpensInv, Busy
<1> QED
    BY <1>1, <1>2

(***************************************************************************)
(* Scans.                                                                  *)
(***************************************************************************)
LEMMA LaunchKeeps ==
    ASSUME ScanType, NEW under \in Unders, NEW retries \in 0..MaxRetries,
           NEW older \in BOOLEAN, Launch(under, retries, older),
           limited' \subseteq Deep
    PROVE  ScanType' /\ ScanInv' /\ scan' # None
<1>1. scan' \in Scans /\ scan'.at = "reads"
    BY DEF Launch, Scans
<1>2. recovery' \in Recoveries
    BY DEF Launch, Recoveries
<1>3. late' \in BOOLEAN /\ loading' = TRUE /\ error' \in BOOLEAN
    BY DEF Launch, ScanType
<1> QED
    BY <1>1, <1>2, <1>3, NoneIsNoRecord DEF ScanType, ScanInv

LEMMA ResumeScanKeeps ==
    ASSUME ScanType, ScanInv, NEW ph, ResumeScan(ph)
    PROVE  /\ ScanType' /\ ScanInv'
           /\ shown # "none" /\ ph = "idle" /\ recovery' # None => scan' # None
           /\ scan # None => scan' # None
<1>1. CASE shown # "none" /\ ph = "idle" /\ scan = None /\ recovery # None
  <2>1. Launch(recovery.under, recovery.retries, late) /\ UNCHANGED limited
      BY <1>1 DEF ResumeScan
  <2>2. recovery.under \in Unders /\ recovery.retries \in 0..MaxRetries
      BY <1>1 DEF ScanType, Recoveries
  <2> QED
      BY <2>1, <2>2, LaunchKeeps DEF ScanType
<1>2. CASE ~(shown # "none" /\ ph = "idle" /\ scan = None /\ recovery # None)
  <2>1. UNCHANGED scans
      BY <1>2 DEF ResumeScan
  <2> QED
      BY <1>2, <2>1 DEF scans, ScanType, ScanInv
<1> QED
    BY <1>1, <1>2

LEMMA OutdateKeeps ==
    ASSUME RestoreType, ScanType, ScanInv, Outdate
    PROVE  /\ openSeq' = openSeq + 1 /\ openSeq' \in Nat
           /\ ScanType' /\ ScanInv'
BY DEF Outdate, RestoreType, ScanType, ScanInv

(* A request for a drain: after it whatever is in flight is outdated.      *)
LEMMA RequestKeeps ==
    ASSUME IInv, NEW intent \in Places \cup {"quit", "close"}, Request(intent)
    PROVE  /\ openSeq' \in Nat /\ openSeq' >= openSeq
           /\ ~Draining => openSeq' > openSeq
           /\ ScanType' /\ ScanInv'
           /\ phase' \in {phase, intent} /\ phase' # "idle"
           /\ phase' \in Places \cup {"idle", "quit", "close"}
<1>1. RestoreType /\ ScanType /\ TabType /\ ScanInv
    BY TypeParts DEF IInv
<1>2. /\ phase' \in {phase, intent} /\ phase' # "idle"
      /\ phase' \in Places \cup {"idle", "quit", "close"}
    BY <1>1 DEF Request, TabType, Places
<1>3. CASE Draining
  <2>1. UNCHANGED <<openSeq, scans>>
      BY <1>3 DEF Request
  <2> QED
      BY <1>1, <1>2, <1>3, <2>1 DEF scans, RestoreType, ScanType, ScanInv
<1>4. CASE ~Draining
  <2>1. Outdate
      BY <1>4 DEF Request
  <2>2. openSeq' > openSeq
      BY <1>1, <2>1, OutdateKeeps DEF RestoreType
  <2> QED
      BY <1>1, <1>2, <2>1, <2>2, OutdateKeeps DEF RestoreType
<1> QED
    BY <1>3, <1>4

(***************************************************************************)
(* What a step leaves alone.                                               *)
(***************************************************************************)
LEMMA ActsCounted == ASSUME TabType, Act \/ Quiet PROVE acts' \in Nat
BY DEF Act, Quiet, TabType

LEMMA ScansKept ==
    ASSUME IInv, Act \/ Quiet, UNCHANGED <<window, phase, shown, scans>>
    PROVE  ScanType' /\ TabType' /\ ScanInv' /\ RestInv' /\ ShowsItsFolder'
<1>1. ScanType /\ TabType /\ ScanInv /\ RestInv /\ ShowsItsFolder
    BY TypeParts DEF IInv
<1>2. ScanType' /\ ScanInv'
    BY <1>1 DEF ScanType, ScanInv, scans
<1>3. TabType'
    BY <1>1, ActsCounted DEF TabType, window
<1>4. RestInv' /\ ShowsItsFolder'
    BY <1>1 DEF RestInv, ShowsItsFolder, Draining, window, scans
<1> QED
    BY <1>2, <1>3, <1>4

LEMMA RestoresKept ==
    ASSUME IInv, UNCHANGED <<phase, restore, openSeq, flight>>
    PROVE  RestoreType' /\ OpensInv' /\ DrainInv'
<1>1. RestoreType /\ OpensInv /\ DrainInv
    BY TypeParts DEF IInv
<1> QED
    BY <1>1 DEF RestoreType, OpensInv, DrainInv, Busy, Draining, restore

LEMMA Together ==
    ASSUME RestoreType', ScanType', TabType', OpensInv', DrainInv', ScanInv',
           RestInv', ShowsItsFolder'
    PROVE  IInv'
BY DEF IInv, TypeOK, RestoreType, ScanType, TabType

LEMMA InitIInv == Init => IInv
<1> SUFFICES ASSUME Init PROVE IInv
    OBVIOUS
<1>1. RestoreType /\ OpensInv
    BY DEF Init, RestoreType, OpensInv, Opens, Places, Busy, None
<1>2. ScanType /\ TabType /\ ScanInv
    BY DEF Init, ScanType, TabType, ScanInv
<1>3. DrainInv /\ RestInv /\ ShowsItsFolder
    BY DEF Init, DrainInv, RestInv, ShowsItsFolder, Draining
<1> QED
    BY <1>1, <1>2, <1>3, TypeParts DEF IInv

(***************************************************************************)
(* The steps.                                                              *)
(***************************************************************************)
(* A reconnect or another open starts only in a tab that does not drain.   *)
LEMMA StartsIInv ==
    ASSUME IInv,
           \/ \E k \in timers : TimerFires(k)
           \/ RetryNow
           \/ \E place \in Places : UserOpens(place)
    PROVE  IInv'
<1>1. RestoreType /\ OpensInv /\ DrainInv
    BY TypeParts DEF IInv
<1>2. (Act \/ Quiet) /\ UNCHANGED <<window, phase, shown, scans>>
    BY DEF TimerFires, RetryNow, UserOpens
<1>3. RestoreType' /\ OpensInv' /\ DrainInv'
  <2>1. CASE RetryNow
    <3>1. ~Draining /\ Attempt(timers) /\ timers \in SUBSET Nat
        BY <2>1, <1>1 DEF RetryNow, RestoreType
    <3> QED
        BY <1>1, <1>2, <3>1, AttemptKeeps DEF DrainInv, Draining
  <2>2. CASE \E k \in timers : TimerFires(k)
    <3>1. PICK k \in timers : TimerFires(k)
        BY <2>2
    <3>2. CASE Due(k)
      <4>1. /\ ~Draining /\ Attempt(timers \ {k})
            /\ timers \ {k} \in SUBSET Nat
          BY <1>1, <3>1, <3>2 DEF TimerFires, RestoreType
      <4> QED
          BY <1>1, <1>2, <4>1, AttemptKeeps DEF DrainInv, Draining
    <3>3. CASE ~Due(k)
      <4>1. /\ timers' = timers \ {k}
            /\ UNCHANGED <<restoring, failed, attempt, attempts, openSeq, flight>>
          BY <3>1, <3>3 DEF TimerFires
      <4> QED
          BY <1>1, <1>2, <4>1 DEF RestoreType, OpensInv, DrainInv, Busy, Draining
    <3> QED
        BY <3>2, <3>3
  <2>3. CASE \E place \in Places : UserOpens(place)
    <3>1. PICK place \in Places : UserOpens(place)
        BY <2>3
    <3>2. /\ openSeq' = openSeq + 1 /\ openSeq' \in Nat
          /\ flight' \in Opens /\ flight'.seq = openSeq + 1
        BY <1>1, <3>1, OpenPathKeeps DEF UserOpens
    <3>3. ~Draining /\ UNCHANGED restore
        BY <3>1 DEF UserOpens
    <3>4. RestoreType'
        BY <1>1, <3>2, <3>3 DEF RestoreType, restore
    <3>5. OpensInv'
        BY <1>1, <3>2, <3>3 DEF OpensInv, RestoreType, Busy, restore
    <3> QED
        BY <1>2, <3>3, <3>4, <3>5 DEF DrainInv, Draining
  <2> QED
      BY <2>1, <2>2, <2>3
<1> QED
    BY <1>2, <1>3, ScansKept, Together

(* The requests of the user and of the window.                             *)
LEMMA RequestIInv ==
    ASSUME IInv, NEW intent \in Places \cup {"quit", "close"},
           Request(intent), intent # "other", Act \/ Quiet,
           gone' \in BOOLEAN, quit' \in {"no", "waits", "drained"},
           UNCHANGED <<shown, restore>>, flight' \in {flight, None}
    PROVE  IInv'
<1>1. RestoreType /\ TabType /\ OpensInv /\ DrainInv /\ ShowsItsFolder
    BY TypeParts DEF IInv
<1>2. /\ openSeq' \in Nat /\ openSeq' >= openSeq
      /\ ~Draining => openSeq' > openSeq
      /\ ScanType' /\ ScanInv'
      /\ phase' \in {phase, intent} /\ phase' # "idle"
      /\ phase' \in Places \cup {"idle", "quit", "close"}
    BY RequestKeeps
<1>3. Busy' => Busy /\ flight' = flight /\ flight.seq \in Nat
    BY <1>1 DEF Busy, RestoreType, Opens
<1>4. RestoreType'
    BY <1>1, <1>2 DEF RestoreType, restore
<1>5. OpensInv'
    BY <1>1, <1>2, <1>3 DEF OpensInv, RestoreType, restore
<1>6. DrainInv'
    BY <1>1, <1>2, <1>3 DEF DrainInv, OpensInv, RestoreType
<1>7. TabType'
    BY <1>1, <1>2, ActsCounted DEF TabType
<1>8. RestInv' /\ ShowsItsFolder'
    BY <1>1, <1>2 DEF RestInv, ShowsItsFolder, Draining
<1> QED
    BY <1>2, <1>4, <1>5, <1>6, <1>7, <1>8, Together

LEMMA AsksIInv ==
    ASSUME IInv, CloseTab \/ BeginQuit
    PROVE  IInv'
<1>1. TabType
    BY TypeParts DEF IInv
<1>2. CASE CloseTab
    BY <1>1, <1>2, RequestIInv DEF CloseTab, TabType, window
<1>3. CASE BeginQuit
    BY <1>1, <1>3, RequestIInv DEF BeginQuit, TabType
<1> QED
    BY <1>2, <1>3

LEMMA LandedIInv ==
    ASSUME IInv, Landed
    PROVE  IInv'
<1>1. RestoreType /\ TabType /\ OpensInv /\ DrainInv
    BY TypeParts DEF IInv
<1>2. CASE StaleLands
  <2>1. /\ ResumeRestore(None, phase) /\ Quiet
        /\ UNCHANGED <<window, phase, shown, scans>>
      BY <1>2 DEF StaleLands
  <2>2. /\ RestoreType' /\ OpensInv'
        /\ phase # "idle" => flight' = None
      BY <1>1, <2>1, ResumeRestoreKeeps
  <2>3. DrainInv'
      BY <2>1, <2>2 DEF DrainInv, Draining, Busy
  <2> QED
      BY <2>1, <2>2, <2>3, ScansKept, Together
<1>3. CASE Opened
  <2>1. CASE IsRestore
    <3>1. flight.place = "saved" /\ flight.place \in Places \cup {"quit", "close"}
        BY <1>1, <1>3, <2>1 DEF Opened, Lands, IsRestore, OpensInv, Places
    <3>2. /\ Request(flight.place) /\ Quiet /\ flight' = None
          /\ UNCHANGED <<window, shown, restore>>
        BY <1>3, <2>1 DEF Opened, Lands
    <3> QED
        BY <1>1, <3>1, <3>2, RequestIInv DEF TabType, window
  <2>2. CASE ~IsRestore
    <3>1. /\ flight' = None /\ Quiet
          /\ UNCHANGED <<window, phase, shown, restore, openSeq, scans>>
        BY <1>3, <2>2 DEF Opened, Lands
    <3>2. RestoreType' /\ OpensInv' /\ DrainInv'
        BY <1>1, <3>1 DEF RestoreType, OpensInv, DrainInv, Busy, restore
    <3> QED
        BY <3>1, <3>2, ScansKept, Together
  <2> QED
      BY <2>1, <2>2
<1>4. CASE \E how \in {"retryable", "final"} : OpenFails(how)
  <2>1. PICK how \in {"retryable", "final"} : OpenFails(how)
      BY <1>4
  <2>2. /\ flight' = None /\ Quiet
        /\ UNCHANGED <<window, phase, shown, openSeq, scans>>
      BY <2>1 DEF OpenFails, Lands
  <2>3. RestoreType' /\ OpensInv' /\ DrainInv'
    <3>1. CASE IsRestore
      <4>1. /\ failed' = how /\ attempt' = 0
            /\ timers' \in {timers, timers \cup {attempts}}
            /\ UNCHANGED <<restoring, attempts>>
          BY <2>1, <3>1 DEF OpenFails
      <4> QED
          BY <1>1, <2>2, <4>1 DEF RestoreType, OpensInv, DrainInv, Busy
    <3>2. CASE ~IsRestore
        BY <1>1, <2>1, <2>2, <3>2 DEF OpenFails, RestoreType, OpensInv,
           DrainInv, Busy, restore
    <3> QED
        BY <3>1, <3>2
  <2> QED
      BY <2>2, <2>3, ScansKept, Together
<1> QED
    BY <1>2, <1>3, <1>4 DEF Landed

(* The window goes, with the tab as it is.                                 *)
LEMMA EndsIInv ==
    ASSUME IInv, CloseAtOnce \/ FinishClose \/ Exits
    PROVE  IInv'
<1>1. /\ gone' = TRUE /\ Quiet
      /\ UNCHANGED <<quit, phase, shown, restore, openSeq, flight, scans>>
    BY DEF CloseAtOnce, FinishClose, Exits
<1>2. TabType /\ ScanType /\ ScanInv /\ RestInv /\ ShowsItsFolder
    BY TypeParts DEF IInv
<1>3. TabType'
    BY <1>1, <1>2, ActsCounted DEF TabType
<1>4. ScanType' /\ ScanInv'
    BY <1>1, <1>2 DEF ScanType, ScanInv, scans
<1>5. RestInv' /\ ShowsItsFolder'
    BY <1>1, <1>2 DEF RestInv, ShowsItsFolder, Draining, scans
<1> QED
    BY <1>1, <1>3, <1>4, <1>5, RestoresKept, Together

(* The scan reads, fails, waits, is read again, or an outdated one ends.   *)
LEMMA ScanIInv ==
    ASSUME IInv,
           \/ ScanSteps
           \/ Refresh
           \/ \E folder \in Deep : Continue(folder)
    PROVE  IInv'
<1>1. RestoreType /\ ScanType /\ TabType /\ ScanInv /\ RestInv /\ ShowsItsFolder
    BY TypeParts DEF IInv
<1>2. /\ Act \/ Quiet
      /\ UNCHANGED <<window, phase, shown, restore, openSeq, flight>>
    BY DEF ScanSteps, ScanLands, ScanFails, RetryScan, LateEnds, Refresh, Continue
<1>3. TabType' /\ ShowsItsFolder'
    BY <1>1, <1>2, ActsCounted DEF TabType, ShowsItsFolder, window
<1>4. ASSUME ScanType', ScanInv', scan' # None
      PROVE  ScanType' /\ ScanInv' /\ RestInv'
    BY <1>4 DEF RestInv
<1>5. ScanType' /\ ScanInv' /\ RestInv'
  <2>1. CASE ScanLands
    <3>1. /\ scan' = None /\ recovery' = None
          /\ loading' = FALSE /\ error' = FALSE /\ late' = late
        BY <2>1 DEF ScanLands
    <3>2. limited' \subseteq Deep
        BY <1>1, <2>1 DEF ScanLands, ScanType
    <3> QED
        BY <1>1, <3>1, <3>2 DEF ScanType, ScanInv, RestInv
  <2>2. CASE \E transient \in BOOLEAN : ScanFails(transient)
    <3>1. PICK transient \in BOOLEAN : ScanFails(transient)
        BY <2>2
    <3>2. /\ scan # None /\ scan \in Scans
          /\ loading' = FALSE /\ error' = TRUE /\ UNCHANGED <<late, limited>>
        BY <1>1, <3>1 DEF ScanFails, ScanType
    <3>3. CASE transient /\ scan.retries < MaxRetries
      <4>1. scan' = [scan EXCEPT !.at = "waits"] /\ recovery' = recovery
          BY <3>1, <3>3 DEF ScanFails
      <4>2. /\ scan' \in Scans /\ scan'.at = "waits"
            /\ scan'.retries < MaxRetries
          BY <3>2, <3>3, <4>1 DEF Scans
      <4> QED
          BY <1>1, <1>4, <3>2, <4>1, <4>2, NoneIsNoRecord DEF ScanType, ScanInv
    <3>4. CASE ~(transient /\ scan.retries < MaxRetries)
      <4>1. scan' = None /\ recovery' = None
          BY <3>1, <3>4 DEF ScanFails
      <4> QED
          BY <1>1, <3>2, <4>1 DEF ScanType, ScanInv, RestInv
    <3> QED
        BY <3>3, <3>4
  <2>3. CASE RetryScan
    <3>1. /\ scan # None /\ scan.at = "waits" /\ scan \in Scans
          /\ Launch(scan.under, scan.retries + 1, late) /\ UNCHANGED limited
        BY <1>1, <2>3 DEF RetryScan, ScanType
    <3>2. scan.under \in Unders /\ scan.retries + 1 \in 0..MaxRetries
        BY <1>1, <3>1 DEF Scans, ScanInv
    <3> QED
        BY <1>1, <1>4, <3>1, <3>2, LaunchKeeps DEF ScanType
  <2>4. CASE LateEnds
      BY <1>1, <1>2, <2>4 DEF LateEnds, ScanType, ScanInv, RestInv, Draining, window
  <2>5. CASE Refresh
    <3>1. Launch("all", 0, late \/ scan # None) /\ limited' = {}
        BY <2>5 DEF Refresh
    <3>2. "all" \in Unders /\ 0 \in 0..MaxRetries
          /\ (late \/ scan # None) \in BOOLEAN
        BY DEF Unders
    <3> QED
        BY <1>1, <1>4, <3>1, <3>2, LaunchKeeps
  <2>6. CASE \E folder \in Deep : Continue(folder)
    <3>1. PICK folder \in Deep : Continue(folder)
        BY <2>6
    <3>2. /\ Launch(folder, 0, late \/ scan # None)
          /\ limited' \subseteq Deep
        BY <1>1, <3>1 DEF Continue, ScanType
    <3>3. folder \in Unders /\ 0 \in 0..MaxRetries
          /\ (late \/ scan # None) \in BOOLEAN
        BY DEF Unders
    <3> QED
        BY <1>1, <1>4, <3>2, <3>3, LaunchKeeps
  <2> QED
      BY <2>1, <2>2, <2>3, <2>4, <2>5, <2>6 DEF ScanSteps
<1> QED
    BY <1>2, <1>3, <1>5, RestoresKept, Together

(* A drain ends, or a quit stops.                                          *)
LEMMA ResumeKeeps ==
    ASSUME IInv, NEW ph, Resume(ph)
    PROVE  /\ RestoreType' /\ OpensInv' /\ ScanType' /\ ScanInv'
           /\ ph # "idle" => flight' = flight /\ openSeq' = openSeq
           /\ shown # "none" /\ ph = "idle" /\ recovery' # None => scan' # None
<1>1. RestoreType /\ ScanType /\ OpensInv /\ ScanInv
    BY TypeParts DEF IInv
<1>2. ResumeRestore(flight, ph) /\ ResumeScan(ph)
    BY DEF Resume
<1> QED
    BY <1>1, <1>2, ResumeRestoreKeeps, ResumeScanKeeps

LEMMA DrainEndsIInv ==
    ASSUME IInv, FinishOpen \/ FinishQuit \/ DrainFails
    PROVE  IInv'
<1>1. /\ RestoreType /\ ScanType /\ TabType /\ OpensInv /\ DrainInv
      /\ ScanInv /\ RestInv /\ ShowsItsFolder
    BY TypeParts DEF IInv
<1>2. Quiet /\ gone' = gone /\ phase' = "idle" /\ quit' \in {"no", "waits", "drained"}
    BY <1>1 DEF FinishOpen, FinishQuit, DrainFails, window, TabType
<1>3. DrainInv'
    BY <1>2 DEF DrainInv, Draining
<1>4. CASE FinishOpen
  <2>1. /\ phase \in Places /\ shown' = phase /\ restoring' = FALSE
        /\ Launch("all", 0, FALSE) /\ limited' = {}
        /\ UNCHANGED <<failed, attempt, attempts, timers, openSeq, flight>>
      BY <1>4 DEF FinishOpen
  <2>2. ScanType' /\ ScanInv' /\ scan' # None
    <3>1. "all" \in Unders /\ 0 \in 0..MaxRetries /\ limited' \subseteq Deep
        BY <2>1 DEF Unders
    <3> QED
        BY <1>1, <2>1, <3>1, LaunchKeeps
  <2>3. RestoreType' /\ OpensInv'
      BY <1>1, <2>1 DEF RestoreType, OpensInv, Busy
  <2>4. TabType' /\ RestInv' /\ ShowsItsFolder'
      BY <1>1, <1>2, <2>1, <2>2, ActsCounted
         DEF TabType, RestInv, ShowsItsFolder, Places
  <2> QED
      BY <1>3, <2>2, <2>3, <2>4, Together
<1>5. CASE FinishQuit \/ DrainFails
  <2>1. shown' = shown
      BY <1>5 DEF FinishQuit, DrainFails
  <2>2. TabType' /\ ShowsItsFolder'
      BY <1>1, <1>2, <2>1, ActsCounted DEF TabType, ShowsItsFolder
  <2>3. CASE FinishQuit /\ quit = "waits"
    <3>1. quit' = "drained" /\ UNCHANGED <<restore, openSeq, flight, scans>>
        BY <2>3 DEF FinishQuit
    <3>2. RestoreType' /\ OpensInv'
        BY <1>1, <3>1 DEF RestoreType, OpensInv, Busy, restore
    <3>3. ScanType' /\ ScanInv' /\ RestInv'
        BY <1>1, <3>1 DEF ScanType, ScanInv, RestInv, scans
    <3> QED
        BY <1>3, <2>2, <3>2, <3>3, Together
  <2>4. CASE DrainFails \/ (FinishQuit /\ quit # "waits")
    <3>1. Resume("idle")
        BY <2>4 DEF DrainFails, FinishQuit
    <3>2. /\ RestoreType' /\ OpensInv' /\ ScanType' /\ ScanInv'
          /\ shown # "none" /\ recovery' # None => scan' # None
        BY <3>1, ResumeKeeps
    <3>3. RestInv'
        BY <2>1, <3>2 DEF RestInv
    <3> QED
        BY <1>3, <2>2, <3>2, <3>3, Together
  <2> QED
      BY <1>5, <2>3, <2>4
<1> QED
    BY <1>4, <1>5

LEMMA StopsIInv ==
    ASSUME IInv, QuitStops
    PROVE  IInv'
<1>1. /\ RestoreType /\ ScanType /\ TabType /\ OpensInv /\ DrainInv
      /\ ScanInv /\ RestInv /\ ShowsItsFolder
    BY TypeParts DEF IInv
<1>2. Quiet /\ quit # "no" /\ quit' = "no" /\ UNCHANGED <<gone, phase, shown>>
    BY DEF QuitStops
<1>3. TabType' /\ ShowsItsFolder'
    BY <1>1, <1>2, ActsCounted DEF TabType, ShowsItsFolder
<1>4. CASE quit = "drained"
  <2>1. Resume(phase)
      BY <1>4 DEF QuitStops
  <2>2. /\ RestoreType' /\ OpensInv' /\ ScanType' /\ ScanInv'
        /\ phase # "idle" => flight' = flight /\ openSeq' = openSeq
        /\ shown # "none" /\ phase = "idle" /\ recovery' # None => scan' # None
      BY <2>1, ResumeKeeps
  <2>3. DrainInv' /\ RestInv'
      BY <1>1, <1>2, <2>2 DEF DrainInv, RestInv, Draining, Busy
  <2> QED
      BY <1>3, <2>2, <2>3, Together
<1>5. CASE quit # "drained"
  <2>1. UNCHANGED <<restore, openSeq, flight, scans>>
      BY <1>5 DEF QuitStops
  <2>2. ScanType' /\ ScanInv' /\ RestInv'
      BY <1>1, <1>2, <1>5, <2>1 DEF ScanType, ScanInv, RestInv, Draining, scans
  <2> QED
      BY <1>2, <1>3, <2>1, <2>2, RestoresKept, Together
<1> QED
    BY <1>4, <1>5

LEMMA NextIInv == IInv /\ [Next]_vars => IInv'
<1> SUFFICES ASSUME IInv, [Next]_vars PROVE IInv'
    OBVIOUS
<1>1. CASE UNCHANGED vars
    BY <1>1 DEF vars, window, restore, scans, IInv, TypeOK, OpensInv, DrainInv,
       ScanInv, RestInv, ShowsItsFolder, Busy, Draining
<1>2. CASE Next
  <2>1. CASE \/ \E k \in timers : TimerFires(k)
             \/ RetryNow
             \/ \E place \in Places : UserOpens(place)
      BY <2>1, StartsIInv
  <2>2. CASE CloseTab \/ BeginQuit
      BY <2>2, AsksIInv
  <2>3. CASE Landed
      BY <2>3, LandedIInv
  <2>4. CASE ScanSteps \/ Refresh \/ \E folder \in Deep : Continue(folder)
      BY <2>4, ScanIInv
  <2>5. CASE FinishOpen \/ FinishQuit \/ DrainFails
      BY <2>5, DrainEndsIInv
  <2>6. CASE CloseAtOnce \/ FinishClose \/ Exits
      BY <2>6, EndsIInv
  <2>7. CASE QuitStops
      BY <2>7, StopsIInv
  <2> QED
      BY <1>2, <2>1, <2>2, <2>3, <2>4, <2>5, <2>6, <2>7 DEF Next, Poll
<1> QED
    BY <1>1, <1>2

(***************************************************************************)
(* The results.                                                            *)
(***************************************************************************)
(* The inductive invariant holds in every reachable state, for any number  *)
(* of acts, attempts, scan retries and deep folders.                       *)
THEOREM Invariance == Spec => []IInv
BY InitIInv, NextIInv, PTL DEF Spec

(* Every variable keeps its type.                                          *)
THEOREM TypeCorrect == Spec => []TypeOK
<1>1. IInv => TypeOK
    BY DEF IInv
<1> QED
    BY <1>1, Invariance, PTL

(* A restored tab never shows, nor drains into, another folder than its    *)
(* own, whatever the user opens from it and however late answers land.     *)
THEOREM ShowsFolder == Spec => []ShowsItsFolder
<1>1. IInv => ShowsItsFolder
    BY DEF IInv
<1> QED
    BY <1>1, Invariance, PTL

(* A tab at rest has the scan its spinner and its recovery speak of.       *)
THEOREM ScansResume == Spec => []ScanResumes
<1>1. IInv => ScanResumes
    BY DEF IInv, ScanInv, RestInv, ScanResumes, Draining
<1> QED
    BY <1>1, Invariance, PTL

(* A tab that is being closed does not come to drain into a folder.        *)
THEOREM ClosedStays == Spec => ClosedStaysClosed
<1>1. ASSUME IInv, [Next]_vars, phase = "close"
      PROVE  phase' \notin Places
  <2>1. Draining
      BY <1>1 DEF Draining
  <2>2. RestoreType /\ DrainInv
      BY <1>1, TypeParts DEF IInv
  <2>3. Busy => flight.seq # openSeq
      BY <2>1, <2>2 DEF DrainInv, RestoreType, Opens, Busy
  <2>4. ~Opened
      BY <2>3 DEF Opened, Lands
  <2>5. phase' \in {"close", "idle", "quit"}
    <3>1. CASE CloseTab \/ BeginQuit
        BY <1>1, <3>1 DEF CloseTab, BeginQuit, Request
    <3>2. CASE ~(CloseTab \/ BeginQuit)
        BY <1>1, <2>4, <3>2 DEF Next, vars, TimerFires, RetryNow, UserOpens,
           CloseAtOnce, Landed, StaleLands, OpenFails, ScanSteps, ScanLands,
           ScanFails, RetryScan, LateEnds, Refresh, Continue, Poll, FinishOpen,
           FinishClose, FinishQuit, DrainFails, QuitStops, Exits, Places
    <3> QED
        BY <3>1, <3>2
  <2> QED
      BY <2>5 DEF Places
<1>2. IInv /\ [Next]_vars => [phase = "close" => phase' \notin Places]_vars
    BY <1>1
<1> QED
    BY <1>2, Invariance, PTL DEF Spec, ClosedStaysClosed
=============================================================================
