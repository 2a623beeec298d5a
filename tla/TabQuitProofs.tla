--------------------------- MODULE TabQuitProofs ----------------------------
(***************************************************************************)
(* Proofs about TabQuit, for any number of tabs.                           *)
(***************************************************************************)
EXTENDS TabQuit, TLAPS

USE TabsAssumption

LEMMA InitIInv == Init => IInv
<1> SUFFICES ASSUME Init PROVE IInv
    OBVIOUS
<1> open = [t \in Tabs |-> t \in InitialTabs]
    BY DEF Init
<1>1. /\ open \in [Tabs -> BOOLEAN]
      /\ \A t \in Tabs : open[t] <=> t \in InitialTabs
  <2>1. \A t \in Tabs : (t \in InitialTabs) \in BOOLEAN
      OBVIOUS
  <2>2. open \in [Tabs -> BOOLEAN]
      BY <2>1, Zenon
  <2>3. \A t \in Tabs : open[t] <=> t \in InitialTabs
      OBVIOUS
  <2> QED
      BY <2>2, <2>3
<1>2. TypeOK
    BY <1>1 DEF Init, TypeOK, Intents
<1>3. FreshInv /\ DecidedInv /\ WriteInv
    BY <1>1 DEF Init, FreshInv, DecidedInv, WriteInv
<1>4. WaitsForDrains /\ CancelledReadsReturn
    BY DEF Init, WaitsForDrains, CancelledReadsReturn
<1> QED
    BY <1>2, <1>3, <1>4 DEF IInv

(* Jobs leave the root and the phases alone.                               *)
LEMMA JobsIInv ==
    ASSUME IInv, NEW t \in Tabs,
           \/ StartRead(t) \/ ReadLands(t) \/ LateEnds(t)
           \/ Confirm(t) \/ WriteEnds(t) \/ GitStarts(t) \/ GitEnds(t)
    PROVE  IInv'
<1> USE DEF IInv
<1>1. UNCHANGED <<root, open, phase, stale>>
    BY DEF StartRead, ReadLands, LateEnds, Confirm, WriteEnds, GitStarts,
       GitEnds, work
<1>2. TypeOK'
  <2>1. CASE StartRead(t) \/ LateEnds(t) \/ GitStarts(t) \/ GitEnds(t)
      BY <1>1, <2>1 DEF StartRead, LateEnds, GitStarts, GitEnds, TypeOK, root,
         work
  <2>2. CASE ReadLands(t)
      BY <1>1, <2>2 DEF ReadLands, TypeOK, root
  <2>3. CASE Confirm(t)
      BY <1>1, <2>3 DEF Confirm, TypeOK, root
  <2>4. CASE WriteEnds(t)
      BY <1>1, <2>4 DEF WriteEnds, TypeOK, root, AcceptingWork
  <2> QED
      BY <2>1, <2>2, <2>3, <2>4
<1>3. DecidedInv' /\ WaitsForDrains' /\ CancelledReadsReturn'
    BY <1>1 DEF DecidedInv, WaitsForDrains, CancelledReadsReturn, root
<1>5. FreshInv'
  <2>1. t \in tabs \/ write' = write
      BY DEF StartRead, ReadLands, LateEnds, Confirm, WriteEnds, GitStarts,
         GitEnds, work
  <2>2. \A u \in Tabs : u # t => write'[u] = write[u]
      BY DEF StartRead, ReadLands, LateEnds, Confirm, WriteEnds, GitStarts,
         GitEnds, work, TypeOK
  <2> QED
      BY <1>1, <2>1, <2>2 DEF FreshInv, TypeOK, root
<1>4. WriteInv'
  <2>1. CASE StartRead(t) \/ LateEnds(t) \/ GitStarts(t) \/ GitEnds(t)
      BY <1>1, <2>1 DEF StartRead, LateEnds, GitStarts, GitEnds, WriteInv, root,
         work
  <2>2. CASE ReadLands(t)
      BY <1>1, <2>2 DEF ReadLands, WriteInv, TypeOK, root
  <2>3. CASE Confirm(t)
      BY <1>1, <2>3 DEF Confirm, WriteInv, TypeOK, root
  <2>4. CASE WriteEnds(t)
      BY <1>1, <2>4 DEF WriteEnds, WriteInv, TypeOK, root
  <2> QED
      BY <2>1, <2>2, <2>3, <2>4
<1> QED
    BY <1>2, <1>3, <1>4, <1>5

LEMMA RequestIInv ==
    ASSUME IInv, NEW t \in Tabs, NEW intent \in {"close", "open"},
           Request(t, intent)
    PROVE  IInv'
<1> USE DEF IInv
<1>1. /\ phase' = [phase EXCEPT ![t] = Requested(t, intent)]
      /\ Requested(t, intent) \in Intents
      /\ phase[t] = "quit" => Requested(t, intent) = "quit"
    BY DEF Request, Requested, Intents
<1>2. UNCHANGED <<root, leaked, open, plan, write, git>>
    BY DEF Request
<1>3. /\ late' \in [Tabs -> BOOLEAN] /\ read' \in [Tabs -> BOOLEAN]
      /\ stale' \in [Tabs -> BOOLEAN]
      /\ \A u \in Tabs : u # t => stale'[u] = stale[u]
    BY DEF Request, Outdate, TypeOK
<1>4. TypeOK'
    BY <1>1, <1>2, <1>3 DEF TypeOK, root
<1>5. FreshInv' /\ DecidedInv' /\ WriteInv'
    BY <1>2 DEF FreshInv, DecidedInv, WriteInv, root
<1>6. WaitsForDrains'
    BY <1>1, <1>2 DEF WaitsForDrains, TypeOK, root
<1>7. CancelledReadsReturn'
    BY <1>1, <1>2, <1>3 DEF CancelledReadsReturn, TypeOK, root, Intents
<1> QED
    BY <1>4, <1>5, <1>6, <1>7

(***************************************************************************)
(* The root's answers.  A tab whose drain is over was drained for the quit *)
(* or is resumed, if it has something to fetch again.                      *)
(***************************************************************************)
\* What the tabs ts show is current, is being drained, or waits with d.
Accounted(ts, d, ph) ==
    \A u \in ts : open[u] /\ stale[u] => ph[u] # "idle" \/ u \in d

LEMMA StopQuitKeeps ==
    ASSUME TypeOK, NEW ts \in SUBSET Tabs, NEW d \in SUBSET Tabs,
           NEW S \in SUBSET ts, NEW ph, StopQuit(ts, d, S, ph),
           Accounted(ts, d \cup S, ph)
    PROVE  /\ quitting' = FALSE /\ waiting' = {} /\ drained' = {}
           /\ quitSent' = quitSent
           /\ read' \in [Tabs -> BOOLEAN] /\ stale' \in [Tabs -> BOOLEAN]
           /\ \A u \in ts : open[u] /\ stale'[u] => ph[u] # "idle"
<1>1. /\ quitting' = FALSE /\ waiting' = {} /\ drained' = {}
      /\ quitSent' = quitSent
    BY DEF StopQuit
<1> DEFINE again == {t \in (d \cap ts) \cup S : open[t] /\ ph[t] = "idle"}
<1>2. /\ stale' = [t \in Tabs |-> stale[t] /\ t \notin again]
      /\ read' = [t \in Tabs |-> read[t] \/ t \in again]
    BY DEF StopQuit, Resume
<1>3. read' \in [Tabs -> BOOLEAN] /\ stale' \in [Tabs -> BOOLEAN]
  <2> HIDE DEF again
  <2> QED
      BY <1>2, Zenon
<1>4. \A u \in ts : stale'[u] => stale[u] /\ u \notin again
  <2> HIDE DEF again
  <2> QED
      BY <1>2
<1>5. \A u \in ts : open[u] /\ stale'[u] => ph[u] # "idle"
    BY <1>4 DEF Accounted
<1> QED
    BY <1>1, <1>3, <1>5

LEMMA MaybeQuitKeeps ==
    ASSUME TypeOK, quitting, NEW ts \in SUBSET Tabs, NEW w \in SUBSET Tabs,
           NEW d \in SUBSET Tabs, NEW ph, MaybeQuit(ts, w, d, ph),
           Accounted(ts, d, ph)
    PROVE  /\ quitting' \in BOOLEAN /\ quitSent' \in BOOLEAN
           /\ waiting' \subseteq w /\ drained' \subseteq Tabs
           /\ read' \in [Tabs -> BOOLEAN] /\ stale' \in [Tabs -> BOOLEAN]
           /\ ~quitting' => waiting' = {}
           /\ quitting' /\ waiting' = {} => quitSent'
           /\ \A u \in ts : open[u] /\ stale'[u] =>
                ph[u] # "idle" \/ (quitting' /\ u \in drained')
<1>1. CASE w # {} /\ KeepQuit(w, d)
    BY <1>1 DEF KeepQuit, TypeOK, Accounted
<1>2. CASE StopQuit(ts, d, {}, ph)
  <2>1. d \cup {} = d /\ {} \in SUBSET ts
      OBVIOUS
  <2>2. Accounted(ts, d \cup {}, ph)
      BY <2>1
  <2>3. /\ quitting' = FALSE /\ waiting' = {} /\ drained' = {}
        /\ quitSent' = quitSent
        /\ read' \in [Tabs -> BOOLEAN] /\ stale' \in [Tabs -> BOOLEAN]
        /\ \A u \in ts : open[u] /\ stale'[u] => ph[u] # "idle"
      BY <1>2, <2>1, <2>2, StopQuitKeeps
  <2> QED
      BY <2>3 DEF TypeOK
<1>3. CASE /\ quitting' = TRUE /\ waiting' = {} /\ drained' = d
           /\ quitSent' = TRUE
           /\ UNCHANGED <<stale, read>>
    BY <1>3 DEF TypeOK, Accounted
<1> QED
    BY <1>1, <1>2, <1>3 DEF MaybeQuit

\* resume_after_drain of one tab.
LEMMA ResumeKeeps ==
    ASSUME TypeOK, NEW t \in Tabs, NEW ph, Resume({t}, ph)
    PROVE  /\ read' \in [Tabs -> BOOLEAN] /\ stale' \in [Tabs -> BOOLEAN]
           /\ \A u \in Tabs : stale'[u] => stale[u]
           /\ open[t] /\ stale'[t] => ph[t] # "idle"
<1> DEFINE again == {u \in {t} : open[u] /\ ph[u] = "idle"}
<1>1. /\ stale' = [u \in Tabs |-> stale[u] /\ u \notin again]
      /\ read' = [u \in Tabs |-> read[u] \/ u \in again]
    BY DEF Resume
<1>2. /\ read' \in [Tabs -> BOOLEAN] /\ stale' \in [Tabs -> BOOLEAN]
      /\ \A u \in Tabs : stale'[u] => stale[u] /\ u \notin again
  <2> HIDE DEF again
  <2> QED
      BY <1>1, Zenon
<1> QED
    BY <1>2

\* A tab goes: closed when it is empty, or after its drain.
LEMMA RemoveTabKeeps ==
    ASSUME IInv, NEW t \in tabs, phase[t] # "quit", RemoveTab(t),
           \A u \in tabs : u # t => phase'[u] = phase[u]
    PROVE  /\ tabs' = tabs \ {t} /\ fresh' = fresh /\ ended' = ended
           /\ quitting' \in BOOLEAN /\ quitSent' \in BOOLEAN
           /\ waiting' \subseteq waiting /\ t \notin waiting
           /\ drained' \subseteq Tabs
           /\ read' \in [Tabs -> BOOLEAN] /\ stale' \in [Tabs -> BOOLEAN]
           /\ ~quitting' => waiting' = {}
           /\ quitting' /\ waiting' = {} => quitSent'
           /\ \A u \in tabs' : open[u] /\ stale'[u] =>
                phase'[u] # "idle" \/ (quitting' /\ u \in drained')
<1> USE DEF IInv
<1>1. tabs' = tabs \ {t} /\ fresh' = fresh /\ ended' = ended
    BY DEF RemoveTab
<1>2. t \notin waiting /\ waiting \subseteq Tabs /\ drained \subseteq Tabs
      /\ tabs \subseteq Tabs /\ TypeOK
    BY DEF WaitsForDrains, TypeOK
<1>3. CASE quitting
  <2>1. MaybeQuit(tabs \ {t}, waiting \ {t}, drained, phase')
      BY <1>3 DEF RemoveTab
  <2>2. Accounted(tabs \ {t}, drained, phase')
      BY DEF Accounted, CancelledReadsReturn
  <2>3. /\ tabs \ {t} \in SUBSET Tabs /\ waiting \ {t} \in SUBSET Tabs
        /\ drained \in SUBSET Tabs
      BY <1>2
  <2> QED
      BY <1>1, <1>2, <1>3, <2>1, <2>2, <2>3, MaybeQuitKeeps
<1>4. CASE ~quitting
  <2>1. UNCHANGED <<quitting, waiting, drained, quitSent, stale, read>>
      BY <1>4 DEF RemoveTab, KeepQuit
  <2> QED
      BY <1>1, <1>2, <1>4, <2>1
         DEF TypeOK, WaitsForDrains, CancelledReadsReturn
<1> QED
    BY <1>3, <1>4

(***************************************************************************)
(* The other actions.                                                      *)
(***************************************************************************)
LEMMA NewTabIInv ==
    ASSUME IInv, NEW t \in Tabs, NewTab(t)
    PROVE  IInv'
<1> USE DEF IInv, NewTab, work
<1>1. TypeOK'
    BY DEF TypeOK
<1>2. FreshInv' /\ DecidedInv' /\ WaitsForDrains'
    BY DEF FreshInv, DecidedInv, WaitsForDrains
<1>3. CancelledReadsReturn'
    BY DEF CancelledReadsReturn, FreshInv
<1>4. WriteInv'
    BY DEF WriteInv, FreshInv
<1> QED
    BY <1>1, <1>2, <1>3, <1>4

LEMMA BeginQuitIInv ==
    ASSUME IInv, BeginQuit
    PROVE  IInv'
<1> USE DEF IInv
<1>1. /\ phase' \in [Tabs -> Intents \cup {"idle"}]
      /\ \A t \in tabs : phase'[t] = "quit"
      /\ late' \in [Tabs -> BOOLEAN] /\ read' \in [Tabs -> BOOLEAN]
      /\ stale' \in [Tabs -> BOOLEAN]
  <2>1. /\ phase' = [t \in Tabs |-> IF t \in tabs THEN "quit" ELSE phase[t]]
        /\ tabs \subseteq Tabs
      BY DEF BeginQuit, TypeOK
  <2>2. /\ phase' \in [Tabs -> Intents \cup {"idle"}]
        /\ \A t \in tabs : phase'[t] = "quit"
      BY <2>1 DEF TypeOK, Intents
  <2>3. PICK S : /\ Outdate(S)
                 /\ read' = [t \in Tabs |-> read[t] /\ t \notin S]
      BY DEF BeginQuit
  <2>4. /\ late' \in [Tabs -> BOOLEAN] /\ read' \in [Tabs -> BOOLEAN]
        /\ stale' \in [Tabs -> BOOLEAN]
      BY <2>3, Zenon DEF Outdate
  <2> QED
      BY <2>2, <2>4
<1>2. /\ quitting' = TRUE /\ waiting' = tabs /\ drained' = {}
      /\ quitSent' = (quitSent \/ tabs = {})
      /\ UNCHANGED <<tabs, fresh, ended, leaked, open, plan, write, git>>
    BY DEF BeginQuit
<1>3. quitSent' \in BOOLEAN /\ (tabs = {} => quitSent')
    BY <1>2 DEF TypeOK
<1>4. TypeOK'
    BY <1>1, <1>2, <1>3 DEF TypeOK
<1>5. FreshInv' /\ DecidedInv' /\ WriteInv'
    BY <1>2, <1>3 DEF FreshInv, DecidedInv, WriteInv
<1>6. WaitsForDrains' /\ CancelledReadsReturn'
    BY <1>1, <1>2 DEF WaitsForDrains, CancelledReadsReturn
<1> QED
    BY <1>4, <1>5, <1>6

LEMMA CloseEmptyIInv ==
    ASSUME IInv, NEW t \in Tabs, CloseEmptyTab(t)
    PROVE  IInv'
<1> USE DEF IInv
<1>1. /\ t \in tabs /\ phase[t] # "quit" /\ RemoveTab(t)
      /\ UNCHANGED <<phase, leaked, open, plan, late, write, git>>
    BY DEF CloseEmptyTab, work
<1>2. /\ tabs' = tabs \ {t} /\ fresh' = fresh /\ ended' = ended
      /\ quitting' \in BOOLEAN /\ quitSent' \in BOOLEAN
      /\ waiting' \subseteq waiting /\ t \notin waiting
      /\ drained' \subseteq Tabs
      /\ read' \in [Tabs -> BOOLEAN] /\ stale' \in [Tabs -> BOOLEAN]
      /\ ~quitting' => waiting' = {}
      /\ quitting' /\ waiting' = {} => quitSent'
      /\ \A u \in tabs' : open[u] /\ stale'[u] =>
            phase'[u] # "idle" \/ (quitting' /\ u \in drained')
    BY <1>1, RemoveTabKeeps
<1>3. TypeOK'
    BY <1>1, <1>2 DEF TypeOK
<1>4. FreshInv' /\ DecidedInv' /\ WriteInv'
    BY <1>1, <1>2 DEF FreshInv, DecidedInv, WriteInv
<1>5. WaitsForDrains' /\ CancelledReadsReturn'
    BY <1>1, <1>2 DEF WaitsForDrains, CancelledReadsReturn
<1> QED
    BY <1>3, <1>4, <1>5

LEMMA FinishCloseIInv ==
    ASSUME IInv, NEW t \in Tabs, FinishClose(t)
    PROVE  IInv'
<1> USE DEF IInv
<1>1. /\ t \in tabs /\ phase[t] # "quit" /\ RemoveTab(t)
      /\ phase' = [phase EXCEPT ![t] = "idle"]
      /\ open' = [open EXCEPT ![t] = FALSE]
      /\ plan' = [plan EXCEPT ![t] = FALSE]
      /\ UNCHANGED <<leaked, late, write, git>>
    BY DEF FinishClose, Idle
<1>2. \A u \in tabs : u # t => phase'[u] = phase[u]
    BY <1>1 DEF TypeOK
<1>3. /\ tabs' = tabs \ {t} /\ fresh' = fresh /\ ended' = ended
      /\ quitting' \in BOOLEAN /\ quitSent' \in BOOLEAN
      /\ waiting' \subseteq waiting /\ t \notin waiting
      /\ drained' \subseteq Tabs
      /\ read' \in [Tabs -> BOOLEAN] /\ stale' \in [Tabs -> BOOLEAN]
      /\ ~quitting' => waiting' = {}
      /\ quitting' /\ waiting' = {} => quitSent'
      /\ \A u \in tabs' : open[u] /\ stale'[u] =>
            phase'[u] # "idle" \/ (quitting' /\ u \in drained')
    BY <1>1, <1>2, RemoveTabKeeps
<1>4. TypeOK'
    BY <1>1, <1>3 DEF TypeOK
<1>5. /\ \A u \in tabs' : u # t /\ u \in Tabs
      /\ \A u \in Tabs : u # t => open'[u] = open[u] /\ plan'[u] = plan[u]
      /\ ~open'[t]
    BY <1>1, <1>3 DEF TypeOK
<1>6. FreshInv' /\ DecidedInv' /\ WriteInv'
    BY <1>1, <1>3, <1>5 DEF FreshInv, DecidedInv, WriteInv, TypeOK
<1>7. WaitsForDrains' /\ CancelledReadsReturn'
    BY <1>1, <1>2, <1>3, <1>5 DEF WaitsForDrains, CancelledReadsReturn
<1> QED
    BY <1>4, <1>6, <1>7

LEMMA FinishOpenIInv ==
    ASSUME IInv, NEW t \in Tabs, FinishOpen(t)
    PROVE  IInv'
<1> USE DEF IInv
<1>1. /\ t \in tabs /\ phase[t] = "open" /\ ~write[t]
      /\ phase' = [phase EXCEPT ![t] = "idle"]
      /\ open' = [open EXCEPT ![t] = TRUE]
      /\ plan' = [plan EXCEPT ![t] = FALSE]
      /\ stale' = [stale EXCEPT ![t] = FALSE]
      /\ read' = [read EXCEPT ![t] = TRUE]
      /\ UNCHANGED <<root, leaked, late, write, git>>
    BY DEF FinishOpen, Idle, Ready, Jobs
<1>2. TypeOK'
    BY <1>1 DEF TypeOK, root
<1>3. FreshInv' /\ DecidedInv' /\ WriteInv'
    BY <1>1 DEF FreshInv, DecidedInv, WriteInv, TypeOK, root
<1>4. WaitsForDrains' /\ CancelledReadsReturn'
    BY <1>1 DEF WaitsForDrains, CancelledReadsReturn, TypeOK, root
<1> QED
    BY <1>2, <1>3, <1>4

LEMMA FinishQuitIInv ==
    ASSUME IInv, NEW t \in Tabs, FinishQuit(t)
    PROVE  IInv'
<1> USE DEF IInv
<1>1. /\ t \in tabs /\ phase' = [phase EXCEPT ![t] = "idle"]
      /\ UNCHANGED <<tabs, fresh, ended, leaked, open, plan, late, write, git>>
    BY DEF FinishQuit, Idle, work
<1>2. \A u \in tabs : u # t => phase'[u] = phase[u]
    BY <1>1 DEF TypeOK
<1>3. /\ quitting' \in BOOLEAN /\ quitSent' \in BOOLEAN
      /\ waiting' \subseteq waiting \ {t} /\ drained' \subseteq Tabs
      /\ read' \in [Tabs -> BOOLEAN] /\ stale' \in [Tabs -> BOOLEAN]
      /\ ~quitting' => waiting' = {}
      /\ quitting' /\ waiting' = {} => quitSent'
      /\ \A u \in tabs : open[u] /\ stale'[u] =>
            phase'[u] # "idle" \/ (quitting' /\ u \in drained')
  <2>1. CASE t \in waiting
    <3>1. quitting /\ MaybeQuit(tabs, waiting \ {t}, drained \cup {t}, phase')
        BY <2>1 DEF FinishQuit, WaitsForDrains
    <3>2. Accounted(tabs, drained \cup {t}, phase')
        BY <1>2 DEF Accounted, CancelledReadsReturn
    <3>3. /\ TypeOK /\ tabs \in SUBSET Tabs
          /\ waiting \ {t} \in SUBSET Tabs /\ drained \cup {t} \in SUBSET Tabs
        BY DEF TypeOK
    <3> QED
        BY <3>1, <3>2, <3>3, MaybeQuitKeeps
  <2>2. CASE t \notin waiting
    <3>1. /\ Resume({t}, phase')
          /\ UNCHANGED <<quitting, waiting, drained, quitSent>>
        BY <2>2 DEF FinishQuit
    <3>2. /\ read' \in [Tabs -> BOOLEAN] /\ stale' \in [Tabs -> BOOLEAN]
          /\ \A u \in Tabs : stale'[u] => stale[u]
          /\ open[t] /\ stale'[t] => phase'[t] # "idle"
        BY <3>1, ResumeKeeps
    <3>3. \A u \in tabs : open[u] /\ stale'[u] =>
            phase'[u] # "idle" \/ (quitting' /\ u \in drained')
        BY <1>2, <3>1, <3>2 DEF CancelledReadsReturn, TypeOK
    <3> QED
        BY <2>2, <3>1, <3>2, <3>3 DEF TypeOK, WaitsForDrains, DecidedInv
  <2> QED
      BY <2>1, <2>2
<1>4. TypeOK'
    BY <1>1, <1>3 DEF TypeOK
<1>5. FreshInv' /\ DecidedInv' /\ WriteInv'
    BY <1>1, <1>3 DEF FreshInv, DecidedInv, WriteInv
<1>6. WaitsForDrains' /\ CancelledReadsReturn'
    BY <1>1, <1>2, <1>3 DEF WaitsForDrains, CancelledReadsReturn
<1> QED
    BY <1>4, <1>5, <1>6

LEMMA DrainFailsIInv ==
    ASSUME IInv, NEW t \in Tabs, DrainFails(t)
    PROVE  IInv'
<1> USE DEF IInv
<1>1. /\ t \in tabs /\ phase' = [phase EXCEPT ![t] = "idle"]
      /\ UNCHANGED <<tabs, fresh, ended, leaked, open, plan, late, write, git>>
    BY DEF DrainFails, Idle, work
<1>2. \A u \in tabs : u # t => phase'[u] = phase[u]
    BY <1>1 DEF TypeOK
<1>3. /\ quitting' = FALSE /\ waiting' = {} /\ drained' \subseteq Tabs
      /\ quitSent' = quitSent
      /\ read' \in [Tabs -> BOOLEAN] /\ stale' \in [Tabs -> BOOLEAN]
      /\ \A u \in tabs : open[u] /\ stale'[u] => phase'[u] # "idle"
  <2>1. CASE quitting
    <3>1. StopQuit(tabs, drained, {t}, phase')
        BY <2>1 DEF DrainFails
    <3>2. Accounted(tabs, drained \cup {t}, phase')
        BY <1>2 DEF Accounted, CancelledReadsReturn
    <3>3. /\ TypeOK /\ tabs \in SUBSET Tabs
          /\ drained \in SUBSET Tabs /\ {t} \in SUBSET tabs
        BY <1>1 DEF TypeOK
    <3> QED
        BY <3>1, <3>2, <3>3, StopQuitKeeps
  <2>2. CASE ~quitting
    <3>1. /\ Resume({t}, phase')
          /\ UNCHANGED <<quitting, waiting, drained, quitSent>>
        BY <2>2 DEF DrainFails
    <3>2. /\ read' \in [Tabs -> BOOLEAN] /\ stale' \in [Tabs -> BOOLEAN]
          /\ \A u \in Tabs : stale'[u] => stale[u]
          /\ open[t] /\ stale'[t] => phase'[t] # "idle"
        BY <3>1, ResumeKeeps
    <3>3. \A u \in tabs : open[u] /\ stale'[u] => phase'[u] # "idle"
        BY <1>2, <2>2, <3>2 DEF CancelledReadsReturn, TypeOK
    <3> QED
        BY <2>2, <3>1, <3>2, <3>3 DEF TypeOK, WaitsForDrains
  <2> QED
      BY <2>1, <2>2
<1>4. TypeOK'
    BY <1>1, <1>3 DEF TypeOK
<1>5. FreshInv' /\ DecidedInv' /\ WriteInv'
    BY <1>1, <1>3 DEF FreshInv, DecidedInv, WriteInv
<1>6. WaitsForDrains' /\ CancelledReadsReturn'
    BY <1>1, <1>2, <1>3 DEF WaitsForDrains, CancelledReadsReturn
<1> QED
    BY <1>4, <1>5, <1>6

LEMMA NextIInv == IInv /\ [Next]_vars => IInv'
<1> SUFFICES ASSUME IInv, [Next]_vars PROVE IInv'
    OBVIOUS
<1> USE DEF IInv
<1>1. CASE Exit
    BY <1>1 DEF Exit, TypeOK, FreshInv, DecidedInv, WriteInv, WaitsForDrains,
       CancelledReadsReturn, work
<1>2. CASE UNCHANGED vars
    BY <1>2 DEF vars, root, work, TypeOK, FreshInv, DecidedInv, WriteInv,
       WaitsForDrains, CancelledReadsReturn
<1>3. ASSUME NEW t \in Tabs, CloseTab(t) \/ OpenIn(t)
      PROVE  IInv'
    BY <1>3, RequestIInv DEF CloseTab, OpenIn
<1> QED
    BY <1>1, <1>2, <1>3, JobsIInv, CloseEmptyIInv, NewTabIInv, BeginQuitIInv,
       FinishQuitIInv, FinishCloseIInv, FinishOpenIInv, DrainFailsIInv
       DEF Next, Poll

(* The inductive invariant of the tabs and the quit.                       *)
THEOREM Invariance == Spec => []IInv
BY InitIInv, NextIInv, PTL DEF Spec

(* Every variable keeps its type.                                          *)
THEOREM TypeCorrect == Spec => []TypeOK
<1>1. IInv => TypeOK
    BY DEF IInv
<1> QED
    BY <1>1, Invariance, PTL

(* A quit waits only for tabs that drain into Quit and will report.        *)
THEOREM WaitsAreDrains == Spec => []WaitsForDrains
<1>1. IInv => WaitsForDrains
    BY DEF IInv
<1> QED
    BY <1>1, Invariance, PTL

(* What a drain cancelled is fetched again, unless the tab still drains or *)
(* waits for a quit (resume_after_drain, stop_quit).                       *)
THEOREM ReadsReturn == Spec => []CancelledReadsReturn
<1>1. IInv => CancelledReadsReturn
    BY DEF IInv
<1> QED
    BY <1>1, Invariance, PTL

(***************************************************************************)
(* What a step may never do.                                               *)
(***************************************************************************)
LEMMA WritesKeepStep ==
    ASSUME IInv, [Next]_vars, NEW t \in tabs, write[t], write'[t]
    PROVE  t \in tabs' /\ open'[t] = open[t] /\ plan'[t]
<1> USE DEF IInv
<1>1. t \in Tabs /\ plan[t] /\ t \notin fresh
    BY DEF TypeOK, WriteInv, FreshInv
<1>2. ASSUME NEW u \in Tabs,
             \/ StartRead(u) \/ LateEnds(u) \/ Confirm(u)
             \/ GitStarts(u) \/ GitEnds(u)
      PROVE  t \in tabs' /\ open'[t] = open[t] /\ plan'[t]
    BY <1>1, <1>2 DEF StartRead, LateEnds, Confirm, GitStarts, GitEnds, root,
       work
<1>3. ASSUME NEW u \in Tabs, ReadLands(u)
      PROVE  t \in tabs' /\ open'[t] = open[t] /\ plan'[t]
    BY <1>1, <1>3 DEF ReadLands, TypeOK, root
<1>4. ASSUME NEW u \in Tabs, WriteEnds(u)
      PROVE  t \in tabs' /\ open'[t] = open[t] /\ plan'[t]
    BY <1>1, <1>4 DEF WriteEnds, TypeOK, root
<1>5. ASSUME NEW u \in Tabs, CloseTab(u) \/ OpenIn(u)
      PROVE  t \in tabs' /\ open'[t] = open[t] /\ plan'[t]
    BY <1>1, <1>5 DEF CloseTab, OpenIn, Request, root
<1>6. ASSUME NEW u \in Tabs, NewTab(u)
      PROVE  t \in tabs' /\ open'[t] = open[t] /\ plan'[t]
    BY <1>1, <1>6 DEF NewTab, work
<1>7. ASSUME NEW u \in Tabs, CloseEmptyTab(u)
      PROVE  t \in tabs' /\ open'[t] = open[t] /\ plan'[t]
    BY <1>1, <1>7 DEF CloseEmptyTab, RemoveTab, Jobs, work
<1>8. ASSUME NEW u \in Tabs, FinishQuit(u) \/ DrainFails(u)
      PROVE  t \in tabs' /\ open'[t] = open[t] /\ plan'[t]
    BY <1>1, <1>8 DEF FinishQuit, DrainFails, work
<1>9. ASSUME NEW u \in Tabs, FinishClose(u)
      PROVE  t \in tabs' /\ open'[t] = open[t] /\ plan'[t]
    BY <1>1, <1>9 DEF FinishClose, Ready, Jobs, RemoveTab, TypeOK
<1>10. ASSUME NEW u \in Tabs, FinishOpen(u)
       PROVE  t \in tabs' /\ open'[t] = open[t] /\ plan'[t]
    BY <1>1, <1>10 DEF FinishOpen, Ready, Jobs, TypeOK, root
<1>11. CASE BeginQuit
    BY <1>1, <1>11 DEF BeginQuit
<1>12. CASE Exit
    BY <1>1, <1>12 DEF Exit, work
<1>13. CASE UNCHANGED vars
    BY <1>1, <1>13 DEF vars, root, work
<1> QED
    BY <1>2, <1>3, <1>4, <1>5, <1>6, <1>7, <1>8, <1>9, <1>10, <1>11, <1>12,
       <1>13 DEF Next, Poll

(* No drain ends under a confirmed paste: WriteInv keeps its preview, and  *)
(* Ready looks at the write itself.                                        *)
THEOREM WritesKept == Spec => WritesKeepTheirTab
<1>1. IInv /\ [Next]_vars =>
        [\A t \in tabs : write[t] /\ write'[t] =>
            t \in tabs' /\ open'[t] = open[t] /\ plan'[t]]_vars
    BY WritesKeepStep
<1> QED
    BY <1>1, Invariance, PTL DEF Spec, WritesKeepTheirTab

\* The task that quits is queued by the last drain, or in a window without
\* tabs; a tab that goes finds a quit that waits for nobody decided.
LEMMA QuitDecidedStep ==
    ASSUME IInv, [Next]_vars, quitSent', ~quitSent, NEW t \in tabs
    PROVE  ~write[t] /\ ~git[t] /\ ~leaked
<1> USE DEF IInv
<1>1. ASSUME NEW u \in Tabs, FinishQuit(u)
      PROVE  ~write[t] /\ ~git[t] /\ ~leaked
  <2>1. ~leaked /\ ~git[t]
      BY <1>1 DEF FinishQuit, Ready, LoadRuns
  <2>2. MaybeQuit(tabs, waiting \ {u}, drained \cup {u}, phase')
      BY <1>1 DEF FinishQuit
  <2>3. ~Blocked(tabs)
      BY <2>2 DEF MaybeQuit, KeepQuit, StopQuit
  <2> QED
      BY <2>1, <2>3 DEF Blocked
<1>2. ASSUME NEW u \in tabs, phase[u] # "quit", RemoveTab(u)
      PROVE  FALSE
  <2>1. waiting \ {u} = waiting
      BY <1>2 DEF WaitsForDrains
  <2>2. quitting /\ MaybeQuit(tabs \ {u}, waiting \ {u}, drained, phase')
      BY <1>2 DEF RemoveTab, KeepQuit
  <2>3. waiting \ {u} = {}
      BY <2>2 DEF MaybeQuit, KeepQuit, StopQuit
  <2> QED
      BY <2>1, <2>2, <2>3 DEF DecidedInv
<1>3. ASSUME NEW u \in Tabs, CloseEmptyTab(u) \/ FinishClose(u)
      PROVE  FALSE
    BY <1>2, <1>3 DEF CloseEmptyTab, FinishClose
<1>4. ASSUME NEW u \in Tabs,
             \/ StartRead(u) \/ ReadLands(u) \/ LateEnds(u) \/ Confirm(u)
             \/ WriteEnds(u) \/ GitStarts(u) \/ GitEnds(u)
             \/ CloseTab(u) \/ OpenIn(u) \/ NewTab(u) \/ FinishOpen(u)
      PROVE  FALSE
    BY <1>4 DEF StartRead, ReadLands, LateEnds, Confirm, WriteEnds, GitStarts,
       GitEnds, CloseTab, OpenIn, Request, NewTab, FinishOpen, root
<1>5. ASSUME NEW u \in Tabs, DrainFails(u)
      PROVE  FALSE
    BY <1>5 DEF DrainFails, StopQuit
<1>6. ~BeginQuit /\ ~Exit /\ ~UNCHANGED vars
    BY DEF BeginQuit, Exit, vars, root
<1> QED
    BY <1>1, <1>3, <1>4, <1>5, <1>6 DEF Next, Poll

(* A quit is decided over no write, no Git child and no leaked slot.       *)
THEOREM QuitDecided == Spec => QuitIsDecidedClear
<1>1. IInv /\ [Next]_vars =>
        [quitSent' /\ ~quitSent =>
            \A t \in tabs : ~write[t] /\ ~git[t] /\ ~leaked]_vars
    BY QuitDecidedStep
<1> QED
    BY <1>1, Invariance, PTL DEF Spec, QuitIsDecidedClear
=============================================================================
