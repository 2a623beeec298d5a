----------------------------- MODULE ClientPool -----------------------------
(***************************************************************************)
(* The connections of one Client (crates/remote/src/client.rs): concurrent *)
(* calls, the pool of idle connections they share, the thread that pumps   *)
(* each connection's frames, the limiter of Git calls, the gate of         *)
(* handshakes, and the one resend on a fresh worker.                       *)
(*                                                                         *)
(* A frame carries no request id: which call an answer belongs to is known *)
(* only from the order of the stream.  That each call gets its own answer  *)
(* rests on what the pool refuses to keep and to reuse.                    *)
(*                                                                         *)
(* The worker is honest: it speaks only when asked, and answers a request  *)
(* once.  Its link may die at any moment, and the request it has read may  *)
(* still run after that.  Time and the caller's token are left out: a      *)
(* deadline may pass, and a cancel may come, at any moment of a wait.  The *)
(* paste leases, which keep a connection of their own, are RemotePaste.    *)
(***************************************************************************)
EXTENDS Naturals, Sequences, FiniteSets

CONSTANTS
    Calls,      \* calls of the client, each made once
    NoCall,
    Mixes,      \* what the calls request: functions from Calls to Kinds
    Conns,      \* connections that may be opened (a bound)
    NoConn,
    Pool,       \* POOL: idle connections kept
    MaxGit,     \* MAX_GIT_CALLS_IN_FLIGHT
    Handshakes, \* HANDSHAKES_PER_HOST
    FrameQueue  \* FRAME_QUEUE: frames queued for the call

Kinds == {"stat", "read", "write"}

ASSUME MixesAssumption == Mixes \subseteq [Calls -> Kinds]
ASSUME NullAssumption == NoCall \notin Calls /\ NoConn \notin Conns
ASSUME LimitsAssumption ==
    /\ Pool \in Nat
    /\ MaxGit \in Nat \ {0}
    /\ Handshakes \in Nat \ {0}
    /\ FrameQueue \in Nat \ {0}

VARIABLES
    kind,       \* kind[c]: the request of call c
    pc,         \* pc[c]: where c is in call_with
    hand,       \* hand[c]: the connection c holds
    reused,     \* reused[c]: it came from the pool
    seen,       \* seen[c]: frames_seen > 0
    result,     \* result[c]: what c has come to
    answer,     \* answer[c]: the request whose answer c was given
    idle,       \* Client.idle, the last one on top
    gitCalls,   \* GitLimiter.in_flight
    hellos,     \* HandshakeGate.active
    conn,       \* conn[k]: connection k, the pump and the worker behind it
    ran         \* ran[c]: how often a worker ran c's request

calls == <<pc, hand, reused, seen, result, answer>>
limits == <<gitCalls, hellos>>
vars == <<kind, calls, idle, limits, conn, ran>>

Places == {"start", "take", "connect", "hello", "ready", "sending",
           "waiting", "ending", "keeping", "returning", "done"}
Results == {"none", "ok", "refused", "stopped", "io", "start", "too_old"}

Frames == [kind : {"pending", "answer", "eof"}, to : Calls \cup {NoCall}]
Eof == [kind |-> "eof", to |-> NoCall]

(***************************************************************************)
(* old: the worker's version serves only plain requests.  req and work:    *)
(* the request the worker has read and how far it is.  wire: frames on     *)
(* their way to the pump.  frame and unasked: what the pump has in hand.   *)
(***************************************************************************)
Connections ==
    [link : {"none", "up", "down"}, old : BOOLEAN, inFlight : BOOLEAN,
     req : Calls \cup {NoCall}, work : {"none", "asked", "running", "beaten"},
     wire : Seq(Frames), retained : Nat, queue : Seq(Frames),
     pump : {"reading", "sent", "ended"}, frame : Frames, unasked : BOOLEAN]
NotOpened ==
    [link |-> "none", old |-> FALSE, inFlight |-> FALSE, req |-> NoCall,
     work |-> "none", wire |-> <<>>, retained |-> 0, queue |-> <<>>,
     pump |-> "ended", frame |-> Eof, unasked |-> FALSE]

\* The hello was the last frame the pump delivered.
Opened(old) ==
    [NotOpened EXCEPT !.link = "up", !.old = old, !.pump = "sent",
                      !.frame = [kind |-> "answer", to |-> NoCall]]

\* Without its link a worker can still run a request it has not begun.
Cut(k) ==
    [k EXCEPT !.link = "down",
              !.work = IF @ = "asked" THEN @ ELSE "none",
              !.req = IF k.work = "asked" THEN @ ELSE NoCall]

\* Dropping a connection kills its transport and ends its pump.
Closed(k) == [NotOpened EXCEPT !.link = "down", !.req = Cut(k).req,
                               !.work = Cut(k).work]

RunsGit(c) == kind[c] # "stat"
NeedsNew(c) == kind[c] # "stat"
Writes(c) == kind[c] = "write"

TypeOK ==
    /\ kind \in [Calls -> Kinds]
    /\ pc \in [Calls -> Places]
    /\ hand \in [Calls -> Conns \cup {NoConn}]
    /\ reused \in [Calls -> BOOLEAN]
    /\ seen \in [Calls -> BOOLEAN]
    /\ result \in [Calls -> Results]
    /\ answer \in [Calls -> Calls \cup {NoCall}]
    /\ idle \in Seq(Conns)
    /\ gitCalls \in Nat
    /\ hellos \in Nat
    /\ conn \in [Conns -> Connections]
    /\ ran \in [Calls -> Nat]

Init ==
    /\ kind \in Mixes
    /\ pc = [c \in Calls |-> "start"]
    /\ hand = [c \in Calls |-> NoConn]
    /\ reused = [c \in Calls |-> FALSE]
    /\ seen = [c \in Calls |-> FALSE]
    /\ result = [c \in Calls |-> "none"]
    /\ answer = [c \in Calls |-> NoCall]
    /\ idle = <<>>
    /\ gitCalls = 0
    /\ hellos = 0
    /\ conn = [k \in Conns |-> NotOpened]
    /\ ran = [c \in Calls |-> 0]

-----------------------------------------------------------------------------
(***************************************************************************)
(* The limiter and the pool.                                               *)
(***************************************************************************)
Goto(c, place) == pc' = [pc EXCEPT ![c] = place]
EndsAs(c, r) == result' = [result EXCEPT ![c] = r]

Admit(c) ==
    /\ pc[c] = "start"
    /\ RunsGit(c) => gitCalls < MaxGit
    /\ gitCalls' = IF RunsGit(c) THEN gitCalls + 1 ELSE gitCalls
    /\ Goto(c, "take")
    /\ UNCHANGED <<kind, hand, reused, seen, result, answer, idle, hellos,
                   conn, ran>>

AdmitStopped(c) ==
    /\ pc[c] = "start"
    /\ RunsGit(c)
    /\ Goto(c, "done")
    /\ UNCHANGED <<kind, hand, reused, seen, result, answer, idle, limits,
                   conn, ran>>

\* The stream of a pooled connection is out of step, or has ended.
Unsolicited(k) == conn[k].retained > 0

Take(c) ==
    /\ pc[c] = "take"
    /\ IF idle = <<>>
       THEN /\ Goto(c, "connect")
            /\ UNCHANGED <<hand, reused, result, idle, conn>>
       ELSE LET k == idle[Len(idle)]
            IN  /\ idle' = SubSeq(idle, 1, Len(idle) - 1)
                /\ \/ /\ Unsolicited(k)
                      /\ conn' = [conn EXCEPT ![k] = Closed(@)]
                      /\ Goto(c, "connect")
                      /\ UNCHANGED <<hand, reused, result>>
                   \/ /\ ~Unsolicited(k)
                      /\ hand' = [hand EXCEPT ![c] = k]
                      /\ IF NeedsNew(c) /\ conn[k].old
                         THEN /\ EndsAs(c, "too_old")
                              /\ Goto(c, "keeping")
                              /\ UNCHANGED reused
                         ELSE /\ reused' = [reused EXCEPT ![c] = TRUE]
                              /\ Goto(c, "ready")
                              /\ UNCHANGED result
                      /\ UNCHANGED conn
    /\ UNCHANGED <<kind, seen, answer, limits, ran>>

(***************************************************************************)
(* A fresh connection.  A call that already has its result is at its       *)
(* resend: without a replacement the first failure stands, unless the      *)
(* start failed for a known reason.                                        *)
(***************************************************************************)
JoinGate(c) ==
    /\ pc[c] = "connect"
    /\ hellos < Handshakes
    /\ hellos' = hellos + 1
    /\ Goto(c, "hello")
    /\ UNCHANGED <<kind, hand, reused, seen, result, answer, idle, gitCalls,
                   conn, ran>>

ConnectFailed(c) ==
    /\ \E r \in {"start", IF result[c] = "none" THEN "stopped" ELSE result[c]} :
          EndsAs(c, r)
    /\ Goto(c, "returning")
    /\ UNCHANGED <<kind, hand, reused, seen, answer, idle, gitCalls, conn, ran>>

GateStopped(c) == pc[c] = "connect" /\ ConnectFailed(c) /\ UNCHANGED hellos

HelloFails(c) ==
    pc[c] = "hello" /\ hellos' = hellos - 1 /\ ConnectFailed(c)

Unopened == {k \in Conns : conn[k].link = "none"}

HelloDone(c) ==
    /\ pc[c] = "hello"
    /\ hellos' = hellos - 1
    /\ Unopened # {}
    /\ \E old \in BOOLEAN :
          LET k == CHOOSE j \in Unopened : TRUE IN
          /\ conn' = [conn EXCEPT ![k] = Opened(old)]
          /\ hand' = [hand EXCEPT ![c] = k]
          /\ IF NeedsNew(c) /\ old
             THEN EndsAs(c, "too_old") /\ Goto(c, "keeping")
             ELSE EndsAs(c, "none") /\ Goto(c, "ready")
    /\ UNCHANGED <<kind, reused, seen, answer, idle, gitCalls, ran>>

-----------------------------------------------------------------------------
(***************************************************************************)
(* One exchange on the connection in hand.                                 *)
(***************************************************************************)
\* The limit passed before anything was sent: the connection is dropped.
OutOfTime(c) ==
    /\ pc[c] = "ready"
    /\ conn' = [conn EXCEPT ![hand[c]] = Closed(@)]
    /\ hand' = [hand EXCEPT ![c] = NoConn]
    /\ EndsAs(c, "stopped")
    /\ Goto(c, "returning")
    /\ UNCHANGED <<kind, reused, seen, answer, idle, limits, ran>>

BeginCall(c) ==
    /\ pc[c] = "ready"
    /\ conn' = [conn EXCEPT ![hand[c]].inFlight = TRUE]
    /\ seen' = [seen EXCEPT ![c] = FALSE]
    /\ Goto(c, "sending")
    /\ UNCHANGED <<kind, hand, reused, result, answer, idle, limits, ran>>

Delivered(k, c) == [k EXCEPT !.req = c, !.work = "asked"]

\* A write into a link that died may still succeed, into nobody's hands.
Sent(c) ==
    /\ pc[c] = "sending"
    /\ conn' = IF conn[hand[c]].link = "up"
               THEN [conn EXCEPT ![hand[c]] = Delivered(@, c)]
               ELSE conn
    /\ Goto(c, "waiting")
    /\ UNCHANGED <<kind, hand, reused, seen, result, answer, idle, limits, ran>>

SendFails(c) ==
    /\ pc[c] = "sending"
    /\ conn[hand[c]].link = "down"
    /\ EndsAs(c, "io")
    /\ Goto(c, "ending")
    /\ UNCHANGED <<kind, hand, reused, seen, answer, idle, limits, conn, ran>>

\* The transport is killed; the request may have got through just before.
SendStopped(c) ==
    /\ pc[c] = "sending"
    /\ \E through \in {FALSE, conn[hand[c]].link = "up"} :
          conn' = [conn EXCEPT ![hand[c]] =
                     Cut(IF through THEN Delivered(@, c) ELSE @)]
    /\ EndsAs(c, "stopped")
    /\ Goto(c, "ending")
    /\ UNCHANGED <<kind, hand, reused, seen, answer, idle, limits, ran>>

\* The end of the stream is queued too, before the pump hangs up.
Receive(c) ==
    LET k == hand[c]
        f == Head(conn[k].queue)
    IN  /\ pc[c] = "waiting"
        /\ conn[k].queue # <<>>
        /\ conn' = [conn EXCEPT ![k].queue = Tail(@), ![k].retained = @ - 1]
        /\ CASE f.kind = "eof" ->
                  EndsAs(c, "io") /\ Goto(c, "ending") /\ UNCHANGED <<seen, answer>>
             [] f.kind = "pending" ->
                  /\ seen' = [seen EXCEPT ![c] = TRUE]
                  /\ UNCHANGED <<pc, result, answer>>
             [] f.kind = "answer" ->
                  /\ seen' = [seen EXCEPT ![c] = TRUE]
                  /\ answer' = [answer EXCEPT ![c] = f.to]
                  /\ \E r \in {"ok", "refused"} : EndsAs(c, r)
                  /\ Goto(c, "ending")
        /\ UNCHANGED <<kind, hand, reused, idle, limits, ran>>

(* Mutant of WaitStopped: only silence ends a wait, and a heartbeat is none. *)
WaitStoppedBySilence(c) ==
    /\ pc[c] = "waiting"
    /\ conn[hand[c]].work # "beaten"
    /\ EndsAs(c, "stopped")
    /\ Goto(c, "ending")
    /\ UNCHANGED <<kind, hand, reused, seen, answer, idle, limits, conn, ran>>

\* The deadline, the caller's cancel, or silence past the idle limit.
WaitStopped(c) ==
    /\ pc[c] = "waiting"
    /\ EndsAs(c, "stopped")
    /\ Goto(c, "ending")
    /\ UNCHANGED <<kind, hand, reused, seen, answer, idle, limits, conn, ran>>

(* Mutant of ShouldResend: a write is sent again like a read. *)
ResendAnything(c) == reused[c] /\ ~seen[c] /\ result[c] = "io"

ShouldResend(c) ==
    /\ ~Writes(c)
    /\ reused[c]
    /\ ~seen[c]
    /\ result[c] = "io"

Broken(c) == result[c] \in {"stopped", "io"}

EndCall(c) ==
    LET k == hand[c]
        ended == [conn[k] EXCEPT !.inFlight = FALSE]
    IN  /\ pc[c] = "ending"
        /\ \/ /\ ShouldResend(c)
              /\ conn' = [conn EXCEPT ![k] = Closed(ended)]
              /\ hand' = [hand EXCEPT ![c] = NoConn]
              /\ reused' = [reused EXCEPT ![c] = FALSE]
              /\ \/ Goto(c, "connect") /\ UNCHANGED result
                 \/ Goto(c, "returning") /\ EndsAs(c, "stopped")
           \/ /\ ~ShouldResend(c)
              /\ conn' = [conn EXCEPT ![k] = ended]
              /\ Goto(c, "keeping")
              /\ UNCHANGED <<hand, reused, result>>
        /\ UNCHANGED <<kind, seen, answer, idle, limits, ran>>

(* Mutant of Kept: a connection whose call failed goes back to the pool. *)
KeptAnyway(c) == Len(idle) < Pool

Kept(c) == ~Broken(c) /\ Len(idle) < Pool

Keep(c) ==
    LET k == hand[c]
    IN  /\ pc[c] = "keeping"
        /\ IF Kept(c)
           THEN idle' = Append(idle, k) /\ UNCHANGED conn
           ELSE conn' = [conn EXCEPT ![k] = Closed(@)] /\ UNCHANGED idle
        /\ hand' = [hand EXCEPT ![c] = NoConn]
        /\ Goto(c, "returning")
        /\ UNCHANGED <<kind, reused, seen, result, answer, limits, ran>>

Return(c) ==
    /\ pc[c] = "returning"
    /\ gitCalls' = IF RunsGit(c) THEN gitCalls - 1 ELSE gitCalls
    /\ Goto(c, "done")
    /\ reused' = [reused EXCEPT ![c] = FALSE]
    /\ seen' = [seen EXCEPT ![c] = FALSE]
    /\ EndsAs(c, "none")
    /\ answer' = [answer EXCEPT ![c] = NoCall]
    /\ UNCHANGED <<kind, hand, idle, hellos, conn, ran>>

-----------------------------------------------------------------------------
(***************************************************************************)
(* The pump of connection k.  The flag is read and the frame counted       *)
(* before the frame is handed over; between these, only a caller that      *)
(* gives up could move, and it breaks the connection: they are one step.   *)
(***************************************************************************)
others == <<kind, calls, idle, limits, ran>>

Handed(k, f) ==
    [conn[k] EXCEPT !.unasked = ~conn[k].inFlight, !.retained = @ + 1,
                    !.queue = Append(@, f), !.frame = f, !.pump = "sent"]

PumpReads(k) ==
    /\ conn[k].pump = "reading"
    /\ Len(conn[k].queue) < FrameQueue
    /\ \/ /\ conn[k].wire # <<>>
          /\ conn' = [conn EXCEPT ![k] =
                        [Handed(k, Head(conn[k].wire)) EXCEPT !.wire = Tail(@)]]
       \/ /\ conn[k].wire = <<>>
          /\ conn[k].link = "down"
          /\ conn' = [conn EXCEPT ![k] = Handed(k, Eof)]
    /\ UNCHANGED others

(* Mutant of PumpEnds: the flag is read once the frame was handed over. *)
PumpEndsLate(k) == conn[k].frame = Eof \/ ~conn[k].inFlight

PumpEnds(k) == conn[k].frame = Eof \/ conn[k].unasked

PumpNext(k) ==
    /\ conn[k].pump = "sent"
    /\ conn' = [conn EXCEPT ![k].pump = IF PumpEnds(k) THEN "ended" ELSE "reading",
                            ![k].frame = Eof, ![k].unasked = FALSE]
    /\ UNCHANGED others

(***************************************************************************)
(* The worker behind connection k.  A request it has read may run even     *)
(* when the link is gone; what it says then reaches nobody.                *)
(***************************************************************************)
Runs(k) ==
    /\ conn[k].work = "asked"
    /\ conn' = [conn EXCEPT ![k] =
                   IF @.link = "up" THEN [@ EXCEPT !.work = "running"]
                   ELSE [@ EXCEPT !.work = "none", !.req = NoCall]]
    /\ ran' = [ran EXCEPT ![conn[k].req] = @ + 1]
    /\ UNCHANGED <<kind, calls, idle, limits>>

Beats(k) ==
    /\ conn[k].link = "up"
    /\ conn[k].work = "running"
    /\ conn' = [conn EXCEPT ![k].work = "beaten",
                  ![k].wire = Append(@, [kind |-> "pending", to |-> conn[k].req])]
    /\ UNCHANGED others

Answers(k) ==
    /\ conn[k].link = "up"
    /\ conn[k].work \in {"running", "beaten"}
    /\ conn' = [conn EXCEPT ![k].work = "none", ![k].req = NoCall,
                  ![k].wire = Append(@, [kind |-> "answer", to |-> conn[k].req])]
    /\ UNCHANGED others

\* The worker, its machine or the transport dies; frames may be lost.
LinkDies(k) ==
    /\ conn[k].link = "up"
    /\ \E n \in 0..Len(conn[k].wire) :
          conn' = [conn EXCEPT ![k] =
                     [Cut(conn[k]) EXCEPT !.wire = SubSeq(@, 1, n)]]
    /\ UNCHANGED others

-----------------------------------------------------------------------------
CallStep(c) ==
    \/ Admit(c) \/ AdmitStopped(c) \/ Take(c)
    \/ JoinGate(c) \/ GateStopped(c) \/ HelloDone(c) \/ HelloFails(c)
    \/ OutOfTime(c) \/ BeginCall(c)
    \/ Sent(c) \/ SendFails(c) \/ SendStopped(c)
    \/ Receive(c) \/ WaitStopped(c)
    \/ EndCall(c) \/ Keep(c) \/ Return(c)

PumpStep(k) == PumpReads(k) \/ PumpNext(k)

WorkerStep(k) == Runs(k) \/ Beats(k) \/ Answers(k) \/ LinkDies(k)

Next ==
    \/ \E c \in Calls : CallStep(c)
    \/ \E k \in Conns : PumpStep(k) \/ WorkerStep(k)

Spec == Init /\ [][Next]_vars

\* A thread of the client always moves on: every wait has a deadline.
FairSpec == Spec /\ \A c \in Calls : WF_vars(CallStep(c))

-----------------------------------------------------------------------------
(***************************************************************************)
(* A call is answered with the answer to its own request, whatever the     *)
(* connection it was given had carried before (call_with, keep,            *)
(* take_connection): nothing in a frame says whose it is.                  *)
(***************************************************************************)
AnswersAreOwn == \A c \in Calls : answer[c] \in {c, NoCall}

(***************************************************************************)
(* A worker runs a write at most once and a read at most twice, however    *)
(* the links die under them; a call that reports an answer had its request *)
(* run (call_with's writes, should_resend).                                *)
(***************************************************************************)
WritesRunOnce ==
    \A c \in Calls :
        /\ ran[c] <= (IF Writes(c) THEN 1 ELSE 2)
        /\ result[c] \in {"ok", "refused"} => ran[c] > 0

(***************************************************************************)
(* A connection in the pool that nobody's link failure touched can still   *)
(* be used: nothing unasked is counted on it and its pump still reads, so  *)
(* a good worker is never thrown away (pump_frames' order of flag and      *)
(* send).                                                                  *)
(***************************************************************************)
PoolIsUsable ==
    \A i \in 1..Len(idle) :
        conn[idle[i]].link = "up" =>
            /\ conn[idle[i]].retained = 0
            /\ conn[idle[i]].pump # "ended"
            /\ conn[idle[i]].pump = "sent" => ~PumpEnds(idle[i])

(***************************************************************************)
(* Every call returns, whatever its worker does, and with the last one the *)
(* Git slots and handshake slots are all free (the deadlines of acquire,   *)
(* send_guarded and recv_idle).                                            *)
(***************************************************************************)
CallsReturn ==
    <>[](/\ \A c \in Calls : pc[c] = "done" /\ hand[c] = NoConn
         /\ gitCalls = 0
         /\ hellos = 0)
=============================================================================
