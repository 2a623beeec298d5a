--------------------------- MODULE ClientPoolProofs ---------------------------
(***************************************************************************)
(* Proofs about ClientPool, for any calls, any connections and any limits. *)
(*                                                                         *)
(* That a call gets its own answer follows the request through the three   *)
(* parties: the worker says something only about the request it has, the   *)
(* pump carries it in order, and only the call that holds a connection     *)
(* reads its queue.  What has to be shown is that a connection with        *)
(* something left to say never changes hands.                              *)
(***************************************************************************)
EXTENDS ClientPool, FiniteSetTheorems, SequenceTheorems, TLAPS

USE MixesAssumption, NullAssumption, LimitsAssumption

-----------------------------------------------------------------------------
(***************************************************************************)
(* What holds of one connection r, whoever has it.                         *)
(***************************************************************************)
IsFrame(f) == f.kind # "eof" /\ f.to \in Calls

\* An answer is the last thing said: after it only the end can come.
AnswerIsLast(r) ==
    /\ \A i \in 1..Len(r.wire) :
          r.wire[i].kind = "answer" => i = Len(r.wire) /\ r.work = "none"
    /\ \A i \in 1..Len(r.queue) :
          r.queue[i].kind = "answer" =>
              /\ r.wire = <<>> /\ r.work = "none"
              /\ \A j \in 1..Len(r.queue) : j > i => r.queue[j] = Eof

Sound(r) ==
    /\ r.retained = Len(r.queue)
    /\ r.work = "none" <=> r.req = NoCall
    /\ r.link # "up" => r.work \in {"none", "asked"}
    /\ \A i \in 1..Len(r.wire) : IsFrame(r.wire[i])
    /\ \A i \in 1..Len(r.queue) :
          IsFrame(r.queue[i]) \/ (r.queue[i] = Eof /\ r.link # "up")
    /\ AnswerIsLast(r)

\* Nothing is left to say, but perhaps that the stream has ended.
Quiet(r) ==
    /\ r.work = "none"
    /\ r.wire = <<>>
    /\ \A i \in 1..Len(r.queue) : r.queue[i] = Eof

\* While the link is up the pump reads on.
Alive(r) ==
    r.link = "up" =>
        /\ r.pump # "ended"
        /\ r.pump = "sent" => r.frame # Eof /\ ~r.unasked

\* r is at work for c, or carries what was said about it.
Concerns(r, c) ==
    \/ r.req = c /\ r.work \in {"running", "beaten"}
    \/ \E i \in 1..Len(r.wire) : r.wire[i].to = c
    \/ \E i \in 1..Len(r.queue) : r.queue[i].to = c

-----------------------------------------------------------------------------
(***************************************************************************)
(* The inductive invariant.                                                *)
(***************************************************************************)
Holding == {"ready", "sending", "waiting", "ending", "keeping"}

\* An opened connection is in one hand, or once in the pool, or dropped.
HandsInv ==
    /\ \A c \in Calls : hand[c] # NoConn <=> pc[c] \in Holding
    /\ \A c, d \in Calls : hand[c] # NoConn /\ hand[c] = hand[d] => c = d
    /\ \A c \in Calls : \A i \in 1..Len(idle) : hand[c] # idle[i]
    /\ \A i, j \in 1..Len(idle) : idle[i] = idle[j] => i = j
    /\ \A c \in Calls : hand[c] # NoConn => conn[hand[c]].link # "none"
    /\ \A i \in 1..Len(idle) : conn[idle[i]].link # "none"

StreamInv ==
    \A k \in Conns :
        /\ Sound(conn[k])
        /\ \A c \in Calls : Concerns(conn[k], c) => hand[c] = k /\ ran[c] > 0
        /\ conn[k].link = "up" /\ conn[k].work = "asked" =>
              hand[conn[k].req] = k

PoolInv ==
    \A i \in 1..Len(idle) : Quiet(conn[idle[i]]) /\ Alive(conn[idle[i]])

\* Where a call must find its connection quiet, and where its pump alive.
WantsQuiet(c) ==
    pc[c] \in {"ready", "sending"} \/ (pc[c] \in {"ending", "keeping"} /\ ~Broken(c))
WantsAlive(c) ==
    pc[c] \in {"ready", "sending", "waiting", "ending"}
       \/ (pc[c] = "keeping" /\ ~Broken(c))
Exchanging(c) == pc[c] \in {"sending", "waiting", "ending"}

CallInv ==
    \A c \in Calls :
        /\ WantsQuiet(c) => Quiet(conn[hand[c]])
        /\ WantsAlive(c) => Alive(conn[hand[c]])
        /\ Exchanging(c) => conn[hand[c]].inFlight

\* The connections whose worker has c's request and has not begun it.
Asked(c) == {k \in Conns : conn[k].work = "asked" /\ conn[k].req = c}

\* How often c's request may have been handed to a worker so far.
Budget(c) ==
    IF pc[c] \in {"start", "take"} THEN 0
    ELSE (IF Writes(c) \/ reused[c] THEN 0 ELSE 1)
         + (IF pc[c] \in {"connect", "hello", "ready", "sending"} THEN 0 ELSE 1)

RunsInv ==
    \A c \in Calls :
        /\ IsFiniteSet(Asked(c))
        /\ ran[c] + Cardinality(Asked(c)) <= Budget(c)
        /\ pc[c] \in {"start", "take", "connect", "hello"} => ~reused[c]
        /\ result[c] \in {"ok", "refused"} => ran[c] > 0

Admitted == {c \in Calls : RunsGit(c) /\ pc[c] \notin {"start", "done"}}
Greeting == {c \in Calls : pc[c] = "hello"}

LimitsInv ==
    /\ IsFiniteSet(Admitted) /\ gitCalls = Cardinality(Admitted)
    /\ IsFiniteSet(Greeting) /\ hellos = Cardinality(Greeting)
    /\ gitCalls <= MaxGit /\ hellos <= Handshakes

IInv ==
    /\ TypeOK
    /\ HandsInv
    /\ StreamInv
    /\ PoolInv
    /\ CallInv
    /\ AnswersAreOwn
    /\ RunsInv
    /\ LimitsInv

-----------------------------------------------------------------------------
(***************************************************************************)
(* Sequences of frames.                                                    *)
(***************************************************************************)
LEMMA FrameFacts ==
    /\ Eof \in Frames /\ Eof.kind = "eof" /\ Eof.to \notin Calls
    /\ \A f \in Frames : IsFrame(f) => f # Eof
BY DEF Eof, Frames, IsFrame

LEMMA Taken ==
    ASSUME NEW S, NEW s \in Seq(S), s # <<>>
    PROVE  /\ Tail(s) \in Seq(S) /\ Len(Tail(s)) = Len(s) - 1
           /\ Len(s) \in Nat /\ Len(s) > 0 /\ Head(s) = s[1] /\ Head(s) \in S
           /\ \A i \in 1..Len(Tail(s)) : Tail(s)[i] = s[i + 1]
BY HeadTailProperties, LenProperties, EmptySeq

LEMMA Added ==
    ASSUME NEW S, NEW s \in Seq(S), NEW e \in S
    PROVE  /\ Append(s, e) \in Seq(S) /\ Len(s) \in Nat
           /\ Len(Append(s, e)) = Len(s) + 1
           /\ \A i \in 1..Len(s) : Append(s, e)[i] = s[i]
           /\ Append(s, e)[Len(s) + 1] = e
BY AppendProperties, LenProperties

LEMMA Cutoff ==
    ASSUME NEW S, NEW s \in Seq(S), NEW n \in 0..Len(s)
    PROVE  /\ SubSeq(s, 1, n) \in Seq(S) /\ Len(SubSeq(s, 1, n)) = n
           /\ \A i \in 1..n : SubSeq(s, 1, n)[i] = s[i]
<1>1. Len(s) \in Nat /\ \A i \in 1..n : s[i] \in S
    BY LenProperties, ElementOfSeq
<1> QED
    BY <1>1, SubSeqProperties

-----------------------------------------------------------------------------
(***************************************************************************)
(* What each step does to the one connection it changes.                   *)
(***************************************************************************)
Flagged(r, b) == [r EXCEPT !.inFlight = b]

Popped(r) == [r EXCEPT !.queue = Tail(@), !.retained = @ - 1]

Carried(r, f, w) ==
    [r EXCEPT !.unasked = ~r.inFlight, !.retained = @ + 1, !.queue = Append(@, f),
              !.frame = f, !.pump = "sent", !.wire = w]

Resumed(r, ends) ==
    [r EXCEPT !.pump = IF ends THEN "ended" ELSE "reading",
              !.frame = Eof, !.unasked = FALSE]

Begun(r) ==
    IF r.link = "up" THEN [r EXCEPT !.work = "running"]
    ELSE [r EXCEPT !.work = "none", !.req = NoCall]

Beaten(r) ==
    [r EXCEPT !.work = "beaten",
              !.wire = Append(@, [kind |-> "pending", to |-> r.req])]

Answered(r) ==
    [r EXCEPT !.work = "none", !.req = NoCall,
              !.wire = Append(@, [kind |-> "answer", to |-> r.req])]

Died(r, n) == [Cut(r) EXCEPT !.wire = SubSeq(@, 1, n)]

LEMMA OpenedFacts ==
    ASSUME NEW old \in BOOLEAN
    PROVE  /\ Opened(old) \in Connections /\ Sound(Opened(old))
           /\ Quiet(Opened(old)) /\ Alive(Opened(old))
           /\ Opened(old).link = "up" /\ Opened(old).work = "none"
           /\ \A c \in Calls : ~Concerns(Opened(old), c)
<1>1. [kind |-> "answer", to |-> NoCall] # Eof
    BY DEF Eof
<1>2. <<>> \in Seq(Frames) /\ Len(<<>>) = 0
    BY EmptySeq
<1>3. Opened(old) \in Connections
    BY <1>2, FrameFacts DEF Opened, NotOpened, Connections, Frames
<1> QED
    BY <1>1, <1>2, <1>3 DEF Opened, NotOpened, Sound, AnswerIsLast, Quiet, Alive, Concerns

LEMMA CutFacts ==
    ASSUME NEW r \in Connections, Sound(r)
    PROVE  /\ Cut(r) \in Connections /\ Sound(Cut(r)) /\ Alive(Cut(r))
           /\ Cut(r).link = "down" /\ Cut(r).inFlight = r.inFlight
           /\ Quiet(r) => Quiet(Cut(r))
           /\ Cut(r).work = "asked" => r.work = "asked" /\ Cut(r).req = r.req
           /\ \A c \in Calls : Concerns(Cut(r), c) => Concerns(r, c)
<1>1. Cut(r) \in Connections
    BY DEF Cut, Connections
<1> QED
    BY <1>1 DEF Cut, Connections, Sound, AnswerIsLast, Quiet, Alive, Concerns

LEMMA ClosedFacts ==
    ASSUME NEW r \in Connections, Sound(r)
    PROVE  /\ Closed(r) \in Connections /\ Sound(Closed(r))
           /\ Closed(r).link = "down"
           /\ Closed(r).work = "asked" => r.work = "asked" /\ Closed(r).req = r.req
           /\ \A c \in Calls : ~Concerns(Closed(r), c)
<1>1. <<>> \in Seq(Frames) /\ Len(<<>>) = 0
    BY EmptySeq
<1>2. Closed(r) \in Connections
    BY <1>1, FrameFacts DEF Closed, Cut, NotOpened, Connections
<1> QED
    BY <1>1, <1>2 DEF Closed, Cut, NotOpened, Connections, Sound, AnswerIsLast, Concerns

LEMMA InFlightFacts ==
    ASSUME NEW r \in Connections, Sound(r), NEW b \in BOOLEAN, NEW q,
           q = Flagged(r, b)
    PROVE  /\ q \in Connections /\ Sound(q)
           /\ q.link = r.link /\ q.inFlight = b
           /\ Quiet(r) => Quiet(q)
           /\ Alive(r) => Alive(q)
           /\ q.work = r.work /\ q.req = r.req
           /\ \A c \in Calls : Concerns(q, c) => Concerns(r, c)
<1>1. q \in Connections
    BY DEF Connections, Flagged
<1> QED
    BY <1>1 DEF Flagged, Connections, Sound, AnswerIsLast, Quiet, Alive, Concerns

\* Only a quiet connection is given a request.
LEMMA DeliveredFacts ==
    ASSUME NEW r \in Connections, Sound(r), Quiet(r), NEW c \in Calls
    PROVE  /\ Delivered(r, c) \in Connections /\ Sound(Delivered(r, c))
           /\ Alive(r) => Alive(Delivered(r, c))
           /\ Delivered(r, c).link = r.link /\ Delivered(r, c).inFlight = r.inFlight
           /\ Delivered(r, c).work = "asked" /\ Delivered(r, c).req = c
           /\ \A d \in Calls : ~Concerns(Delivered(r, c), d)
<1>1. Delivered(r, c) \in Connections
    BY DEF Delivered, Connections
<1> QED
    BY <1>1, FrameFacts DEF Delivered, Connections, Sound, AnswerIsLast, Quiet, Alive, Concerns

LEMMA ReceivedFacts ==
    ASSUME NEW r \in Connections, Sound(r), r.queue # <<>>, NEW q,
           q = Popped(r)
    PROVE  /\ q \in Connections /\ Sound(q)
           /\ Alive(r) => Alive(q)
           /\ q.link = r.link /\ q.inFlight = r.inFlight
           /\ q.work = r.work /\ q.req = r.req
           /\ \A c \in Calls : Concerns(q, c) => Concerns(r, c)
           /\ Head(r.queue).kind = "answer" => Quiet(q)
           /\ Head(r.queue) \in Frames
           /\ Head(r.queue).kind # "eof" =>
                 Head(r.queue).to \in Calls /\ Concerns(r, Head(r.queue).to)
<1>1. /\ Tail(r.queue) \in Seq(Frames) /\ Len(Tail(r.queue)) = Len(r.queue) - 1
      /\ Len(r.queue) \in Nat /\ Len(r.queue) > 0
      /\ Head(r.queue) = r.queue[1] /\ Head(r.queue) \in Frames
      /\ \A i \in 1..Len(Tail(r.queue)) : Tail(r.queue)[i] = r.queue[i + 1]
    BY Taken DEF Connections
<1>2. q \in Connections
  <2>1. r.retained - 1 \in Nat
      BY <1>1 DEF Sound
  <2> QED
      BY <1>1, <2>1 DEF Connections, Popped
<1>3. /\ q.queue = Tail(r.queue) /\ q.wire = r.wire /\ q.work = r.work
      /\ q.req = r.req /\ q.link = r.link /\ q.inFlight = r.inFlight
      /\ q.pump = r.pump /\ q.frame = r.frame /\ q.unasked = r.unasked
      /\ q.retained = Len(q.queue)
    BY <1>1 DEF Connections, Sound, Popped
<1>4. /\ \A i \in 1..Len(q.queue) : i + 1 \in 1..Len(r.queue)
      /\ 1 \in 1..Len(r.queue)
    BY <1>1, <1>3
<1>5. AnswerIsLast(q)
    BY <1>1, <1>3, <1>4 DEF Sound, AnswerIsLast
<1>6. Sound(q)
    BY <1>1, <1>3, <1>4, <1>5 DEF Sound
<1>7. \A c \in Calls : Concerns(q, c) => Concerns(r, c)
    BY <1>1, <1>3, <1>4 DEF Concerns
<1>8. Head(r.queue).kind = "answer" => Quiet(q)
    BY <1>1, <1>3, <1>4 DEF Sound, AnswerIsLast, Quiet
<1>9. Head(r.queue).kind # "eof" =>
         Head(r.queue).to \in Calls /\ Concerns(r, Head(r.queue).to)
    BY <1>1, <1>4, FrameFacts DEF Sound, IsFrame, Concerns
<1> QED
    BY <1>1, <1>2, <1>3, <1>6, <1>7, <1>8, <1>9 DEF Alive

(* The pump hands over the next frame f; w is what is left on the wire.    *)
LEMMA HandedFacts ==
    ASSUME NEW r \in Connections, Sound(r), NEW f \in Frames, NEW w, NEW q,
           q = Carried(r, f, w),
           \/ r.wire # <<>> /\ f = Head(r.wire) /\ w = Tail(r.wire)
           \/ r.wire = <<>> /\ r.link = "down" /\ f = Eof /\ w = r.wire
    PROVE  /\ q \in Connections /\ Sound(q)
           /\ q.link = r.link /\ q.inFlight = r.inFlight
           /\ q.work = r.work /\ q.req = r.req
           /\ r.inFlight \/ r.wire = <<>> => Alive(q)
           /\ Quiet(r) => Quiet(q)
           /\ \A c \in Calls : Concerns(q, c) => Concerns(r, c)
<1>1. /\ Append(r.queue, f) \in Seq(Frames) /\ Len(r.queue) \in Nat
      /\ Len(Append(r.queue, f)) = Len(r.queue) + 1
      /\ \A i \in 1..Len(r.queue) : Append(r.queue, f)[i] = r.queue[i]
      /\ Append(r.queue, f)[Len(r.queue) + 1] = f
    BY Added DEF Connections
<1>2. /\ w \in Seq(Frames) /\ Len(w) \in Nat
      /\ r.wire # <<>> =>
            /\ Len(w) = Len(r.wire) - 1 /\ f = r.wire[1] /\ 1 \in 1..Len(r.wire)
            /\ \A i \in 1..Len(w) : w[i] = r.wire[i + 1] /\ i + 1 \in 1..Len(r.wire)
      /\ Len(w) = 0 => w = <<>>
  <2>1. CASE r.wire # <<>>
    <3>1. r.wire \in Seq(Frames) /\ w = Tail(r.wire) /\ f = Head(r.wire)
        BY <2>1 DEF Connections
    <3>2. /\ w \in Seq(Frames) /\ Len(w) = Len(r.wire) - 1
          /\ Len(r.wire) \in Nat /\ Len(r.wire) > 0 /\ f = r.wire[1]
          /\ \A i \in 1..Len(w) : w[i] = r.wire[i + 1]
        BY <2>1, <3>1, Taken
    <3> QED
        BY <3>2, EmptySeq
  <2>2. CASE r.wire = <<>>
      BY <2>2, EmptySeq DEF Connections
  <2> QED
      BY <2>1, <2>2
<1>3. /\ q.queue = Append(r.queue, f) /\ q.wire = w /\ q.work = r.work
      /\ q.req = r.req /\ q.link = r.link /\ q.inFlight = r.inFlight
      /\ q.pump = "sent" /\ q.frame = f /\ q.unasked = ~r.inFlight
      /\ q.retained = Len(q.queue)
    BY <1>1 DEF Connections, Sound, Carried
<1>4. q \in Connections
  <2>1. r.retained + 1 \in Nat
      BY DEF Connections
  <2>2. /\ Append(r.queue, f) \in Seq(Frames) /\ w \in Seq(Frames)
        /\ (~r.inFlight) \in BOOLEAN
      BY <1>1, <1>2
  <2>3. r \in Connections
      OBVIOUS
  <2> QED
      BY <2>1, <2>2, <2>3 DEF Connections, Carried
<1>5. IsFrame(f) \/ (f = Eof /\ r.link # "up")
    BY <1>2 DEF Sound
<1>6. /\ \A i \in 1..Len(q.queue) : IsFrame(q.queue[i]) \/ (q.queue[i] = Eof /\ q.link # "up")
      /\ \A i \in 1..Len(q.wire) : IsFrame(q.wire[i])
  <2>1. \A i \in 1..Len(q.queue) : i \in 1..Len(r.queue) \/ i = Len(r.queue) + 1
      BY <1>1, <1>3
  <2> QED
      BY <1>1, <1>2, <1>3, <1>5, <2>1 DEF Sound
<1>7. AnswerIsLast(q)
  <2>1. ASSUME NEW i \in 1..Len(q.wire), q.wire[i].kind = "answer"
        PROVE  i = Len(q.wire) /\ q.work = "none"
    <3>1. CASE r.wire # <<>>
      <4>1. /\ r.wire[i + 1].kind = "answer" /\ i + 1 \in 1..Len(r.wire)
            /\ Len(w) = Len(r.wire) - 1
          BY <1>2, <1>3, <2>1, <3>1
      <4>2. i + 1 = Len(r.wire) /\ r.work = "none"
          BY <4>1 DEF Sound, AnswerIsLast
      <4> QED
          BY <1>2, <1>3, <4>1, <4>2
    <3>2. CASE r.wire = <<>>
        BY <1>3, <2>1, <3>2, EmptySeq
    <3> QED
        BY <3>1, <3>2
  <2>2. ASSUME NEW i \in 1..Len(q.queue), q.queue[i].kind = "answer"
        PROVE  /\ q.wire = <<>> /\ q.work = "none"
               /\ \A j \in 1..Len(q.queue) : j > i => q.queue[j] = Eof
    <3>1. CASE i \in 1..Len(r.queue)
        BY <1>1, <1>2, <1>3, <2>2, <3>1 DEF Sound, AnswerIsLast
    <3>2. CASE i = Len(r.queue) + 1
        BY <1>1, <1>2, <1>3, <2>2, <3>2, FrameFacts DEF Sound, AnswerIsLast
    <3> QED
        BY <1>1, <1>3, <3>1, <3>2
  <2> QED
      BY <2>1, <2>2 DEF AnswerIsLast
<1>8. r.inFlight \/ r.wire = <<>> => Alive(q)
  <2>1. r.wire # <<>> => f # Eof
      BY <1>2, FrameFacts DEF Sound
  <2> QED
      BY <1>3, <2>1 DEF Alive, Connections
<1>9. Quiet(r) => Quiet(q)
    BY <1>1, <1>3 DEF Quiet
<1>10. ASSUME NEW c \in Calls, Concerns(q, c)
       PROVE  Concerns(r, c)
  <2>1. CASE \E i \in 1..Len(q.wire) : q.wire[i].to = c
    <3>1. r.wire # <<>>
        BY <1>3, <2>1, EmptySeq
    <3>2. PICK i \in 1..Len(w) : w[i].to = c
        BY <1>3, <2>1
    <3>3. i + 1 \in 1..Len(r.wire) /\ r.wire[i + 1].to = c
        BY <1>2, <3>1, <3>2
    <3> QED
        BY <3>3 DEF Concerns
  <2>2. CASE \E i \in 1..Len(q.queue) : q.queue[i].to = c
    <3>1. PICK i \in 1..Len(q.queue) : q.queue[i].to = c
        BY <2>2
    <3>2. CASE i \in 1..Len(r.queue)
        BY <1>1, <1>3, <3>1, <3>2 DEF Concerns
    <3>3. CASE i = Len(r.queue) + 1
      <4>1. f.to = c /\ f # Eof
          BY <1>1, <1>3, <3>1, <3>3, FrameFacts
      <4> QED
          BY <1>2, <4>1 DEF Concerns
    <3> QED
        BY <1>1, <1>3, <3>2, <3>3
  <2> QED
      BY <1>3, <1>10, <2>1, <2>2 DEF Concerns
<1> QED
    BY <1>3, <1>4, <1>6, <1>7, <1>8, <1>9, <1>10 DEF Sound

LEMMA PumpedFacts ==
    ASSUME NEW r \in Connections, Sound(r), r.pump = "sent", NEW ends \in BOOLEAN,
           ends => r.frame = Eof \/ r.unasked, NEW q,
           q = Resumed(r, ends)
    PROVE  /\ q \in Connections /\ Sound(q)
           /\ q.link = r.link /\ q.inFlight = r.inFlight
           /\ q.work = r.work /\ q.req = r.req
           /\ Alive(r) => Alive(q)
           /\ Quiet(r) => Quiet(q)
           /\ \A c \in Calls : Concerns(q, c) => Concerns(r, c)
<1>1. q \in Connections
    BY FrameFacts DEF Connections, Resumed
<1> QED
    BY <1>1 DEF Resumed, Connections, Sound, AnswerIsLast, Quiet, Alive, Concerns

LEMMA RunsFacts ==
    ASSUME NEW r \in Connections, Sound(r), r.work = "asked", NEW q,
           q = Begun(r)
    PROVE  /\ q \in Connections /\ Sound(q)
           /\ q.link = r.link /\ q.inFlight = r.inFlight /\ q.work # "asked"
           /\ Alive(r) => Alive(q)
           /\ r.req \in Calls /\ ~Quiet(r)
           /\ \A c \in Calls : Concerns(q, c) =>
                 Concerns(r, c) \/ (c = r.req /\ r.link = "up")
<1>1. q \in Connections /\ r.req \in Calls
    BY DEF Connections, Sound, Begun
<1> QED
    BY <1>1 DEF Begun, Connections, Sound, AnswerIsLast, Quiet, Alive, Concerns

(* The worker says something about the request it is at work on.           *)
LEMMA SaidFacts ==
    ASSUME NEW r \in Connections, Sound(r), r.link = "up",
           r.work \in {"running", "beaten"}, NEW q \in {Beaten(r), Answered(r)}
    PROVE  /\ q \in Connections /\ Sound(q)
           /\ q.link = r.link /\ q.inFlight = r.inFlight /\ q.work # "asked"
           /\ Alive(r) => Alive(q)
           /\ ~Quiet(r)
           /\ \A c \in Calls : Concerns(q, c) => Concerns(r, c)
<1>1. r.req \in Calls
    BY DEF Connections, Sound
<1>2. PICK f \in Frames :
         /\ IsFrame(f) /\ f.to = r.req
         /\ \/ f.kind = "pending" /\ q = [r EXCEPT !.work = "beaten", !.wire = Append(@, f)]
            \/ q = [r EXCEPT !.work = "none", !.req = NoCall, !.wire = Append(@, f)]
    BY <1>1 DEF Frames, IsFrame, Beaten, Answered
<1>3. /\ Append(r.wire, f) \in Seq(Frames) /\ Len(r.wire) \in Nat
      /\ Len(Append(r.wire, f)) = Len(r.wire) + 1
      /\ \A i \in 1..Len(r.wire) : Append(r.wire, f)[i] = r.wire[i]
      /\ Append(r.wire, f)[Len(r.wire) + 1] = f
    BY Added DEF Connections
<1>4. q \in Connections
  <2>1. PICK wire \in Seq(Frames) : wire = Append(r.wire, f)
      BY <1>3
  <2>2. CASE q = [r EXCEPT !.work = "beaten", !.wire = Append(@, f)]
    <3>1. q = [r EXCEPT !.work = "beaten", !.wire = wire]
        BY <2>1, <2>2 DEF Connections
    <3> QED
        BY <3>1 DEF Connections
  <2>3. CASE q = [r EXCEPT !.work = "none", !.req = NoCall, !.wire = Append(@, f)]
    <3>1. q = [r EXCEPT !.work = "none", !.req = NoCall, !.wire = wire]
        BY <2>1, <2>3 DEF Connections
    <3> QED
        BY <3>1 DEF Connections
  <2> QED
      BY <1>2, <2>2, <2>3
<1>5. /\ q.queue = r.queue /\ q.wire = Append(r.wire, f) /\ q.link = r.link
      /\ q.inFlight = r.inFlight /\ q.retained = r.retained
      /\ q.pump = r.pump /\ q.frame = r.frame /\ q.unasked = r.unasked
      /\ \/ q.work = "beaten" /\ q.req = r.req /\ f.kind = "pending"
         \/ q.work = "none" /\ q.req = NoCall
    BY <1>2 DEF Connections
<1>6. \A i \in 1..Len(q.wire) : i \in 1..Len(r.wire) \/ i = Len(r.wire) + 1
    BY <1>3, <1>5
<1>7. /\ \A i \in 1..Len(r.wire) : r.wire[i].kind # "answer"
      /\ \A i \in 1..Len(r.queue) : r.queue[i].kind # "answer"
    BY DEF Sound, AnswerIsLast
<1>8. AnswerIsLast(q)
    BY <1>3, <1>5, <1>6, <1>7 DEF AnswerIsLast
<1>9. Sound(q)
    BY <1>1, <1>2, <1>3, <1>5, <1>6, <1>8 DEF Sound
<1>10. \A c \in Calls : Concerns(q, c) => Concerns(r, c)
    BY <1>2, <1>3, <1>5, <1>6 DEF Concerns
<1> QED
    BY <1>4, <1>5, <1>9, <1>10 DEF Alive, Quiet

LEMMA DeadFacts ==
    ASSUME NEW r \in Connections, Sound(r), NEW n \in 0..Len(r.wire), NEW q,
           q = Died(r, n)
    PROVE  /\ q \in Connections /\ Sound(q) /\ Alive(q)
           /\ q.link = "down" /\ q.inFlight = r.inFlight
           /\ q.work = "asked" => r.work = "asked" /\ q.req = r.req
           /\ Quiet(r) => Quiet(q)
           /\ \A c \in Calls : Concerns(q, c) => Concerns(r, c)
<1>1. /\ SubSeq(r.wire, 1, n) \in Seq(Frames) /\ Len(SubSeq(r.wire, 1, n)) = n
      /\ \A i \in 1..n : SubSeq(r.wire, 1, n)[i] = r.wire[i] /\ i \in 1..Len(r.wire)
      /\ Len(r.wire) \in Nat
    BY Cutoff, LenProperties DEF Connections
<1>2. /\ Cut(r) \in Connections /\ Sound(Cut(r)) /\ Cut(r).link = "down"
      /\ Cut(r).inFlight = r.inFlight
      /\ Quiet(r) => Quiet(Cut(r))
      /\ Cut(r).work = "asked" => r.work = "asked" /\ Cut(r).req = r.req
      /\ \A c \in Calls : Concerns(Cut(r), c) => Concerns(r, c)
    BY CutFacts
<1>3. /\ Cut(r).wire = r.wire /\ Cut(r).queue = r.queue
      /\ Cut(r).work \in {"none", "asked"}
    BY DEF Cut, Connections, Sound
<1>4. q \in Connections
    BY <1>1, <1>2, <1>3 DEF Connections, Died
<1>5. /\ q.wire = SubSeq(r.wire, 1, n) /\ q.queue = r.queue
      /\ q.work = Cut(r).work /\ q.req = Cut(r).req /\ q.link = "down"
      /\ q.retained = Cut(r).retained /\ q.inFlight = r.inFlight
  <2>1. PICK x \in Connections : x = Cut(r)
      BY <1>2
  <2>2. q = [x EXCEPT !.wire = SubSeq(x.wire, 1, n)]
      BY <2>1 DEF Died
  <2>3. /\ q.wire = SubSeq(x.wire, 1, n) /\ q.queue = x.queue
        /\ q.work = x.work /\ q.req = x.req /\ q.link = x.link
        /\ q.retained = x.retained /\ q.inFlight = x.inFlight
      BY <2>2 DEF Connections
  <2> QED
      BY <1>2, <1>3, <2>1, <2>3
<1>6. r.wire = <<>> => q.wire = <<>>
    BY <1>1, <1>5, EmptySeq
<1>7. AnswerIsLast(q)
  <2>1. AnswerIsLast(Cut(r))
      BY <1>2 DEF Sound
  <2>2. ASSUME NEW i \in 1..Len(q.wire), q.wire[i].kind = "answer"
        PROVE  i = Len(q.wire) /\ q.work = "none"
    <3>1. i \in 1..n /\ i \in 1..Len(r.wire) /\ r.wire[i].kind = "answer"
        BY <1>1, <1>5, <2>2
    <3>2. i = Len(r.wire) /\ Cut(r).work = "none"
        BY <1>3, <2>1, <3>1 DEF AnswerIsLast
    <3> QED
        BY <1>1, <1>5, <3>1, <3>2
  <2>3. ASSUME NEW i \in 1..Len(q.queue), q.queue[i].kind = "answer"
        PROVE  /\ q.wire = <<>> /\ q.work = "none"
               /\ \A j \in 1..Len(q.queue) : j > i => q.queue[j] = Eof
      BY <1>3, <1>5, <1>6, <2>1, <2>3 DEF AnswerIsLast
  <2> QED
      BY <2>2, <2>3 DEF AnswerIsLast
<1>8. Sound(q)
    BY <1>1, <1>2, <1>3, <1>5, <1>7 DEF Sound
<1>9. \A c \in Calls : Concerns(q, c) => Concerns(r, c)
    BY <1>1, <1>2, <1>3, <1>5 DEF Concerns
<1>10. Quiet(r) => Quiet(q)
    BY <1>2, <1>3, <1>5, <1>6 DEF Quiet
<1> QED
    BY <1>2, <1>4, <1>5, <1>8, <1>9, <1>10 DEF Alive

-----------------------------------------------------------------------------
(***************************************************************************)
(* What carries each part of the invariant over a step.                    *)
(***************************************************************************)
LEMMA InHand ==
    ASSUME TypeOK, HandsInv, NEW c \in Calls, pc[c] \in Holding
    PROVE  /\ hand[c] \in Conns /\ conn[hand[c]] \in Connections
           /\ conn[hand[c]].link # "none"
           /\ \A d \in Calls \ {c} : hand[d] # hand[c]
           /\ \A i \in 1..Len(idle) : idle[i] # hand[c]
BY DEF TypeOK, HandsInv

LEMMA HandsKept ==
    ASSUME TypeOK, HandsInv, hand' = hand, idle' = idle,
           \A c \in Calls : pc'[c] \in Holding <=> pc[c] \in Holding,
           \A k \in Conns : conn[k].link # "none" => conn'[k].link # "none"
    PROVE  HandsInv'
<1>1. \A i \in 1..Len(idle) : idle[i] \in Conns
    BY ElementOfSeq DEF TypeOK
<1> QED
    BY <1>1 DEF HandsInv, TypeOK

\* c lets go of its connection, to the pool or for good.
LEMMA HandsLeft ==
    ASSUME TypeOK, HandsInv, NEW c \in Calls, pc[c] \in Holding,
           hand' = [hand EXCEPT ![c] = NoConn],
           pc'[c] \notin Holding, \A d \in Calls \ {c} : pc'[d] = pc[d],
           \A k \in Conns : conn[k].link # "none" => conn'[k].link # "none",
           idle' \in {idle, Append(idle, hand[c])}
    PROVE  HandsInv'
<1>1. hand[c] \in Conns /\ idle \in Seq(Conns)
    BY InHand DEF TypeOK
<1>2. /\ Len(idle) \in Nat
      /\ Len(Append(idle, hand[c])) = Len(idle) + 1
      /\ \A i \in 1..Len(idle) : Append(idle, hand[c])[i] = idle[i] /\ idle[i] \in Conns
      /\ Append(idle, hand[c])[Len(idle) + 1] = hand[c]
    BY <1>1, Added, ElementOfSeq
<1>3. \A i \in 1..Len(idle') :
         \/ i \in 1..Len(idle) /\ idle'[i] = idle[i]
         \/ i = Len(idle) + 1 /\ idle'[i] = hand[c]
    BY <1>2
<1>4. \A d \in Calls : hand'[d] = IF d = c THEN NoConn ELSE hand[d]
    BY DEF TypeOK
<1>5. /\ \A d \in Calls : hand'[d] # NoConn <=> pc'[d] \in Holding
      /\ \A d, e \in Calls : hand'[d] # NoConn /\ hand'[d] = hand'[e] => d = e
      /\ \A d \in Calls : hand'[d] # NoConn => conn'[hand'[d]].link # "none"
  <2>1. \A d \in Calls : hand'[d] # NoConn <=> pc'[d] \in Holding
      BY <1>4 DEF HandsInv
  <2>2. \A d, e \in Calls : hand'[d] # NoConn /\ hand'[d] = hand'[e] => d = e
      BY <1>4 DEF HandsInv
  <2>3. ASSUME NEW d \in Calls, hand'[d] # NoConn
        PROVE  conn'[hand'[d]].link # "none"
    <3>1. hand[d] # NoConn => hand[d] \in Conns /\ conn[hand[d]].link # "none"
        BY DEF HandsInv, TypeOK
    <3> QED
        BY <1>4, <2>3, <3>1
  <2> QED
      BY <2>1, <2>2, <2>3
<1>6. \A d \in Calls : \A i \in 1..Len(idle') : hand'[d] # idle'[i]
    BY <1>1, <1>2, <1>3, <1>4, InHand DEF HandsInv
<1>7. \A i, j \in 1..Len(idle') : idle'[i] = idle'[j] => i = j
  <2>1. \A i \in 1..Len(idle) : idle[i] # hand[c]
      BY InHand
  <2> QED
      BY <1>3, <2>1 DEF HandsInv
<1>8. \A i \in 1..Len(idle') : conn'[idle'[i]].link # "none"
    BY <1>1, <1>2, <1>3, InHand DEF HandsInv
<1> QED
    BY <1>5, <1>6, <1>7, <1>8 DEF HandsInv

\* k was in nobody's hand: new, or the last of the pool.
LEMMA HandsTaken ==
    ASSUME TypeOK, HandsInv, NEW c \in Calls, pc[c] \notin Holding,
           NEW k \in Conns,
           hand' = [hand EXCEPT ![c] = k],
           pc'[c] \in Holding, \A d \in Calls \ {c} : pc'[d] = pc[d],
           \A j \in Conns : conn[j].link # "none" => conn'[j].link # "none",
           conn'[k].link # "none",
           \A d \in Calls : hand[d] # k,
           NEW n \in 0..Len(idle), idle' = SubSeq(idle, 1, n),
           \A i \in 1..n : idle[i] # k
    PROVE  HandsInv'
<1>1. /\ Len(idle') = n
      /\ \A i \in 1..n : idle'[i] = idle[i] /\ i \in 1..Len(idle) /\ idle[i] \in Conns
    BY Cutoff, ElementOfSeq, LenProperties DEF TypeOK
<1>2. \A d \in Calls : hand'[d] = IF d = c THEN k ELSE hand[d]
    BY DEF TypeOK
<1>3. /\ \A d \in Calls : hand'[d] # NoConn <=> pc'[d] \in Holding
      /\ \A d, e \in Calls : hand'[d] # NoConn /\ hand'[d] = hand'[e] => d = e
      /\ \A d \in Calls : hand'[d] # NoConn => conn'[hand'[d]].link # "none"
  <2>1. \A d \in Calls : hand'[d] # NoConn <=> pc'[d] \in Holding
      BY <1>2 DEF HandsInv
  <2>2. \A d, e \in Calls : hand'[d] # NoConn /\ hand'[d] = hand'[e] => d = e
      BY <1>2 DEF HandsInv
  <2>3. ASSUME NEW d \in Calls, hand'[d] # NoConn
        PROVE  conn'[hand'[d]].link # "none"
    <3>1. hand[d] # NoConn => hand[d] \in Conns /\ conn[hand[d]].link # "none"
        BY DEF HandsInv, TypeOK
    <3> QED
        BY <1>2, <2>3, <3>1
  <2> QED
      BY <2>1, <2>2, <2>3
<1>4. /\ \A d \in Calls : \A i \in 1..Len(idle') : hand'[d] # idle'[i]
      /\ \A i, j \in 1..Len(idle') : idle'[i] = idle'[j] => i = j
      /\ \A i \in 1..Len(idle') : conn'[idle'[i]].link # "none"
    BY <1>1, <1>2 DEF HandsInv
<1> QED
    BY <1>3, <1>4 DEF HandsInv

LEMMA StreamStep ==
    ASSUME TypeOK, StreamInv, NEW k \in Conns,
           \A j \in Conns \ {k} : conn'[j] = conn[j],
           \A c \in Calls : hand[c] \in Conns \ {k} => hand'[c] = hand[c],
           \A c \in Calls : ran'[c] >= ran[c] /\ ran'[c] \in Nat,
           Sound(conn'[k]),
           \A c \in Calls : Concerns(conn'[k], c) => hand'[c] = k /\ ran'[c] > 0,
           conn'[k].link = "up" /\ conn'[k].work = "asked" =>
               hand'[conn'[k].req] = k
    PROVE  StreamInv'
<1> SUFFICES ASSUME NEW j \in Conns, j # k
             PROVE  /\ Sound(conn'[j])
                    /\ \A c \in Calls : Concerns(conn'[j], c) =>
                          hand'[c] = j /\ ran'[c] > 0
                    /\ conn'[j].link = "up" /\ conn'[j].work = "asked" =>
                          hand'[conn'[j].req] = j
    BY DEF StreamInv, Sound, AnswerIsLast, IsFrame, Concerns
<1>1. conn'[j] = conn[j]
    OBVIOUS
<1>2. Sound(conn'[j])
    BY <1>1 DEF StreamInv
<1>3. \A c \in Calls : Concerns(conn'[j], c) => hand'[c] = j /\ ran'[c] > 0
    BY <1>1 DEF StreamInv, TypeOK
<1>4. conn'[j].link = "up" /\ conn'[j].work = "asked" => hand'[conn'[j].req] = j
  <2>1. conn[j].work = "asked" => conn[j].req \in Calls
      BY DEF StreamInv, Sound, TypeOK, Connections
  <2> QED
      BY <1>1, <2>1 DEF StreamInv
<1> QED
    BY <1>2, <1>3, <1>4

LEMMA StreamKept ==
    ASSUME StreamInv, conn' = conn, hand' = hand, ran' = ran
    PROVE  StreamInv'
BY DEF StreamInv, Sound, AnswerIsLast, IsFrame, Concerns

LEMMA PoolStep ==
    ASSUME PoolInv,
           \A i \in 1..Len(idle') :
              \/ \E j \in 1..Len(idle) :
                    idle'[i] = idle[j] /\ conn'[idle[j]] = conn[idle[j]]
              \/ Quiet(conn'[idle'[i]]) /\ Alive(conn'[idle'[i]])
    PROVE  PoolInv'
BY DEF PoolInv, Quiet, Alive

LEMMA CallsStep ==
    ASSUME TypeOK, HandsInv, CallInv, NEW c \in Calls,
           \A d \in Calls \ {c} :
              /\ pc'[d] = pc[d] /\ result'[d] = result[d] /\ hand'[d] = hand[d]
              /\ hand[d] \in Conns => conn'[hand[d]] = conn[hand[d]],
           WantsQuiet(c)' => Quiet(conn'[hand'[c]]),
           WantsAlive(c)' => Alive(conn'[hand'[c]]),
           Exchanging(c)' => conn'[hand'[c]].inFlight
    PROVE  CallInv'
<1> SUFFICES ASSUME NEW d \in Calls, d # c
             PROVE  /\ WantsQuiet(d)' => Quiet(conn'[hand'[d]])
                    /\ WantsAlive(d)' => Alive(conn'[hand'[d]])
                    /\ Exchanging(d)' => conn'[hand'[d]].inFlight
    BY DEF CallInv, Quiet, Alive
<1>1. /\ WantsQuiet(d)' = WantsQuiet(d) /\ WantsAlive(d)' = WantsAlive(d)
      /\ Exchanging(d)' = Exchanging(d)
    BY DEF WantsQuiet, WantsAlive, Exchanging, Broken
<1>2. WantsQuiet(d) \/ WantsAlive(d) \/ Exchanging(d) => pc[d] \in Holding
    BY DEF WantsQuiet, WantsAlive, Exchanging, Holding
<1>3. pc[d] \in Holding => conn'[hand'[d]] = conn[hand[d]]
    BY InHand
<1> QED
    BY <1>1, <1>2, <1>3 DEF CallInv

(* The requests handed to a worker: those run, and those waiting to run.   *)
LEMMA AskedCounted ==
    ASSUME RunsInv, NEW c \in Calls,
           \A k \in Conns : conn'[k].work = "asked" =>
              conn[k].work = "asked" /\ conn'[k].req = conn[k].req
    PROVE  /\ IsFiniteSet(Asked(c)') /\ Cardinality(Asked(c)') \in Nat
           /\ Cardinality(Asked(c)) \in Nat
           /\ Cardinality(Asked(c)') <= Cardinality(Asked(c))
<1>1. IsFiniteSet(Asked(c))
    BY DEF RunsInv
<1>2. Asked(c)' \in SUBSET Asked(c)
    BY DEF Asked
<1> QED
    BY <1>1, <1>2, FS_Subset, FS_CardinalityType

LEMMA RunsKept ==
    ASSUME TypeOK, RunsInv, kind' = kind, ran' = ran, NEW c \in Calls,
           \A k \in Conns : conn'[k].work = "asked" =>
              conn[k].work = "asked" /\ conn'[k].req = conn[k].req,
           \A d \in Calls \ {c} :
              pc'[d] = pc[d] /\ reused'[d] = reused[d] /\ result'[d] = result[d],
           Budget(c)' >= Budget(c),
           pc'[c] \in {"start", "take", "connect", "hello"} => ~reused'[c],
           result'[c] \in {"ok", "refused"} => ran[c] > 0
    PROVE  RunsInv'
<1> SUFFICES ASSUME NEW d \in Calls
             PROVE  /\ IsFiniteSet(Asked(d)')
                    /\ ran'[d] + Cardinality(Asked(d)') <= Budget(d)'
                    /\ pc'[d] \in {"start", "take", "connect", "hello"} => ~reused'[d]
                    /\ result'[d] \in {"ok", "refused"} => ran'[d] > 0
    BY DEF RunsInv
<1>1. /\ IsFiniteSet(Asked(d)') /\ Cardinality(Asked(d)') \in Nat
      /\ Cardinality(Asked(d)) \in Nat
      /\ Cardinality(Asked(d)') <= Cardinality(Asked(d))
    BY AskedCounted
<1>2. Budget(d)' >= Budget(d) /\ Budget(d)' \in Nat /\ Budget(d) \in Nat
  <2>1. d # c => Budget(d)' = Budget(d)
      BY DEF Budget, Writes
  <2>2. Budget(d)' \in Nat /\ Budget(d) \in Nat
      BY DEF Budget
  <2> QED
      BY <2>1, <2>2
<1>3. ran'[d] = ran[d] /\ ran[d] \in Nat
      /\ ran[d] + Cardinality(Asked(d)) <= Budget(d)
    BY DEF RunsInv, TypeOK
<1>4. ran'[d] + Cardinality(Asked(d)') <= Budget(d)'
    BY <1>1, <1>2, <1>3
<1> QED
    BY <1>1, <1>3, <1>4 DEF RunsInv

\* c's request reaches the worker of k.
LEMMA RunsAsked ==
    ASSUME TypeOK, RunsInv, kind' = kind, ran' = ran, NEW c \in Calls,
           NEW k \in Conns,
           \A j \in Conns : conn'[j].work = "asked" =>
              \/ conn[j].work = "asked" /\ conn'[j].req = conn[j].req
              \/ j = k /\ conn'[j].req = c,
           \A d \in Calls \ {c} :
              pc'[d] = pc[d] /\ reused'[d] = reused[d] /\ result'[d] = result[d],
           reused' = reused, pc[c] = "sending", pc'[c] \in {"waiting", "ending"},
           result'[c] \notin {"ok", "refused"} \/ ran[c] > 0
    PROVE  RunsInv'
<1> SUFFICES ASSUME NEW d \in Calls
             PROVE  /\ IsFiniteSet(Asked(d)')
                    /\ ran'[d] + Cardinality(Asked(d)') <= Budget(d)'
                    /\ pc'[d] \in {"start", "take", "connect", "hello"} => ~reused'[d]
                    /\ result'[d] \in {"ok", "refused"} => ran'[d] > 0
    BY DEF RunsInv
<1>1. /\ IsFiniteSet(Asked(d)) /\ Cardinality(Asked(d)) \in Nat
      /\ ran[d] + Cardinality(Asked(d)) <= Budget(d)
      /\ ran'[d] = ran[d] /\ ran[d] \in Nat
    BY FS_CardinalityType DEF RunsInv, TypeOK
<1>2. CASE d = c
  <2>1. Asked(c)' \in SUBSET (Asked(c) \cup {k})
      BY DEF Asked
  <2>2. /\ IsFiniteSet(Asked(c) \cup {k})
        /\ Cardinality(Asked(c) \cup {k}) <= Cardinality(Asked(c)) + 1
        /\ Cardinality(Asked(c) \cup {k}) \in Nat
    <3>1. IsFiniteSet(Asked(c)) /\ Cardinality(Asked(c)) \in Nat
        BY <1>1, <1>2
    <3>2. /\ IsFiniteSet(Asked(c) \cup {k})
          /\ Cardinality(Asked(c) \cup {k}) =
                IF k \in Asked(c) THEN Cardinality(Asked(c)) ELSE Cardinality(Asked(c)) + 1
        BY <3>1, FS_AddElement
    <3> QED
        BY <3>1, <3>2
  <2>3. /\ IsFiniteSet(Asked(c)') /\ Cardinality(Asked(c)') \in Nat
        /\ Cardinality(Asked(c)') <= Cardinality(Asked(c) \cup {k})
      BY <2>1, <2>2, FS_Subset, FS_CardinalityType
  <2>4. Budget(c)' = Budget(c) + 1 /\ Budget(c) \in Nat
      BY DEF Budget, Writes
  <2> QED
      BY <1>1, <1>2, <2>2, <2>3, <2>4 DEF RunsInv
<1>3. CASE d # c
  <2>1. Asked(d)' \in SUBSET Asked(d)
      BY <1>3 DEF Asked
  <2>2. /\ IsFiniteSet(Asked(d)') /\ Cardinality(Asked(d)') \in Nat
        /\ Cardinality(Asked(d)') <= Cardinality(Asked(d))
      BY <1>1, <2>1, FS_Subset, FS_CardinalityType
  <2>3. Budget(d)' = Budget(d) /\ Budget(d) \in Nat
      BY <1>3 DEF Budget, Writes
  <2> QED
      BY <1>1, <1>3, <2>2, <2>3 DEF RunsInv
<1> QED
    BY <1>2, <1>3

\* The worker of k begins the request it has.
LEMMA RunsBegun ==
    ASSUME TypeOK, RunsInv, UNCHANGED <<kind, pc, reused, result>>,
           NEW k \in Conns, conn[k].work = "asked", conn[k].req \in Calls,
           conn'[k].work # "asked", \A j \in Conns \ {k} : conn'[j] = conn[j],
           ran' = [ran EXCEPT ![conn[k].req] = @ + 1]
    PROVE  RunsInv'
<1> DEFINE c == conn[k].req
<1> SUFFICES ASSUME NEW d \in Calls
             PROVE  /\ IsFiniteSet(Asked(d)')
                    /\ ran'[d] + Cardinality(Asked(d)') <= Budget(d)'
                    /\ pc'[d] \in {"start", "take", "connect", "hello"} => ~reused'[d]
                    /\ result'[d] \in {"ok", "refused"} => ran'[d] > 0
    BY DEF RunsInv
<1>1. /\ IsFiniteSet(Asked(d)) /\ Cardinality(Asked(d)) \in Nat
      /\ ran[d] + Cardinality(Asked(d)) <= Budget(d)
      /\ ran[d] \in Nat /\ ran'[d] = IF d = c THEN ran[d] + 1 ELSE ran[d]
    BY FS_CardinalityType DEF RunsInv, TypeOK
<1>2. Asked(d)' = Asked(d) \ {k} /\ (d = c <=> k \in Asked(d))
    BY DEF Asked
<1>3. /\ IsFiniteSet(Asked(d)') /\ Cardinality(Asked(d)') \in Nat
      /\ Cardinality(Asked(d)') =
            IF d = c THEN Cardinality(Asked(d)) - 1 ELSE Cardinality(Asked(d))
    BY <1>1, <1>2, FS_RemoveElement, FS_CardinalityType
<1>4. Budget(d)' = Budget(d) /\ Budget(d) \in Nat
    BY DEF Budget, Writes
<1> QED
    BY <1>1, <1>3, <1>4 DEF RunsInv

-----------------------------------------------------------------------------
(***************************************************************************)
(* The slots of the limiter and of the gate are held by the calls that     *)
(* are past them.                                                          *)
(***************************************************************************)
LEMMA LimitsKept ==
    ASSUME LimitsInv, UNCHANGED <<kind, gitCalls, hellos>>,
           \A c \in Calls :
              /\ pc'[c] \in {"start", "done"} <=> pc[c] \in {"start", "done"}
              /\ pc'[c] = "hello" <=> pc[c] = "hello"
    PROVE  LimitsInv'
<1>1. Admitted' = Admitted /\ Greeting' = Greeting
    BY DEF Admitted, Greeting, RunsGit
<1> QED
    BY <1>1 DEF LimitsInv

LEMMA GitCallsMoved ==
    ASSUME TypeOK, LimitsInv, NEW c \in Calls, UNCHANGED <<kind, hellos>>,
           \A d \in Calls \ {c} : pc'[d] = pc[d],
           pc[c] # "hello" /\ pc'[c] # "hello",
           \/ /\ pc[c] = "start" /\ pc'[c] \notin {"start", "done"}
              /\ RunsGit(c) => gitCalls < MaxGit
              /\ gitCalls' = IF RunsGit(c) THEN gitCalls + 1 ELSE gitCalls
           \/ /\ pc[c] \notin {"start", "done"} /\ pc'[c] = "done"
              /\ gitCalls' = IF RunsGit(c) THEN gitCalls - 1 ELSE gitCalls
    PROVE  LimitsInv' /\ gitCalls' \in Nat
<1>1. Greeting' = Greeting
    BY DEF Greeting
<1>2. IsFiniteSet(Admitted) /\ gitCalls = Cardinality(Admitted) /\ gitCalls \in Nat
    BY DEF LimitsInv, TypeOK
<1>3. CASE ~RunsGit(c)
  <2>1. Admitted' = Admitted
      BY <1>3 DEF Admitted, RunsGit
  <2> QED
      BY <1>1, <1>2, <1>3, <2>1 DEF LimitsInv
<1>4. CASE RunsGit(c) /\ pc[c] = "start"
  <2>1. Admitted' = Admitted \cup {c} /\ c \notin Admitted
      BY <1>4 DEF Admitted, RunsGit
  <2>2. IsFiniteSet(Admitted') /\ Cardinality(Admitted') = gitCalls + 1
      BY <1>2, <2>1, FS_AddElement
  <2> QED
      BY <1>1, <1>2, <1>4, <2>2 DEF LimitsInv
<1>5. CASE RunsGit(c) /\ pc[c] # "start"
  <2>1. Admitted' = Admitted \ {c} /\ c \in Admitted
      BY <1>5 DEF Admitted, RunsGit
  <2>2. IsFiniteSet(Admitted') /\ Cardinality(Admitted') = gitCalls - 1
      BY <1>2, <2>1, FS_RemoveElement
  <2>3. Cardinality(Admitted') \in Nat
      BY <2>2, FS_CardinalityType
  <2> QED
      BY <1>1, <1>2, <1>5, <2>2, <2>3 DEF LimitsInv
<1> QED
    BY <1>3, <1>4, <1>5

LEMMA HellosMoved ==
    ASSUME TypeOK, LimitsInv, NEW c \in Calls, UNCHANGED <<kind, gitCalls>>,
           \A d \in Calls \ {c} : pc'[d] = pc[d],
           {pc[c], pc'[c]} \cap {"start", "done"} = {},
           \/ /\ pc[c] # "hello" /\ pc'[c] = "hello"
              /\ hellos < Handshakes /\ hellos' = hellos + 1
           \/ /\ pc[c] = "hello" /\ pc'[c] # "hello"
              /\ hellos' = hellos - 1
    PROVE  LimitsInv' /\ hellos' \in Nat
<1>1. Admitted' = Admitted
    BY DEF Admitted, RunsGit
<1>2. IsFiniteSet(Greeting) /\ hellos = Cardinality(Greeting) /\ hellos \in Nat
    BY DEF LimitsInv, TypeOK
<1>3. CASE pc[c] # "hello"
  <2>1. Greeting' = Greeting \cup {c} /\ c \notin Greeting
      BY <1>3 DEF Greeting
  <2>2. IsFiniteSet(Greeting') /\ Cardinality(Greeting') = hellos + 1
      BY <1>2, <2>1, FS_AddElement
  <2> QED
      BY <1>1, <1>2, <1>3, <2>2 DEF LimitsInv
<1>4. CASE pc[c] = "hello"
  <2>1. Greeting' = Greeting \ {c} /\ c \in Greeting
      BY <1>4 DEF Greeting
  <2>2. IsFiniteSet(Greeting') /\ Cardinality(Greeting') = hellos - 1
      BY <1>2, <2>1, FS_RemoveElement
  <2>3. Cardinality(Greeting') \in Nat
      BY <2>2, FS_CardinalityType
  <2> QED
      BY <1>1, <1>2, <1>4, <2>2, <2>3 DEF LimitsInv
<1> QED
    BY <1>3, <1>4

-----------------------------------------------------------------------------
(***************************************************************************)
(* Steps of the pump and of the worker: one connection changes, no call    *)
(* and no hand does.                                                       *)
(***************************************************************************)
InvExceptRuns ==
    /\ TypeOK /\ HandsInv /\ StreamInv /\ PoolInv /\ CallInv
    /\ AnswersAreOwn /\ LimitsInv

\* A frame on the wire belongs to a call that is waiting, or has given up.
LEMMA WireIsAsked ==
    ASSUME IInv, NEW k \in Conns, conn[k].wire # <<>>
    PROVE  \E c \in Calls : hand[c] = k
<1>1. 1 \in 1..Len(conn[k].wire)
    BY EmptySeq, LenProperties DEF IInv, TypeOK, Connections
<1>2. conn[k].wire[1].to \in Calls /\ Concerns(conn[k], conn[k].wire[1].to)
    BY <1>1 DEF IInv, StreamInv, Sound, IsFrame, Concerns
<1> QED
    BY <1>2 DEF IInv, StreamInv

LEMMA ConnectionStep ==
    ASSUME IInv, NEW k \in Conns, NEW q \in Connections,
           conn' = [conn EXCEPT ![k] = q], UNCHANGED <<kind, calls, idle, limits>>,
           \A c \in Calls : ran'[c] >= ran[c], ran' \in [Calls -> Nat],
           Sound(q), q.inFlight = conn[k].inFlight,
           conn[k].link # "none" => q.link # "none",
           Quiet(conn[k]) => Quiet(q),
           Alive(conn[k]) /\ (conn[k].inFlight \/ conn[k].wire = <<>>) => Alive(q),
           \A c \in Calls : Concerns(q, c) => hand[c] = k /\ ran'[c] > 0,
           q.link = "up" /\ q.work = "asked" => hand[q.req] = k
    PROVE  InvExceptRuns'
<1>1. TypeOK /\ HandsInv /\ StreamInv /\ PoolInv /\ CallInv /\ LimitsInv
    BY DEF IInv
<1>2. /\ conn'[k] = q /\ \A j \in Conns \ {k} : conn'[j] = conn[j]
      /\ conn' \in [Conns -> Connections]
    BY <1>1 DEF TypeOK
<1>3. TypeOK'
    BY <1>1, <1>2 DEF TypeOK, calls, limits
<1>4. HandsInv'
    BY <1>1, <1>2, HandsKept DEF calls
<1>5. StreamInv'
    BY <1>1, <1>2, <1>3, StreamStep DEF calls, TypeOK
<1>6. PoolInv'
  <2> SUFFICES ASSUME NEW i \in 1..Len(idle), idle[i] = k
               PROVE  Quiet(q) /\ Alive(q)
      BY <1>1, <1>2, PoolStep, ElementOfSeq DEF TypeOK
  <2> QED
      BY <1>1 DEF PoolInv, Quiet
<1>7. CallInv'
  <2>1. \A c \in Calls : /\ WantsQuiet(c)' = WantsQuiet(c)
                         /\ WantsAlive(c)' = WantsAlive(c)
                         /\ Exchanging(c)' = Exchanging(c)
      BY DEF WantsQuiet, WantsAlive, Exchanging, Broken, calls
  <2> SUFFICES ASSUME NEW c \in Calls
               PROVE  /\ WantsQuiet(c) => Quiet(conn'[hand[c]])
                      /\ WantsAlive(c) => Alive(conn'[hand[c]])
                      /\ Exchanging(c) => conn'[hand[c]].inFlight
      BY <2>1 DEF CallInv, calls, Quiet, Alive
  <2>2. WantsQuiet(c) \/ WantsAlive(c) \/ Exchanging(c) => hand[c] \in Conns
      BY <1>1, InHand DEF WantsQuiet, WantsAlive, Exchanging, Holding
  <2>3. CASE hand[c] # k
      BY <1>1, <1>2, <2>2, <2>3 DEF CallInv
  <2>4. CASE hand[c] = k
    <3>1. /\ WantsQuiet(c) => Quiet(conn[k])
          /\ WantsAlive(c) => Alive(conn[k])
          /\ Exchanging(c) => conn[k].inFlight
        BY <1>1, <2>4 DEF CallInv
    <3>2. WantsAlive(c) => Exchanging(c) \/ WantsQuiet(c)
        BY DEF WantsQuiet, WantsAlive, Exchanging
    <3>3. Quiet(conn[k]) => conn[k].wire = <<>>
        BY DEF Quiet
    <3> QED
        BY <1>2, <2>4, <3>1, <3>2, <3>3
  <2> QED
      BY <2>3, <2>4
<1>8. AnswersAreOwn'
    BY DEF IInv, AnswersAreOwn, calls
<1>9. LimitsInv'
    BY <1>1, LimitsKept DEF calls, limits
<1> QED
    BY <1>3, <1>4, <1>5, <1>6, <1>7, <1>8, <1>9 DEF InvExceptRuns

\* No request is handed over and none is begun.
LEMMA ConnectionKeeps ==
    ASSUME IInv, NEW k \in Conns, NEW q \in Connections,
           conn' = [conn EXCEPT ![k] = q], UNCHANGED others,
           Sound(q), q.inFlight = conn[k].inFlight,
           conn[k].link # "none" => q.link # "none",
           q.link = "up" => conn[k].link = "up",
           Quiet(conn[k]) => Quiet(q),
           Alive(conn[k]) /\ (conn[k].inFlight \/ conn[k].wire = <<>>) => Alive(q),
           \A c \in Calls : Concerns(q, c) => Concerns(conn[k], c),
           q.work = "asked" => conn[k].work = "asked" /\ q.req = conn[k].req
    PROVE  IInv'
<1>1. TypeOK /\ StreamInv /\ RunsInv /\ ran \in [Calls -> Nat]
    BY DEF IInv, TypeOK
<1>2. UNCHANGED <<kind, calls, idle, limits, ran>>
    BY DEF others
<1>3. \A c \in Calls : Concerns(q, c) => hand[c] = k /\ ran'[c] > 0
    BY <1>1, <1>2 DEF StreamInv
<1>4. q.link = "up" /\ q.work = "asked" => hand[q.req] = k
    BY <1>1 DEF StreamInv
<1>5. InvExceptRuns'
  <2>1. \A c \in Calls : ran'[c] >= ran[c]
      BY <1>1, <1>2
  <2> QED
      BY <1>1, <1>2, <1>3, <1>4, <2>1, ConnectionStep
<1>6. RunsInv'
  <2>1. \A j \in Conns : conn'[j].work = "asked" =>
           conn[j].work = "asked" /\ conn'[j].req = conn[j].req
      BY <1>1 DEF TypeOK
  <2>2. ASSUME NEW c \in Calls
        PROVE  RunsInv'
    <3>1. Budget(c)' = Budget(c) /\ Budget(c) \in Nat
        BY <1>2 DEF Budget, Writes, calls
    <3> QED
        BY <1>1, <1>2, <2>1, <3>1, RunsKept DEF calls, RunsInv
  <2>3. Calls = {} => RunsInv'
      BY DEF RunsInv
  <2> QED
      BY <2>2, <2>3
<1> QED
    BY <1>5, <1>6 DEF IInv, InvExceptRuns

LEMMA PumpReadsKeeps ==
    ASSUME IInv, NEW k \in Conns, PumpReads(k)
    PROVE  IInv'
<1>1. conn[k] \in Connections /\ Sound(conn[k]) /\ conn \in [Conns -> Connections]
    BY DEF IInv, TypeOK, StreamInv
<1>2. PICK f \in Frames, w \in Seq(Frames) :
         /\ conn' = [conn EXCEPT ![k] = [Handed(k, f) EXCEPT !.wire = w]]
         /\ \/ conn[k].wire # <<>> /\ f = Head(conn[k].wire) /\ w = Tail(conn[k].wire)
            \/ conn[k].wire = <<>> /\ conn[k].link = "down" /\ f = Eof /\ w = conn[k].wire
  <2>1. CASE conn[k].wire # <<>>
    <3>0. conn[k].wire \in Seq(Frames)
        BY <1>1 DEF Connections
    <3>1. Head(conn[k].wire) \in Frames /\ Tail(conn[k].wire) \in Seq(Frames)
        BY <2>1, <3>0, Taken
    <3>2. conn' = [conn EXCEPT ![k] =
                    [Handed(k, Head(conn[k].wire)) EXCEPT !.wire = Tail(conn[k].wire)]]
        BY <1>1, <2>1 DEF PumpReads, Handed, Connections
    <3> QED
        BY <2>1, <3>1, <3>2
  <2>2. CASE conn[k].wire = <<>>
    <3>1. conn' = [conn EXCEPT ![k] = Handed(k, Eof)] /\ conn[k].link = "down"
        BY <2>2 DEF PumpReads
    <3>2. Handed(k, Eof) = [Handed(k, Eof) EXCEPT !.wire = conn[k].wire]
        BY <1>1 DEF Handed, Connections
    <3>3. conn[k].wire \in Seq(Frames)
        BY <1>1 DEF Connections
    <3> QED
        BY <2>2, <3>1, <3>2, <3>3, FrameFacts
  <2> QED
      BY <2>1, <2>2
<1>3. PICK q : q = Carried(conn[k], f, w)
    OBVIOUS
<1>4. conn' = [conn EXCEPT ![k] = q]
    BY <1>1, <1>2, <1>3 DEF Carried, Handed, Connections
<1>5. /\ q \in Connections /\ Sound(q)
      /\ q.link = conn[k].link /\ q.inFlight = conn[k].inFlight
      /\ q.work = conn[k].work /\ q.req = conn[k].req
      /\ conn[k].inFlight \/ conn[k].wire = <<>> => Alive(q)
      /\ Quiet(conn[k]) => Quiet(q)
      /\ \A c \in Calls : Concerns(q, c) => Concerns(conn[k], c)
    BY <1>1, <1>2, <1>3, HandedFacts
<1>6. UNCHANGED others
    BY DEF PumpReads
<1> QED
    BY <1>4, <1>5, <1>6, ConnectionKeeps

LEMMA PumpNextKeeps ==
    ASSUME IInv, NEW k \in Conns, PumpNext(k)
    PROVE  IInv'
<1>1. conn[k] \in Connections /\ Sound(conn[k]) /\ conn \in [Conns -> Connections]
    BY DEF IInv, TypeOK, StreamInv
<1>2. PICK ends \in BOOLEAN : ends <=> PumpEnds(k)
    OBVIOUS
<1>3. ends => conn[k].frame = Eof \/ conn[k].unasked
    BY <1>2 DEF PumpEnds
<1>4. PICK q : q = Resumed(conn[k], ends)
    OBVIOUS
<1>5. /\ conn' = [conn EXCEPT ![k] = q] /\ UNCHANGED others
      /\ conn[k].pump = "sent"
    BY <1>1, <1>2, <1>4 DEF PumpNext, Resumed, Connections
<1>6. /\ q \in Connections /\ Sound(q)
      /\ q.link = conn[k].link /\ q.inFlight = conn[k].inFlight
      /\ q.work = conn[k].work /\ q.req = conn[k].req
      /\ Alive(conn[k]) => Alive(q)
      /\ Quiet(conn[k]) => Quiet(q)
      /\ \A c \in Calls : Concerns(q, c) => Concerns(conn[k], c)
    BY <1>1, <1>3, <1>4, <1>5, PumpedFacts
<1> QED
    BY <1>5, <1>6, ConnectionKeeps

LEMMA RunsKeeps ==
    ASSUME IInv, NEW k \in Conns, Runs(k)
    PROVE  IInv'
<1>1. /\ conn[k] \in Connections /\ Sound(conn[k]) /\ conn \in [Conns -> Connections]
      /\ TypeOK /\ StreamInv /\ RunsInv /\ ran \in [Calls -> Nat]
      /\ conn[k].work = "asked"
    BY DEF IInv, TypeOK, StreamInv, Runs
<1>2. PICK q : q = Begun(conn[k])
    OBVIOUS
<1>3. /\ q \in Connections /\ Sound(q)
      /\ q.link = conn[k].link /\ q.inFlight = conn[k].inFlight /\ q.work # "asked"
      /\ Alive(conn[k]) => Alive(q)
      /\ conn[k].req \in Calls /\ ~Quiet(conn[k])
      /\ \A c \in Calls : Concerns(q, c) =>
            Concerns(conn[k], c) \/ (c = conn[k].req /\ conn[k].link = "up")
    BY <1>1, <1>2, RunsFacts
<1>4. /\ conn' = [conn EXCEPT ![k] = q] /\ UNCHANGED <<kind, calls, idle, limits>>
      /\ ran' = [ran EXCEPT ![conn[k].req] = @ + 1]
    BY <1>1, <1>2 DEF Runs, Begun, Connections
<1>5. /\ \A c \in Calls : ran'[c] = IF c = conn[k].req THEN ran[c] + 1 ELSE ran[c]
      /\ ran' \in [Calls -> Nat]
    BY <1>1, <1>3, <1>4
<1>6. \A c \in Calls : ran'[c] >= ran[c] /\ ran[c] \in Nat
    BY <1>1, <1>5
<1>7. \A c \in Calls : Concerns(q, c) => hand[c] = k /\ ran'[c] > 0
    BY <1>1, <1>3, <1>5, <1>6 DEF StreamInv
<1>8. InvExceptRuns'
  <2>1. /\ conn[k].link # "none" => q.link # "none"
        /\ q.link = "up" /\ q.work = "asked" => hand[q.req] = k
        /\ \A c \in Calls : ran'[c] >= ran[c]
      BY <1>3, <1>6
  <2> QED
      BY <1>3, <1>4, <1>5, <1>7, <2>1, ConnectionStep
<1>9. RunsInv'
  <2>1. /\ conn'[k].work # "asked"
        /\ \A j \in Conns \ {k} : conn'[j] = conn[j]
      BY <1>1, <1>3, <1>4
  <2> QED
      BY <1>1, <1>3, <1>4, <2>1, RunsBegun DEF calls
<1> QED
    BY <1>8, <1>9 DEF IInv, InvExceptRuns

LEMMA SaysKeeps ==
    ASSUME IInv, NEW k \in Conns, Beats(k) \/ Answers(k)
    PROVE  IInv'
<1>1. /\ conn[k] \in Connections /\ Sound(conn[k]) /\ conn \in [Conns -> Connections]
      /\ conn[k].link = "up" /\ conn[k].work \in {"running", "beaten"}
      /\ UNCHANGED others
    BY DEF IInv, TypeOK, StreamInv, Beats, Answers
<1>2. PICK q \in {Beaten(conn[k]), Answered(conn[k])} : conn' = [conn EXCEPT ![k] = q]
  <2>1. CASE Beats(k)
    <3>1. conn' = [conn EXCEPT ![k] = Beaten(conn[k])]
        BY <1>1, <2>1 DEF Beats, Beaten, Connections
    <3> QED
        BY <3>1
  <2>2. CASE Answers(k)
    <3>1. conn' = [conn EXCEPT ![k] = Answered(conn[k])]
        BY <1>1, <2>2 DEF Answers, Answered, Connections
    <3> QED
        BY <3>1
  <2> QED
      BY <2>1, <2>2
<1>3. /\ q \in Connections /\ Sound(q)
      /\ q.link = conn[k].link /\ q.inFlight = conn[k].inFlight /\ q.work # "asked"
      /\ Alive(conn[k]) => Alive(q)
      /\ ~Quiet(conn[k])
      /\ \A c \in Calls : Concerns(q, c) => Concerns(conn[k], c)
    BY <1>1, <1>2, SaidFacts
<1> QED
    BY <1>1, <1>2, <1>3, ConnectionKeeps

LEMMA LinkDiesKeeps ==
    ASSUME IInv, NEW k \in Conns, LinkDies(k)
    PROVE  IInv'
<1>1. /\ conn[k] \in Connections /\ Sound(conn[k]) /\ conn \in [Conns -> Connections]
      /\ UNCHANGED others
    BY DEF IInv, TypeOK, StreamInv, LinkDies
<1>2. PICK n \in 0..Len(conn[k].wire) :
         conn' = [conn EXCEPT ![k] = [Cut(conn[k]) EXCEPT !.wire = SubSeq(@, 1, n)]]
    BY DEF LinkDies
<1>3. PICK q : q = Died(conn[k], n)
    OBVIOUS
<1>4. conn' = [conn EXCEPT ![k] = q]
    BY <1>2, <1>3 DEF Died
<1>5. /\ q \in Connections /\ Sound(q) /\ Alive(q)
      /\ q.link = "down" /\ q.inFlight = conn[k].inFlight
      /\ q.work = "asked" => conn[k].work = "asked" /\ q.req = conn[k].req
      /\ Quiet(conn[k]) => Quiet(q)
      /\ \A c \in Calls : Concerns(q, c) => Concerns(conn[k], c)
    BY <1>1, <1>3, DeadFacts
<1> QED
    BY <1>1, <1>4, <1>5, ConnectionKeeps

-----------------------------------------------------------------------------
(***************************************************************************)
(* Steps of a call with no connection in hand.                             *)
(***************************************************************************)
LEMMA EmptyHandedStep ==
    ASSUME IInv, NEW c \in Calls, UNCHANGED <<kind, hand, idle, conn, ran>>,
           NEW place \in Places \ Holding, pc[c] \notin Holding,
           pc' = [pc EXCEPT ![c] = place],
           reused' \in [Calls -> BOOLEAN], seen' \in [Calls -> BOOLEAN],
           result' \in [Calls -> Results], answer' \in [Calls -> Calls \cup {NoCall}],
           \A d \in Calls \ {c} : reused'[d] = reused[d] /\ result'[d] = result[d],
           \A d \in Calls : answer'[d] \in {answer[d], NoCall},
           place \in {"start", "take", "connect", "hello"} => ~reused'[c],
           reused'[c] => reused[c],
           result'[c] \in {result[c], "none", "stopped", "start"},
           place \notin {"start", "take"}
              \/ (pc[c] \in {"start", "take"}),
           place \in {"connect", "hello"} => pc[c] \in {"start", "take", "connect", "hello"},
           gitCalls' \in Nat, hellos' \in Nat, LimitsInv'
    PROVE  IInv'
<1>1. TypeOK /\ HandsInv /\ StreamInv /\ PoolInv /\ CallInv /\ RunsInv
    BY DEF IInv
<1>2. TypeOK'
    BY <1>1 DEF TypeOK
<1>3. pc'[c] = place /\ \A d \in Calls \ {c} : pc'[d] = pc[d]
    BY <1>1 DEF TypeOK
<1>4. HandsInv'
  <2>1. \A d \in Calls : pc'[d] \in Holding <=> pc[d] \in Holding
      BY <1>3
  <2> QED
      BY <1>1, <2>1, HandsKept
<1>5. StreamInv'
    BY <1>1, StreamKept
<1>6. PoolInv'
    BY <1>1, PoolStep
<1>7. CallInv'
  <2>1. ~WantsQuiet(c)' /\ ~WantsAlive(c)' /\ ~Exchanging(c)'
      BY <1>3 DEF WantsQuiet, WantsAlive, Exchanging, Holding
  <2> QED
      BY <1>1, <1>3, <2>1, CallsStep
<1>8. AnswersAreOwn'
    BY DEF IInv, AnswersAreOwn
<1>9. RunsInv'
  <2>1. Budget(c)' >= Budget(c)
      BY <1>1, <1>3 DEF Budget, Writes, RunsInv, Places, Holding
  <2>2. result'[c] \in {"ok", "refused"} => ran[c] > 0
      BY <1>1 DEF RunsInv
  <2> QED
      BY <1>1, <1>3, <2>1, <2>2, RunsKept
<1> QED
    BY <1>2, <1>4, <1>5, <1>6, <1>7, <1>8, <1>9 DEF IInv

LEMMA AdmitKeeps ==
    ASSUME IInv, NEW c \in Calls, Admit(c) \/ AdmitStopped(c)
    PROVE  IInv'
<1>1. TypeOK /\ LimitsInv /\ RunsInv
    BY DEF IInv
<1>2. PICK place \in {"take", "done"} :
         /\ pc[c] = "start" /\ pc' = [pc EXCEPT ![c] = place]
         /\ UNCHANGED <<kind, hand, reused, seen, result, answer, idle, hellos, conn, ran>>
    BY DEF Admit, AdmitStopped, Goto, limits
<1>3. pc'[c] = place /\ \A d \in Calls \ {c} : pc'[d] = pc[d]
    BY <1>1, <1>2 DEF TypeOK
<1>4. LimitsInv' /\ gitCalls' \in Nat /\ hellos' \in Nat
  <2>1. CASE Admit(c)
      BY <1>1, <1>2, <1>3, <2>1, GitCallsMoved DEF Admit, Goto, TypeOK
  <2>2. CASE AdmitStopped(c)
    <3>1. /\ UNCHANGED <<gitCalls, hellos>>
          /\ \A d \in Calls : /\ pc'[d] \in {"start", "done"} <=> pc[d] \in {"start", "done"}
                              /\ pc'[d] = "hello" <=> pc[d] = "hello"
        BY <1>1, <1>2, <1>3, <2>2 DEF AdmitStopped, Goto, limits, TypeOK
    <3> QED
        BY <1>1, <1>2, <3>1, LimitsKept DEF TypeOK
  <2> QED
      BY <2>1, <2>2
<1>5. place \in Places \ Holding /\ pc[c] \notin Holding /\ ~reused[c]
    BY <1>1, <1>2 DEF Places, Holding, RunsInv
<1> QED
    BY <1>1, <1>2, <1>3, <1>4, <1>5, EmptyHandedStep DEF TypeOK

LEMMA TakeNoneKeeps ==
    ASSUME IInv, NEW c \in Calls, Take(c), idle = <<>>
    PROVE  IInv'
<1>1. TypeOK /\ LimitsInv /\ RunsInv
    BY DEF IInv
<1>2. /\ pc[c] = "take" /\ pc' = [pc EXCEPT ![c] = "connect"]
      /\ UNCHANGED <<kind, hand, reused, seen, result, answer, idle, gitCalls, hellos,
                     conn, ran>>
    BY DEF Take, Goto, limits
<1>3. pc'[c] = "connect" /\ \A d \in Calls \ {c} : pc'[d] = pc[d]
    BY <1>1, <1>2 DEF TypeOK
<1>4. LimitsInv' /\ gitCalls' \in Nat /\ hellos' \in Nat
  <2>1. \A d \in Calls : /\ pc'[d] \in {"start", "done"} <=> pc[d] \in {"start", "done"}
                         /\ pc'[d] = "hello" <=> pc[d] = "hello"
      BY <1>2, <1>3
  <2> QED
      BY <1>1, <1>2, <2>1, LimitsKept DEF TypeOK
<1>5. "connect" \in Places \ Holding /\ pc[c] \notin Holding /\ ~reused[c]
    BY <1>1, <1>2 DEF Places, Holding, RunsInv
<1> QED
    BY <1>1, <1>2, <1>3, <1>4, <1>5, EmptyHandedStep DEF TypeOK

LEMMA JoinGateKeeps ==
    ASSUME IInv, NEW c \in Calls, JoinGate(c)
    PROVE  IInv'
<1>1. TypeOK /\ LimitsInv /\ RunsInv
    BY DEF IInv
<1>2. /\ pc[c] = "connect" /\ pc' = [pc EXCEPT ![c] = "hello"]
      /\ hellos < Handshakes /\ hellos' = hellos + 1
      /\ UNCHANGED <<kind, hand, reused, seen, result, answer, idle, gitCalls, conn, ran>>
    BY DEF JoinGate, Goto
<1>3. pc'[c] = "hello" /\ \A d \in Calls \ {c} : pc'[d] = pc[d]
    BY <1>1, <1>2 DEF TypeOK
<1>4. LimitsInv' /\ hellos' \in Nat /\ gitCalls' \in Nat
    BY <1>1, <1>2, <1>3, HellosMoved DEF TypeOK
<1>5. "hello" \in Places \ Holding /\ pc[c] \notin Holding /\ ~reused[c]
    BY <1>1, <1>2 DEF Places, Holding, RunsInv
<1> QED
    BY <1>1, <1>2, <1>3, <1>4, <1>5, EmptyHandedStep DEF TypeOK

LEMMA ConnectFailsKeeps ==
    ASSUME IInv, NEW c \in Calls, GateStopped(c) \/ HelloFails(c)
    PROVE  IInv'
<1>1. TypeOK /\ LimitsInv /\ RunsInv
    BY DEF IInv
<1>2. /\ pc[c] \in {"connect", "hello"} /\ pc' = [pc EXCEPT ![c] = "returning"]
      /\ \/ pc[c] = "connect" /\ hellos' = hellos
         \/ pc[c] = "hello" /\ hellos' = hellos - 1
      /\ \E r \in {"start", "stopped", result[c]} : result' = [result EXCEPT ![c] = r]
      /\ UNCHANGED <<kind, hand, reused, seen, answer, idle, gitCalls, conn, ran>>
    BY DEF GateStopped, HelloFails, ConnectFailed, Goto, EndsAs
<1>3. pc'[c] = "returning" /\ \A d \in Calls \ {c} : pc'[d] = pc[d]
    BY <1>1, <1>2 DEF TypeOK
<1>4. LimitsInv' /\ hellos' \in Nat /\ gitCalls' \in Nat
  <2>1. CASE pc[c] = "connect"
    <3>1. \A d \in Calls : /\ pc'[d] \in {"start", "done"} <=> pc[d] \in {"start", "done"}
                           /\ pc'[d] = "hello" <=> pc[d] = "hello"
        BY <1>3, <2>1
    <3> QED
        BY <1>1, <1>2, <2>1, <3>1, LimitsKept DEF TypeOK
  <2>2. CASE pc[c] = "hello"
      BY <1>1, <1>2, <1>3, <2>2, HellosMoved DEF TypeOK
  <2> QED
      BY <1>2, <2>1, <2>2
<1>5. "returning" \in Places \ Holding /\ pc[c] \notin Holding
    BY <1>2 DEF Places, Holding
<1>6. /\ result' \in [Calls -> Results]
      /\ \A d \in Calls \ {c} : result'[d] = result[d]
      /\ result'[c] \in {result[c], "stopped", "start"}
    BY <1>1, <1>2 DEF TypeOK, Results
<1> QED
    BY <1>1, <1>2, <1>3, <1>4, <1>5, <1>6, EmptyHandedStep DEF TypeOK

LEMMA ReturnKeeps ==
    ASSUME IInv, NEW c \in Calls, Return(c)
    PROVE  IInv'
<1>1. TypeOK /\ LimitsInv
    BY DEF IInv
<1>2. /\ pc[c] = "returning" /\ pc' = [pc EXCEPT ![c] = "done"]
      /\ gitCalls' = IF RunsGit(c) THEN gitCalls - 1 ELSE gitCalls
      /\ reused' = [reused EXCEPT ![c] = FALSE] /\ seen' = [seen EXCEPT ![c] = FALSE]
      /\ result' = [result EXCEPT ![c] = "none"] /\ answer' = [answer EXCEPT ![c] = NoCall]
      /\ UNCHANGED <<kind, hand, idle, hellos, conn, ran>>
    BY DEF Return, Goto, EndsAs
<1>3. pc'[c] = "done" /\ \A d \in Calls \ {c} : pc'[d] = pc[d]
    BY <1>1, <1>2 DEF TypeOK
<1>4. LimitsInv' /\ gitCalls' \in Nat /\ hellos' \in Nat
    BY <1>1, <1>2, <1>3, GitCallsMoved DEF TypeOK
<1>5. "done" \in Places \ Holding /\ pc[c] \notin Holding
    BY <1>2 DEF Places, Holding
<1>6. /\ reused' \in [Calls -> BOOLEAN] /\ seen' \in [Calls -> BOOLEAN]
      /\ result' \in [Calls -> Results] /\ answer' \in [Calls -> Calls \cup {NoCall}]
      /\ \A d \in Calls \ {c} : reused'[d] = reused[d] /\ result'[d] = result[d]
      /\ \A d \in Calls : answer'[d] \in {answer[d], NoCall}
      /\ ~reused'[c] /\ result'[c] = "none"
    BY <1>1, <1>2 DEF TypeOK, Results
<1> QED
    BY <1>2, <1>4, <1>5, <1>6, EmptyHandedStep

-----------------------------------------------------------------------------
(***************************************************************************)
(* Steps of a call on the connection in its hand.                          *)
(***************************************************************************)
LEMMA QuietIsSilent ==
    ASSUME NEW r, Sound(r), Quiet(r), NEW c \in Calls
    PROVE  ~Concerns(r, c)
<1>1. Len(r.wire) = 0
    BY EmptySeq DEF Quiet
<1> QED
    BY <1>1, FrameFacts DEF Quiet, Concerns

LEMMA InHandStep ==
    ASSUME IInv, NEW c \in Calls, pc[c] \in Holding, NEW q \in Connections,
           conn' = [conn EXCEPT ![hand[c]] = q],
           UNCHANGED <<kind, hand, reused, idle, limits, ran>>,
           NEW place \in Places \cap Holding, pc' = [pc EXCEPT ![c] = place],
           seen' \in [Calls -> BOOLEAN],
           result' \in [Calls -> Results], \A d \in Calls \ {c} : result'[d] = result[d],
           answer' \in [Calls -> Calls \cup {NoCall}], AnswersAreOwn',
           Sound(q), q.link # "none",
           \A d \in Calls : Concerns(q, d) => Concerns(conn[hand[c]], d),
           q.link = "up" /\ q.work = "asked" => hand[q.req] = hand[c],
           WantsQuiet(c)' => Quiet(q),
           WantsAlive(c)' => Alive(q),
           Exchanging(c)' => q.inFlight,
           RunsInv'
    PROVE  IInv'
<1>1. TypeOK /\ HandsInv /\ StreamInv /\ PoolInv /\ CallInv /\ LimitsInv
    BY DEF IInv
<1>2. PICK k \in Conns : k = hand[c]
    BY <1>1, InHand
<1>3. /\ conn'[k] = q /\ \A j \in Conns \ {k} : conn'[j] = conn[j]
      /\ conn' \in [Conns -> Connections]
      /\ pc'[c] = place /\ \A d \in Calls \ {c} : pc'[d] = pc[d]
    BY <1>1, <1>2 DEF TypeOK
<1>4. /\ \A d \in Calls \ {c} : hand[d] # k
      /\ \A i \in 1..Len(idle) : idle[i] # k /\ idle[i] \in Conns
    BY <1>1, <1>2, InHand, ElementOfSeq DEF TypeOK
<1>5. TypeOK'
    BY <1>1, <1>3 DEF TypeOK, limits
<1>6. HandsInv'
  <2>1. \A d \in Calls : pc'[d] \in Holding <=> pc[d] \in Holding
      BY <1>3
  <2>2. \A j \in Conns : conn[j].link # "none" => conn'[j].link # "none"
      BY <1>3
  <2> QED
      BY <1>1, <2>1, <2>2, HandsKept
<1>7. StreamInv'
  <2>1. \A d \in Calls : Concerns(q, d) => hand[d] = k /\ ran[d] > 0
      BY <1>1, <1>2 DEF StreamInv
  <2>2. \A d \in Calls : ran'[d] >= ran[d] /\ ran'[d] \in Nat
      BY <1>1 DEF TypeOK
  <2> QED
      BY <1>1, <1>2, <1>3, <2>1, <2>2, StreamStep
<1>8. PoolInv'
    BY <1>1, <1>3, <1>4, PoolStep
<1>9. CallInv'
  <2>1. \A d \in Calls \ {c} :
           /\ pc'[d] = pc[d] /\ result'[d] = result[d] /\ hand'[d] = hand[d]
           /\ hand[d] \in Conns => conn'[hand[d]] = conn[hand[d]]
      BY <1>3, <1>4
  <2>2. conn'[hand'[c]] = q
      BY <1>2, <1>3
  <2> QED
      BY <1>1, <2>1, <2>2, CallsStep
<1>10. LimitsInv'
  <2>1. \A d \in Calls : /\ pc'[d] \in {"start", "done"} <=> pc[d] \in {"start", "done"}
                         /\ pc'[d] = "hello" <=> pc[d] = "hello"
      BY <1>3 DEF Holding
  <2> QED
      BY <1>1, <2>1, LimitsKept DEF limits
<1> QED
    BY <1>5, <1>6, <1>7, <1>8, <1>9, <1>10 DEF IInv

\* No request is handed over: what was sent to workers stays as it is.
LEMMA InHandKeeps ==
    ASSUME IInv, NEW c \in Calls, pc[c] \in Holding, NEW q \in Connections,
           conn' = [conn EXCEPT ![hand[c]] = q],
           UNCHANGED <<kind, hand, reused, idle, limits, ran>>,
           NEW place \in Places \cap Holding, pc' = [pc EXCEPT ![c] = place],
           seen' \in [Calls -> BOOLEAN],
           result' \in [Calls -> Results], \A d \in Calls \ {c} : result'[d] = result[d],
           answer' \in [Calls -> Calls \cup {NoCall}], AnswersAreOwn',
           Sound(q), q.link # "none", q.link = "up" => conn[hand[c]].link = "up",
           \A d \in Calls : Concerns(q, d) => Concerns(conn[hand[c]], d),
           q.work = "asked" =>
               conn[hand[c]].work = "asked" /\ q.req = conn[hand[c]].req,
           WantsQuiet(c)' => Quiet(q),
           WantsAlive(c)' => Alive(q),
           Exchanging(c)' => q.inFlight,
           pc[c] \in {"ready", "sending"} \/ place \notin {"ready", "sending"},
           result'[c] \in {"ok", "refused"} => ran[c] > 0
    PROVE  IInv'
<1>1. TypeOK /\ HandsInv /\ StreamInv /\ RunsInv
    BY DEF IInv
<1>2. hand[c] \in Conns /\ conn \in [Conns -> Connections]
    BY <1>1, InHand DEF TypeOK
<1>3. pc'[c] = place /\ \A d \in Calls \ {c} : pc'[d] = pc[d]
    BY <1>1 DEF TypeOK
<1>4. q.link = "up" /\ q.work = "asked" => hand[q.req] = hand[c]
    BY <1>1, <1>2 DEF StreamInv
<1>5. RunsInv'
  <2>1. \A j \in Conns : conn'[j].work = "asked" =>
           conn[j].work = "asked" /\ conn'[j].req = conn[j].req
      BY <1>2
  <2>2. Budget(c)' >= Budget(c)
      BY <1>3 DEF Budget, Writes, Holding
  <2>3. pc'[c] \notin {"start", "take", "connect", "hello"}
      BY <1>3 DEF Holding
  <2> QED
      BY <1>1, <1>3, <2>1, <2>2, <2>3, RunsKept
<1> QED
    BY <1>4, <1>5, InHandStep

LEMMA BeginCallKeeps ==
    ASSUME IInv, NEW c \in Calls, BeginCall(c)
    PROVE  IInv'
<1>1. TypeOK /\ HandsInv /\ StreamInv /\ CallInv /\ RunsInv /\ AnswersAreOwn
    BY DEF IInv
<1>2. /\ pc[c] = "ready" /\ pc[c] \in Holding /\ "sending" \in Places \cap Holding
      /\ pc' = [pc EXCEPT ![c] = "sending"] /\ seen' = [seen EXCEPT ![c] = FALSE]
      /\ UNCHANGED <<kind, hand, reused, result, answer, idle, limits, ran>>
    BY DEF BeginCall, Goto, Holding, Places
<1>3. PICK r \in Connections : r = conn[hand[c]]
    BY <1>1, <1>2, InHand
<1>4. hand[c] \in Conns /\ r.link # "none" /\ Sound(r) /\ Quiet(r) /\ Alive(r)
    BY <1>1, <1>2, <1>3, InHand DEF StreamInv, CallInv, WantsQuiet, WantsAlive
<1>5. PICK q : q = Flagged(r, TRUE)
    OBVIOUS
<1>6. conn' = [conn EXCEPT ![hand[c]] = q]
    BY <1>3, <1>5 DEF BeginCall, Flagged
<1>7. /\ q \in Connections /\ Sound(q)
      /\ q.link = r.link /\ q.inFlight
      /\ Quiet(q) /\ Alive(q)
      /\ q.work = r.work /\ q.req = r.req
      /\ \A d \in Calls : Concerns(q, d) => Concerns(r, d)
    BY <1>4, <1>5, InFlightFacts
<1>8. seen' \in [Calls -> BOOLEAN] /\ AnswersAreOwn'
    BY <1>1, <1>2 DEF TypeOK, AnswersAreOwn
<1> QED
    BY <1>1, <1>2, <1>3, <1>4, <1>6, <1>7, <1>8, InHandKeeps DEF TypeOK, RunsInv

\* The call's wait or its send ends and the connection stays as it is.
LEMMA GivesUpKeeps ==
    ASSUME IInv, NEW c \in Calls, SendFails(c) \/ WaitStopped(c)
    PROVE  IInv'
<1>1. TypeOK /\ HandsInv /\ StreamInv /\ CallInv /\ AnswersAreOwn
    BY DEF IInv
<1>2. /\ pc[c] \in {"sending", "waiting"} /\ pc[c] \in Holding
      /\ "ending" \in Places \cap Holding
      /\ pc' = [pc EXCEPT ![c] = "ending"]
      /\ \E r \in {"io", "stopped"} : result' = [result EXCEPT ![c] = r]
      /\ UNCHANGED <<kind, hand, reused, seen, answer, idle, limits, conn, ran>>
    BY DEF SendFails, WaitStopped, Goto, EndsAs, Holding, Places
<1>3. PICK q \in Connections : q = conn[hand[c]]
    BY <1>1, <1>2, InHand
<1>4. hand[c] \in Conns /\ q.link # "none" /\ Sound(q) /\ Alive(q) /\ q.inFlight
    BY <1>1, <1>2, <1>3, InHand DEF StreamInv, CallInv, WantsAlive, Exchanging
<1>5. conn' = [conn EXCEPT ![hand[c]] = q]
    BY <1>1, <1>2, <1>3, <1>4 DEF TypeOK
<1>6. /\ result' \in [Calls -> Results] /\ \A d \in Calls \ {c} : result'[d] = result[d]
      /\ result'[c] \in {"io", "stopped"} /\ pc'[c] = "ending"
    BY <1>1, <1>2 DEF TypeOK, Results
<1>7. ~WantsQuiet(c)'
    BY <1>6 DEF WantsQuiet, Broken
<1>8. AnswersAreOwn'
    BY <1>1, <1>2 DEF AnswersAreOwn
<1> QED
    BY <1>1, <1>2, <1>3, <1>4, <1>5, <1>6, <1>7, <1>8, InHandKeeps DEF TypeOK

\* The request gets through to the worker, whether or not c waits for it.
LEMMA HandsOverKeeps ==
    ASSUME IInv, NEW c \in Calls, pc[c] = "sending",
           NEW r \in Connections, r = conn[hand[c]], r.link = "up",
           NEW q \in {Delivered(r, c), Cut(Delivered(r, c))},
           conn' = [conn EXCEPT ![hand[c]] = q],
           UNCHANGED <<kind, hand, reused, seen, answer, idle, limits, ran>>,
           \/ pc' = [pc EXCEPT ![c] = "waiting"] /\ result' = result
           \/ /\ pc' = [pc EXCEPT ![c] = "ending"]
              /\ result' = [result EXCEPT ![c] = "stopped"]
    PROVE  IInv'
<1>1. TypeOK /\ HandsInv /\ StreamInv /\ CallInv /\ RunsInv /\ AnswersAreOwn
    BY DEF IInv
<1>2. pc[c] \in Holding
    BY DEF Holding
<1>3. /\ hand[c] \in Conns /\ Sound(r) /\ Quiet(r) /\ Alive(r) /\ r.inFlight
    BY <1>1, <1>2, InHand DEF StreamInv, CallInv, WantsQuiet, WantsAlive, Exchanging
<1>4. /\ Delivered(r, c) \in Connections /\ Sound(Delivered(r, c))
      /\ Alive(Delivered(r, c)) /\ Delivered(r, c).link = "up"
      /\ Delivered(r, c).inFlight
      /\ Delivered(r, c).work = "asked" /\ Delivered(r, c).req = c
      /\ \A d \in Calls : ~Concerns(Delivered(r, c), d)
    BY <1>3, DeliveredFacts
<1>5. PICK x \in Connections : x = Delivered(r, c)
    BY <1>4
<1>6. /\ Cut(x) \in Connections /\ Sound(Cut(x)) /\ Alive(Cut(x))
      /\ Cut(x).link = "down" /\ Cut(x).inFlight = x.inFlight
      /\ Cut(x).work = "asked" => Cut(x).req = x.req
      /\ \A d \in Calls : ~Concerns(Cut(x), d)
    BY <1>4, <1>5, CutFacts
<1>7. /\ q \in Connections /\ Sound(q) /\ Alive(q) /\ q.link # "none"
      /\ q.inFlight
      /\ q.work = "asked" => q.req = c
      /\ \A d \in Calls : ~Concerns(q, d)
    BY <1>4, <1>5, <1>6
<1>8. PICK place \in {"waiting", "ending"} :
         /\ pc' = [pc EXCEPT ![c] = place] /\ pc'[c] = place
         /\ place = "ending" => result'[c] = "stopped"
    BY <1>1 DEF TypeOK
<1>9. /\ place \in Places \cap Holding
      /\ result' \in [Calls -> Results] /\ \A d \in Calls \ {c} : result'[d] = result[d]
      /\ \A d \in Calls \ {c} : pc'[d] = pc[d]
    BY <1>1, <1>8 DEF Places, Holding, Results, TypeOK
<1>10. ~WantsQuiet(c)'
    BY <1>8 DEF WantsQuiet, Broken
<1>11. AnswersAreOwn'
    BY <1>1 DEF AnswersAreOwn
<1>12. RunsInv'
  <2>1. \A j \in Conns : conn'[j].work = "asked" =>
           \/ conn[j].work = "asked" /\ conn'[j].req = conn[j].req
           \/ j = hand[c] /\ conn'[j].req = c
      BY <1>1, <1>3, <1>7 DEF TypeOK
  <2>2. result'[c] \in {"ok", "refused"} => ran[c] > 0
      BY <1>1 DEF RunsInv, TypeOK
  <2> QED
      BY <1>1, <1>3, <1>8, <1>9, <2>1, <2>2, RunsAsked
<1> QED
    BY <1>1, <1>2, <1>7, <1>8, <1>9, <1>10, <1>11, <1>12, InHandStep DEF TypeOK

LEMMA SentKeeps ==
    ASSUME IInv, NEW c \in Calls, Sent(c)
    PROVE  IInv'
<1>1. TypeOK /\ HandsInv /\ StreamInv /\ CallInv /\ RunsInv /\ AnswersAreOwn
    BY DEF IInv
<1>2. /\ pc[c] = "sending" /\ pc[c] \in Holding /\ "waiting" \in Places \cap Holding
      /\ pc' = [pc EXCEPT ![c] = "waiting"]
      /\ UNCHANGED <<kind, hand, reused, seen, result, answer, idle, limits, ran>>
    BY DEF Sent, Goto, Holding, Places
<1>3. PICK r \in Connections : r = conn[hand[c]]
    BY <1>1, <1>2, InHand
<1>4. /\ hand[c] \in Conns /\ r.link # "none" /\ Sound(r) /\ Quiet(r) /\ Alive(r)
      /\ r.inFlight
    BY <1>1, <1>2, <1>3, InHand DEF StreamInv, CallInv, WantsQuiet, WantsAlive, Exchanging
<1>5. CASE r.link = "up"
  <2>1. conn' = [conn EXCEPT ![hand[c]] = Delivered(r, c)]
      BY <1>3, <1>5 DEF Sent
  <2> QED
      BY <1>2, <1>3, <1>5, <2>1, HandsOverKeeps
<1>6. CASE r.link # "up"
  <2>1. conn' = [conn EXCEPT ![hand[c]] = r]
      BY <1>1, <1>3, <1>4, <1>6 DEF Sent, TypeOK
  <2>2. pc'[c] = "waiting" /\ ~WantsQuiet(c)' /\ AnswersAreOwn'
      BY <1>1, <1>2 DEF WantsQuiet, AnswersAreOwn, TypeOK
  <2> QED
      BY <1>1, <1>2, <1>3, <1>4, <2>1, <2>2, InHandKeeps DEF TypeOK, RunsInv
<1> QED
    BY <1>5, <1>6

LEMMA SendStoppedKeeps ==
    ASSUME IInv, NEW c \in Calls, SendStopped(c)
    PROVE  IInv'
<1>1. TypeOK /\ HandsInv /\ StreamInv /\ CallInv /\ AnswersAreOwn
    BY DEF IInv
<1>2. /\ pc[c] = "sending" /\ pc[c] \in Holding /\ "ending" \in Places \cap Holding
      /\ pc' = [pc EXCEPT ![c] = "ending"] /\ result' = [result EXCEPT ![c] = "stopped"]
      /\ UNCHANGED <<kind, hand, reused, seen, answer, idle, limits, ran>>
    BY DEF SendStopped, Goto, EndsAs, Holding, Places
<1>3. PICK r \in Connections : r = conn[hand[c]]
    BY <1>1, <1>2, InHand
<1>4. /\ hand[c] \in Conns /\ r.link # "none" /\ Sound(r) /\ r.inFlight
    BY <1>1, <1>2, <1>3, InHand DEF StreamInv, CallInv, Exchanging
<1>5. \/ r.link = "up" /\ conn' = [conn EXCEPT ![hand[c]] = Cut(Delivered(r, c))]
      \/ conn' = [conn EXCEPT ![hand[c]] = Cut(r)]
    BY <1>3 DEF SendStopped
<1>6. CASE r.link = "up" /\ conn' = [conn EXCEPT ![hand[c]] = Cut(Delivered(r, c))]
    BY <1>2, <1>3, <1>6, HandsOverKeeps
<1>7. CASE conn' = [conn EXCEPT ![hand[c]] = Cut(r)]
  <2>1. /\ Cut(r) \in Connections /\ Sound(Cut(r)) /\ Alive(Cut(r))
        /\ Cut(r).link = "down" /\ Cut(r).inFlight = r.inFlight
        /\ Cut(r).work = "asked" => r.work = "asked" /\ Cut(r).req = r.req
        /\ \A d \in Calls : Concerns(Cut(r), d) => Concerns(r, d)
      BY <1>4, CutFacts
  <2>2. PICK q \in Connections : q = Cut(r)
      BY <2>1
  <2>3. /\ pc'[c] = "ending" /\ result'[c] = "stopped" /\ ~WantsQuiet(c)'
        /\ AnswersAreOwn'
        /\ result' \in [Calls -> Results] /\ \A d \in Calls \ {c} : result'[d] = result[d]
      BY <1>1, <1>2 DEF WantsQuiet, Broken, AnswersAreOwn, TypeOK, Results
  <2> QED
      BY <1>1, <1>2, <1>3, <1>4, <1>7, <2>1, <2>2, <2>3, InHandKeeps DEF TypeOK
<1> QED
    BY <1>5, <1>6, <1>7

(* The heart of the matter: the frame c reads was said about c's request.  *)
LEMMA ReceiveKeeps ==
    ASSUME IInv, NEW c \in Calls, Receive(c)
    PROVE  IInv'
<1>1. TypeOK /\ HandsInv /\ StreamInv /\ CallInv /\ RunsInv /\ AnswersAreOwn
    BY DEF IInv
<1>2. /\ pc[c] = "waiting" /\ pc[c] \in Holding
      /\ UNCHANGED <<kind, hand, reused, idle, limits, ran>>
    BY DEF Receive, Holding
<1>3. PICK r \in Connections : r = conn[hand[c]]
    BY <1>1, <1>2, InHand
<1>4. /\ hand[c] \in Conns /\ r.link # "none" /\ Sound(r) /\ Alive(r) /\ r.inFlight
      /\ r.queue # <<>>
    BY <1>1, <1>2, <1>3, InHand DEF StreamInv, CallInv, WantsAlive, Exchanging, Receive
<1>5. PICK q : q = Popped(r)
    OBVIOUS
<1>6. conn' = [conn EXCEPT ![hand[c]] = q]
    BY <1>3, <1>5 DEF Receive, Popped
<1>7. PICK f : f = Head(r.queue)
    OBVIOUS
<1>8. /\ q \in Connections /\ Sound(q) /\ Alive(q)
      /\ q.link = r.link /\ q.inFlight
      /\ q.work = r.work /\ q.req = r.req
      /\ \A d \in Calls : Concerns(q, d) => Concerns(r, d)
      /\ f.kind = "answer" => Quiet(q)
      /\ f \in Frames
      /\ f.kind # "eof" => f.to \in Calls /\ Concerns(r, f.to)
    BY <1>4, <1>5, <1>7, ReceivedFacts
<1>9. f.kind # "eof" => f.to = c /\ ran[c] > 0
  <2> SUFFICES ASSUME f.kind # "eof" PROVE f.to = c /\ ran[c] > 0
      OBVIOUS
  <2>1. PICK d \in Calls : d = f.to /\ Concerns(conn[hand[c]], d)
      BY <1>3, <1>8
  <2>2. hand[d] = hand[c] /\ ran[d] > 0
      BY <1>1, <1>4, <2>1 DEF StreamInv
  <2>3. hand[c] # NoConn
      BY <1>1, <1>2 DEF HandsInv
  <2>4. d = c
      BY <1>1, <2>2, <2>3 DEF HandsInv
  <2> QED
      BY <2>1, <2>2, <2>4
<1>10. \/ /\ f.kind = "eof" /\ result' = [result EXCEPT ![c] = "io"]
          /\ pc' = [pc EXCEPT ![c] = "ending"] /\ UNCHANGED <<seen, answer>>
       \/ /\ f.kind = "pending" /\ seen' = [seen EXCEPT ![c] = TRUE]
          /\ UNCHANGED <<pc, result, answer>>
       \/ /\ f.kind = "answer" /\ seen' = [seen EXCEPT ![c] = TRUE]
          /\ answer' = [answer EXCEPT ![c] = f.to]
          /\ \E s \in {"ok", "refused"} : result' = [result EXCEPT ![c] = s]
          /\ pc' = [pc EXCEPT ![c] = "ending"]
    BY <1>3, <1>7, <1>8 DEF Receive, EndsAs, Goto, Frames
<1>11. PICK place \in {"waiting", "ending"} :
          /\ pc' = [pc EXCEPT ![c] = place] /\ pc'[c] = place
          /\ place = "ending" => result'[c] = "io" \/ f.kind = "answer"
    BY <1>1, <1>2, <1>10 DEF TypeOK
<1>12. /\ place \in Places \cap Holding
       /\ seen' \in [Calls -> BOOLEAN] /\ result' \in [Calls -> Results]
       /\ \A d \in Calls \ {c} : result'[d] = result[d]
    BY <1>1, <1>10 DEF TypeOK, Results, Places, Holding
<1>13. /\ answer' \in [Calls -> Calls \cup {NoCall}]
       /\ \A d \in Calls : answer'[d] \in {answer[d], d}
  <2>1. answer' \in {answer, [answer EXCEPT ![c] = c]}
      BY <1>9, <1>10
  <2> QED
      BY <1>1, <2>1 DEF TypeOK
<1>14. AnswersAreOwn'
    BY <1>1, <1>13 DEF AnswersAreOwn
<1>15. WantsQuiet(c)' => Quiet(q)
    BY <1>8, <1>11 DEF WantsQuiet, Broken
<1>16. result'[c] \in {"ok", "refused"} => ran[c] > 0
    BY <1>1, <1>9, <1>10 DEF RunsInv, TypeOK
<1> QED
    BY <1>2, <1>3, <1>4, <1>6, <1>8, <1>11, <1>12, <1>13, <1>14, <1>15, <1>16, InHandKeeps

LEMMA EndCallStays ==
    ASSUME IInv, NEW c \in Calls, EndCall(c), ~ShouldResend(c)
    PROVE  IInv'
<1>1. TypeOK /\ HandsInv /\ StreamInv /\ CallInv /\ RunsInv /\ AnswersAreOwn
    BY DEF IInv
<1>2. /\ pc[c] = "ending" /\ pc[c] \in Holding /\ "keeping" \in Places \cap Holding
      /\ pc' = [pc EXCEPT ![c] = "keeping"]
      /\ UNCHANGED <<kind, hand, reused, seen, result, answer, idle, limits, ran>>
    BY DEF EndCall, Goto, Holding, Places
<1>3. PICK r \in Connections : r = conn[hand[c]]
    BY <1>1, <1>2, InHand
<1>4. /\ hand[c] \in Conns /\ r.link # "none" /\ Sound(r) /\ Alive(r)
      /\ ~Broken(c) => Quiet(r)
    BY <1>1, <1>2, <1>3, InHand DEF StreamInv, CallInv, WantsQuiet, WantsAlive
<1>5. PICK q : q = Flagged(r, FALSE)
    OBVIOUS
<1>6. conn' = [conn EXCEPT ![hand[c]] = q]
    BY <1>3, <1>5 DEF EndCall, Flagged
<1>7. /\ q \in Connections /\ Sound(q)
      /\ q.link = r.link
      /\ Quiet(r) => Quiet(q)
      /\ Alive(q)
      /\ q.work = r.work /\ q.req = r.req
      /\ \A d \in Calls : Concerns(q, d) => Concerns(r, d)
    BY <1>4, <1>5, InFlightFacts
<1>8. pc'[c] = "keeping" /\ ~Exchanging(c)' /\ AnswersAreOwn'
    BY <1>1, <1>2 DEF TypeOK, Exchanging, AnswersAreOwn
<1>9. WantsQuiet(c)' => Quiet(q)
    BY <1>2, <1>4, <1>7, <1>8 DEF WantsQuiet, Broken
<1> QED
    BY <1>1, <1>2, <1>3, <1>4, <1>6, <1>7, <1>8, <1>9, InHandKeeps DEF TypeOK, RunsInv

-----------------------------------------------------------------------------
(***************************************************************************)
(* Steps that let a connection go, and steps that take one.                *)
(***************************************************************************)
LEMMA LetGoStep ==
    ASSUME IInv, NEW c \in Calls, pc[c] \in Holding, NEW q \in Connections,
           conn' = [conn EXCEPT ![hand[c]] = q],
           UNCHANGED <<kind, seen, answer, limits, ran>>,
           hand' = [hand EXCEPT ![c] = NoConn],
           NEW place \in {"connect", "returning"}, pc' = [pc EXCEPT ![c] = place],
           reused' \in [Calls -> BOOLEAN], result' \in [Calls -> Results],
           \A d \in Calls \ {c} : reused'[d] = reused[d] /\ result'[d] = result[d],
           place = "connect" => ~reused'[c] /\ ~Writes(c) /\ reused[c] /\ pc[c] = "ending",
           reused'[c] => reused[c],
           result'[c] \in {"ok", "refused"} => result[c] = result'[c],
           Sound(q), q.link # "none",
           \A d \in Calls : ~Concerns(q, d),
           q.link = "up" => q.work # "asked",
           q.work = "asked" =>
               conn[hand[c]].work = "asked" /\ q.req = conn[hand[c]].req,
           \/ idle' = idle
           \/ idle' = Append(idle, hand[c]) /\ Quiet(q) /\ Alive(q)
    PROVE  IInv'
<1>1. /\ TypeOK /\ HandsInv /\ StreamInv /\ PoolInv /\ CallInv /\ RunsInv /\ LimitsInv
      /\ AnswersAreOwn
    BY DEF IInv
<1>2. PICK k \in Conns : k = hand[c]
    BY <1>1, InHand
<1>3. /\ conn'[k] = q /\ \A j \in Conns \ {k} : conn'[j] = conn[j]
      /\ conn' \in [Conns -> Connections]
      /\ pc'[c] = place /\ \A d \in Calls \ {c} : pc'[d] = pc[d]
      /\ hand'[c] = NoConn /\ \A d \in Calls \ {c} : hand'[d] = hand[d]
    BY <1>1, <1>2 DEF TypeOK
<1>4. /\ \A d \in Calls \ {c} : hand[d] # k
      /\ \A i \in 1..Len(idle) : idle[i] # k /\ idle[i] \in Conns
    BY <1>1, <1>2, InHand, ElementOfSeq DEF TypeOK
<1>5. /\ idle \in Seq(Conns) /\ Len(idle) \in Nat
      /\ Append(idle, k) \in Seq(Conns) /\ Len(Append(idle, k)) = Len(idle) + 1
      /\ \A i \in 1..Len(idle) : Append(idle, k)[i] = idle[i]
      /\ Append(idle, k)[Len(idle) + 1] = k
    BY <1>1, Added DEF TypeOK
<1>6. place \in Places \ Holding
    BY DEF Places, Holding
<1>7. TypeOK'
  <2>1. idle' \in Seq(Conns)
      BY <1>2, <1>5
  <2>2. pc' \in [Calls -> Places] /\ hand' \in [Calls -> Conns \cup {NoConn}]
      BY <1>1, <1>6 DEF TypeOK
  <2> QED
      BY <1>1, <1>3, <2>1, <2>2 DEF TypeOK, limits
<1>8. HandsInv'
  <2>1. \A j \in Conns : conn[j].link # "none" => conn'[j].link # "none"
      BY <1>3
  <2> QED
      BY <1>1, <1>3, <1>6, <2>1, HandsLeft
<1>9. StreamInv'
  <2>1. \A d \in Calls : ran'[d] >= ran[d] /\ ran'[d] \in Nat
      BY <1>1 DEF TypeOK
  <2>2. \A d \in Calls : hand[d] \in Conns \ {k} => hand'[d] = hand[d]
      BY <1>2, <1>3
  <2> QED
      BY <1>1, <1>2, <1>3, <2>1, <2>2, StreamStep
<1>10. PoolInv'
  <2> SUFFICES ASSUME NEW i \in 1..Len(idle')
               PROVE  \/ \E j \in 1..Len(idle) :
                            idle'[i] = idle[j] /\ conn'[idle[j]] = conn[idle[j]]
                      \/ Quiet(conn'[idle'[i]]) /\ Alive(conn'[idle'[i]])
      BY <1>1, PoolStep
  <2>1. CASE i \in 1..Len(idle)
    <3>1. idle'[i] = idle[i]
        BY <1>2, <1>5, <2>1
    <3> QED
        BY <1>3, <1>4, <2>1, <3>1
  <2>2. CASE i \notin 1..Len(idle)
    <3>1. idle' = Append(idle, k) /\ Quiet(q) /\ Alive(q) /\ i = Len(idle) + 1
        BY <1>2, <1>5, <2>2
    <3> QED
        BY <1>3, <1>5, <3>1
  <2> QED
      BY <2>1, <2>2
<1>11. CallInv'
  <2>1. \A d \in Calls \ {c} :
           /\ pc'[d] = pc[d] /\ result'[d] = result[d] /\ hand'[d] = hand[d]
           /\ hand[d] \in Conns => conn'[hand[d]] = conn[hand[d]]
      BY <1>3, <1>4
  <2>2. ~WantsQuiet(c)' /\ ~WantsAlive(c)' /\ ~Exchanging(c)'
      BY <1>3 DEF WantsQuiet, WantsAlive, Exchanging
  <2> QED
      BY <1>1, <2>1, <2>2, CallsStep
<1>12. AnswersAreOwn'
    BY <1>1 DEF AnswersAreOwn
<1>13. RunsInv'
  <2>1. \A j \in Conns : conn'[j].work = "asked" =>
           conn[j].work = "asked" /\ conn'[j].req = conn[j].req
      BY <1>2, <1>3
  <2>2. Budget(c)' >= Budget(c)
      BY <1>3 DEF Budget, Writes, Holding
  <2>3. result'[c] \in {"ok", "refused"} => ran[c] > 0
      BY <1>1 DEF RunsInv
  <2>4. pc'[c] \in {"start", "take", "connect", "hello"} => ~reused'[c]
      BY <1>3
  <2> QED
      BY <1>1, <1>3, <2>1, <2>2, <2>3, <2>4, RunsKept
<1>14. LimitsInv'
  <2>1. \A d \in Calls : /\ pc'[d] \in {"start", "done"} <=> pc[d] \in {"start", "done"}
                         /\ pc'[d] = "hello" <=> pc[d] = "hello"
      BY <1>3 DEF Holding
  <2> QED
      BY <1>1, <2>1, LimitsKept DEF limits
<1> QED
    BY <1>7, <1>8, <1>9, <1>10, <1>11, <1>12, <1>13, <1>14 DEF IInv

LEMMA OutOfTimeKeeps ==
    ASSUME IInv, NEW c \in Calls, OutOfTime(c)
    PROVE  IInv'
<1>1. TypeOK /\ HandsInv /\ StreamInv
    BY DEF IInv
<1>2. /\ pc[c] = "ready" /\ pc[c] \in Holding
      /\ pc' = [pc EXCEPT ![c] = "returning"] /\ hand' = [hand EXCEPT ![c] = NoConn]
      /\ result' = [result EXCEPT ![c] = "stopped"]
      /\ UNCHANGED <<kind, reused, seen, answer, idle, limits, ran>>
    BY DEF OutOfTime, Goto, EndsAs, Holding
<1>3. PICK r \in Connections : r = conn[hand[c]]
    BY <1>1, <1>2, InHand
<1>4. hand[c] \in Conns /\ Sound(r)
    BY <1>1, <1>2, <1>3, InHand DEF StreamInv
<1>5. PICK q : q = Closed(r)
    OBVIOUS
<1>6. /\ q \in Connections /\ Sound(q) /\ q.link = "down"
      /\ q.work = "asked" => r.work = "asked" /\ q.req = r.req
      /\ \A d \in Calls : ~Concerns(q, d)
    BY <1>4, <1>5, ClosedFacts
<1>7. conn' = [conn EXCEPT ![hand[c]] = q]
    BY <1>3, <1>5 DEF OutOfTime
<1>8. /\ result' \in [Calls -> Results] /\ result'[c] = "stopped"
      /\ \A d \in Calls \ {c} : result'[d] = result[d]
    BY <1>1, <1>2 DEF TypeOK, Results
<1> QED
    BY <1>1, <1>2, <1>3, <1>6, <1>7, <1>8, LetGoStep DEF TypeOK

LEMMA ResendKeeps ==
    ASSUME IInv, NEW c \in Calls, EndCall(c), ShouldResend(c)
    PROVE  IInv'
<1>1. TypeOK /\ HandsInv /\ StreamInv
    BY DEF IInv
<1>2. PICK place \in {"connect", "returning"} :
         /\ pc[c] = "ending" /\ pc[c] \in Holding
         /\ pc' = [pc EXCEPT ![c] = place] /\ hand' = [hand EXCEPT ![c] = NoConn]
         /\ reused' = [reused EXCEPT ![c] = FALSE]
         /\ result' \in {result, [result EXCEPT ![c] = "stopped"]}
         /\ UNCHANGED <<kind, seen, answer, idle, limits, ran>>
         /\ ~Writes(c) /\ reused[c]
    BY DEF EndCall, ShouldResend, Goto, EndsAs, Holding
<1>3. PICK r \in Connections : r = conn[hand[c]]
    BY <1>1, <1>2, InHand
<1>4. hand[c] \in Conns /\ Sound(r)
    BY <1>1, <1>2, <1>3, InHand DEF StreamInv
<1>5. PICK e : e = Flagged(r, FALSE)
    OBVIOUS
<1>6. e \in Connections /\ Sound(e) /\ e.work = r.work /\ e.req = r.req
    BY <1>4, <1>5, InFlightFacts
<1>7. PICK q : q = Closed(e)
    OBVIOUS
<1>8. /\ q \in Connections /\ Sound(q) /\ q.link = "down"
      /\ q.work = "asked" => r.work = "asked" /\ q.req = r.req
      /\ \A d \in Calls : ~Concerns(q, d)
    BY <1>6, <1>7, ClosedFacts
<1>9. conn' = [conn EXCEPT ![hand[c]] = q]
    BY <1>3, <1>5, <1>7 DEF EndCall, Flagged
<1>10. /\ result' \in [Calls -> Results] /\ result'[c] \in {result[c], "stopped"}
       /\ \A d \in Calls \ {c} : result'[d] = result[d] /\ reused'[d] = reused[d]
       /\ reused' \in [Calls -> BOOLEAN] /\ ~reused'[c]
    BY <1>1, <1>2 DEF TypeOK, Results
<1> QED
    BY <1>2, <1>3, <1>8, <1>9, <1>10, LetGoStep

LEMMA KeepKeeps ==
    ASSUME IInv, NEW c \in Calls, Keep(c)
    PROVE  IInv'
<1>1. TypeOK /\ HandsInv /\ StreamInv /\ CallInv
    BY DEF IInv
<1>2. /\ pc[c] = "keeping" /\ pc[c] \in Holding
      /\ pc' = [pc EXCEPT ![c] = "returning"] /\ hand' = [hand EXCEPT ![c] = NoConn]
      /\ UNCHANGED <<kind, reused, seen, result, answer, limits, ran>>
    BY DEF Keep, Goto, Holding
<1>3. PICK r \in Connections : r = conn[hand[c]]
    BY <1>1, <1>2, InHand
<1>4. /\ hand[c] \in Conns /\ Sound(r) /\ r.link # "none"
      /\ ~Broken(c) => Quiet(r) /\ Alive(r)
    BY <1>1, <1>2, <1>3, InHand DEF StreamInv, CallInv, WantsQuiet, WantsAlive
<1>5. CASE Kept(c)
  <2>1. ~Broken(c) /\ idle' = Append(idle, hand[c]) /\ conn' = conn
      BY <1>5 DEF Keep, Kept
  <2>2. conn' = [conn EXCEPT ![hand[c]] = r]
      BY <1>1, <1>3, <1>4, <2>1 DEF TypeOK
  <2>3. r.work # "asked" /\ \A d \in Calls : ~Concerns(r, d)
      BY <1>4, <2>1, QuietIsSilent DEF Quiet
  <2> QED
      BY <1>1, <1>2, <1>3, <1>4, <2>1, <2>2, <2>3, LetGoStep DEF TypeOK
<1>6. CASE ~Kept(c)
  <2>1. PICK q : q = Closed(r)
      OBVIOUS
  <2>2. /\ q \in Connections /\ Sound(q) /\ q.link = "down"
        /\ q.work = "asked" => r.work = "asked" /\ q.req = r.req
        /\ \A d \in Calls : ~Concerns(q, d)
      BY <1>4, <2>1, ClosedFacts
  <2>3. conn' = [conn EXCEPT ![hand[c]] = q] /\ idle' = idle
      BY <1>3, <1>6, <2>1 DEF Keep
  <2> QED
      BY <1>1, <1>2, <1>3, <2>2, <2>3, LetGoStep DEF TypeOK
<1> QED
    BY <1>5, <1>6

LEMMA TakenStep ==
    ASSUME IInv, NEW c \in Calls, pc[c] \in {"take", "hello"},
           NEW k \in Conns, NEW q \in Connections,
           conn' = [conn EXCEPT ![k] = q],
           UNCHANGED <<kind, seen, answer, ran>>,
           hand' = [hand EXCEPT ![c] = k],
           NEW n \in 0..Len(idle), idle' = SubSeq(idle, 1, n),
           \A i \in 1..n : idle[i] # k, \A d \in Calls : hand[d] # k,
           NEW place \in {"ready", "keeping"}, pc' = [pc EXCEPT ![c] = place],
           reused' \in [Calls -> BOOLEAN], result' \in [Calls -> Results],
           \A d \in Calls \ {c} : reused'[d] = reused[d] /\ result'[d] = result[d],
           pc[c] = "hello" => reused' = reused,
           pc[c] = "take" /\ place = "ready" => reused'[c],
           result'[c] \in {"ok", "refused"} => result[c] = result'[c],
           Sound(q), q.link # "none", Quiet(q), Alive(q),
           gitCalls' \in Nat, hellos' \in Nat, LimitsInv'
    PROVE  IInv'
<1>1. /\ TypeOK /\ HandsInv /\ StreamInv /\ PoolInv /\ CallInv /\ RunsInv
      /\ AnswersAreOwn
    BY DEF IInv
<1>2. /\ conn'[k] = q /\ \A j \in Conns \ {k} : conn'[j] = conn[j]
      /\ conn' \in [Conns -> Connections]
      /\ pc'[c] = place /\ \A d \in Calls \ {c} : pc'[d] = pc[d]
      /\ hand'[c] = k /\ \A d \in Calls \ {c} : hand'[d] = hand[d]
    BY <1>1 DEF TypeOK
<1>3. pc[c] \notin Holding /\ place \in Places \cap Holding /\ hand[c] = NoConn
    BY <1>1 DEF Holding, Places, HandsInv
<1>4. /\ idle' \in Seq(Conns) /\ Len(idle') = n
      /\ \A i \in 1..n : idle'[i] = idle[i] /\ i \in 1..Len(idle) /\ idle[i] \in Conns
    BY <1>1, Cutoff, ElementOfSeq, LenProperties DEF TypeOK
<1>5. TypeOK'
  <2>1. pc' \in [Calls -> Places] /\ hand' \in [Calls -> Conns \cup {NoConn}]
      BY <1>1, <1>3 DEF TypeOK
  <2> QED
      BY <1>1, <1>2, <1>4, <2>1 DEF TypeOK
<1>6. HandsInv'
  <2>1. \A j \in Conns : conn[j].link # "none" => conn'[j].link # "none"
      BY <1>2
  <2>2. conn'[k].link # "none" /\ pc'[c] \in Holding
      BY <1>2, <1>3
  <2>3. \A d \in Calls \ {c} : pc'[d] = pc[d]
      BY <1>2
  <2> QED
      BY <1>1, <1>3, <2>1, <2>2, <2>3, HandsTaken
<1>7. /\ q.work = "none" /\ \A d \in Calls : ~Concerns(q, d)
    BY QuietIsSilent DEF Quiet
<1>8. StreamInv'
  <2>1. \A d \in Calls : ran'[d] >= ran[d] /\ ran'[d] \in Nat
      BY <1>1 DEF TypeOK
  <2>2. \A d \in Calls : hand[d] \in Conns \ {k} => hand'[d] = hand[d]
      BY <1>2, <1>3
  <2> QED
      BY <1>1, <1>2, <1>7, <2>1, <2>2, StreamStep
<1>9. PoolInv'
    BY <1>1, <1>2, <1>4, PoolStep
<1>10. CallInv'
  <2>1. \A d \in Calls \ {c} :
           /\ pc'[d] = pc[d] /\ result'[d] = result[d] /\ hand'[d] = hand[d]
           /\ hand[d] \in Conns => conn'[hand[d]] = conn[hand[d]]
      BY <1>2
  <2>2. ~Exchanging(c)' /\ conn'[hand'[c]] = q
      BY <1>2 DEF Exchanging
  <2> QED
      BY <1>1, <2>1, <2>2, CallsStep
<1>11. AnswersAreOwn'
    BY <1>1 DEF AnswersAreOwn
<1>12. RunsInv'
  <2>1. \A j \in Conns : conn'[j].work = "asked" =>
           conn[j].work = "asked" /\ conn'[j].req = conn[j].req
      BY <1>2, <1>7
  <2>2. Budget(c)' >= Budget(c)
      BY <1>1, <1>2 DEF Budget, Writes, RunsInv
  <2>3. result'[c] \in {"ok", "refused"} => ran[c] > 0
      BY <1>1 DEF RunsInv
  <2>4. pc'[c] \notin {"start", "take", "connect", "hello"}
      BY <1>2
  <2> QED
      BY <1>1, <1>2, <2>1, <2>2, <2>3, <2>4, RunsKept
<1> QED
    BY <1>5, <1>6, <1>8, <1>9, <1>10, <1>11, <1>12 DEF IInv

LEMMA LastIdle ==
    ASSUME TypeOK, HandsInv, idle # <<>>
    PROVE  /\ Len(idle) \in 1..Len(idle) /\ Len(idle) - 1 \in 0..Len(idle)
           /\ idle[Len(idle)] \in Conns /\ idle \in Seq(Conns)
           /\ \A i \in 1..(Len(idle) - 1) :
                 i \in 1..Len(idle) /\ idle[i] # idle[Len(idle)]
           /\ \A c \in Calls : hand[c] # idle[Len(idle)]
<1>1. idle \in Seq(Conns) /\ Len(idle) \in Nat /\ Len(idle) > 0
    BY EmptySeq, LenProperties DEF TypeOK
<1>2. Len(idle) \in 1..Len(idle) /\ idle[Len(idle)] \in Conns
    BY <1>1, ElementOfSeq
<1> QED
    BY <1>1, <1>2 DEF HandsInv

\* The connection on top of the pool is taken.
LEMMA TakePooledKeeps ==
    ASSUME IInv, NEW c \in Calls, Take(c), idle # <<>>,
           ~Unsolicited(idle[Len(idle)])
    PROVE  IInv'
<1>1. TypeOK /\ HandsInv /\ StreamInv /\ PoolInv /\ LimitsInv
    BY DEF IInv
<1>2. PICK k \in Conns : k = idle[Len(idle)]
    BY <1>1, LastIdle
<1>3. PICK n \in 0..Len(idle) : n = Len(idle) - 1
    BY <1>1, LastIdle
<1>4. /\ \A i \in 1..n : idle[i] # k
      /\ \A d \in Calls : hand[d] # k
      /\ Len(idle) \in 1..Len(idle)
    BY <1>1, <1>2, <1>3, LastIdle
<1>5. PICK q \in Connections : q = conn[k]
    BY <1>1 DEF TypeOK
<1>6. Sound(q) /\ q.link # "none" /\ Quiet(q) /\ Alive(q)
    BY <1>1, <1>2, <1>4, <1>5 DEF StreamInv, HandsInv, PoolInv
<1>7. /\ pc[c] = "take" /\ idle' = SubSeq(idle, 1, n) /\ conn' = conn
      /\ hand' = [hand EXCEPT ![c] = k]
      /\ UNCHANGED <<kind, seen, answer, gitCalls, hellos, ran>>
      /\ \/ /\ result' = [result EXCEPT ![c] = "too_old"] /\ UNCHANGED reused
            /\ pc' = [pc EXCEPT ![c] = "keeping"]
         \/ /\ reused' = [reused EXCEPT ![c] = TRUE] /\ UNCHANGED result
            /\ pc' = [pc EXCEPT ![c] = "ready"]
    BY <1>2, <1>3 DEF Take, Goto, EndsAs, limits
<1>8. conn' = [conn EXCEPT ![k] = q]
    BY <1>1, <1>5, <1>7 DEF TypeOK
<1>9. PICK place \in {"ready", "keeping"} :
         /\ pc' = [pc EXCEPT ![c] = place] /\ pc'[c] = place
         /\ \A d \in Calls \ {c} : pc'[d] = pc[d]
         /\ place = "ready" => reused'[c]
    BY <1>1, <1>7 DEF TypeOK
<1>10. /\ reused' \in [Calls -> BOOLEAN] /\ result' \in [Calls -> Results]
       /\ \A d \in Calls \ {c} : reused'[d] = reused[d] /\ result'[d] = result[d]
       /\ result'[c] \in {result[c], "too_old"}
    BY <1>1, <1>7 DEF TypeOK, Results
<1>11. LimitsInv' /\ gitCalls' \in Nat /\ hellos' \in Nat
  <2>1. \A d \in Calls : /\ pc'[d] \in {"start", "done"} <=> pc[d] \in {"start", "done"}
                         /\ pc'[d] = "hello" <=> pc[d] = "hello"
      BY <1>7, <1>9
  <2> QED
      BY <1>1, <1>7, <2>1, LimitsKept DEF TypeOK
<1> QED
    BY <1>4, <1>6, <1>7, <1>8, <1>9, <1>10, <1>11, TakenStep

\* It has heard something nobody asked for, and is dropped.
LEMMA TakeDropsKeeps ==
    ASSUME IInv, NEW c \in Calls, Take(c), idle # <<>>,
           Unsolicited(idle[Len(idle)])
    PROVE  IInv'
<1>1. /\ TypeOK /\ HandsInv /\ StreamInv /\ PoolInv /\ CallInv /\ RunsInv /\ LimitsInv
      /\ AnswersAreOwn
    BY DEF IInv
<1>2. PICK k \in Conns : k = idle[Len(idle)]
    BY <1>1, LastIdle
<1>3. PICK n \in 0..Len(idle) : n = Len(idle) - 1
    BY <1>1, LastIdle
<1>4. /\ \A i \in 1..n : idle[i] # k
      /\ \A d \in Calls : hand[d] # k
    BY <1>1, <1>2, <1>3, LastIdle
<1>5. conn[k] \in Connections /\ Sound(conn[k])
    BY <1>1 DEF TypeOK, StreamInv
<1>6. PICK q : q = Closed(conn[k])
    OBVIOUS
<1>7. /\ q \in Connections /\ Sound(q) /\ q.link = "down"
      /\ q.work = "asked" => conn[k].work = "asked" /\ q.req = conn[k].req
      /\ \A d \in Calls : ~Concerns(q, d)
    BY <1>5, <1>6, ClosedFacts
<1>8. /\ pc[c] = "take" /\ pc' = [pc EXCEPT ![c] = "connect"]
      /\ idle' = SubSeq(idle, 1, n) /\ conn' = [conn EXCEPT ![k] = q]
      /\ UNCHANGED <<kind, hand, reused, seen, result, answer, limits, ran>>
    BY <1>2, <1>3, <1>6 DEF Take, Goto
<1>9. /\ conn'[k] = q /\ \A j \in Conns \ {k} : conn'[j] = conn[j]
      /\ conn' \in [Conns -> Connections]
      /\ pc'[c] = "connect" /\ \A d \in Calls \ {c} : pc'[d] = pc[d]
    BY <1>1, <1>7, <1>8 DEF TypeOK
<1>10. /\ idle' \in Seq(Conns) /\ Len(idle') = n
       /\ \A i \in 1..n : idle'[i] = idle[i] /\ i \in 1..Len(idle) /\ idle[i] \in Conns
    BY <1>1, <1>8, Cutoff, ElementOfSeq, LenProperties DEF TypeOK
<1>11. TypeOK'
    BY <1>1, <1>8, <1>9, <1>10 DEF TypeOK, limits, Places
<1>12. HandsInv'
  <2>1. \A d \in Calls : pc'[d] \in Holding <=> pc[d] \in Holding
      BY <1>8, <1>9 DEF Holding
  <2>2. ASSUME NEW d \in Calls, hand[d] # NoConn
        PROVE  conn'[hand[d]].link # "none"
      BY <1>1, <1>4, <1>9, <2>2 DEF HandsInv, TypeOK
  <2>3. \A i \in 1..n : conn'[idle[i]].link # "none"
      BY <1>1, <1>4, <1>9, <1>10 DEF HandsInv
  <2> QED
      BY <1>1, <1>8, <1>10, <2>1, <2>2, <2>3 DEF HandsInv
<1>13. StreamInv'
  <2>1. \A d \in Calls : ran'[d] >= ran[d] /\ ran'[d] \in Nat
      BY <1>1, <1>8 DEF TypeOK
  <2> QED
      BY <1>1, <1>7, <1>8, <1>9, <2>1, StreamStep
<1>14. PoolInv'
    BY <1>1, <1>4, <1>9, <1>10, PoolStep
<1>15. CallInv'
  <2>1. \A d \in Calls \ {c} :
           /\ pc'[d] = pc[d] /\ result'[d] = result[d] /\ hand'[d] = hand[d]
           /\ hand[d] \in Conns => conn'[hand[d]] = conn[hand[d]]
      BY <1>4, <1>8, <1>9
  <2>2. ~WantsQuiet(c)' /\ ~WantsAlive(c)' /\ ~Exchanging(c)'
      BY <1>9 DEF WantsQuiet, WantsAlive, Exchanging
  <2> QED
      BY <1>1, <2>1, <2>2, CallsStep
<1>16. AnswersAreOwn'
    BY <1>1, <1>8 DEF AnswersAreOwn
<1>17. RunsInv'
  <2>1. \A j \in Conns : conn'[j].work = "asked" =>
           conn[j].work = "asked" /\ conn'[j].req = conn[j].req
      BY <1>7, <1>9
  <2>2. Budget(c)' >= Budget(c)
      BY <1>8, <1>9 DEF Budget, Writes
  <2> QED
      BY <1>1, <1>8, <1>9, <2>1, <2>2, RunsKept DEF RunsInv
<1>18. LimitsInv'
  <2>1. \A d \in Calls : /\ pc'[d] \in {"start", "done"} <=> pc[d] \in {"start", "done"}
                         /\ pc'[d] = "hello" <=> pc[d] = "hello"
      BY <1>8, <1>9
  <2> QED
      BY <1>1, <1>8, <2>1, LimitsKept DEF limits
<1> QED
    BY <1>11, <1>12, <1>13, <1>14, <1>15, <1>16, <1>17, <1>18 DEF IInv

LEMMA HelloDoneKeeps ==
    ASSUME IInv, NEW c \in Calls, HelloDone(c)
    PROVE  IInv'
<1>1. TypeOK /\ HandsInv /\ StreamInv /\ PoolInv /\ LimitsInv
    BY DEF IInv
<1>2. PICK k \in Unopened : k = CHOOSE j \in Unopened : TRUE
    BY DEF HelloDone
<1>3. PICK old \in BOOLEAN :
         /\ pc[c] = "hello" /\ hellos' = hellos - 1
         /\ conn' = [conn EXCEPT ![k] = Opened(old)]
         /\ hand' = [hand EXCEPT ![c] = k]
         /\ \/ result' = [result EXCEPT ![c] = "too_old"] /\ pc' = [pc EXCEPT ![c] = "keeping"]
            \/ result' = [result EXCEPT ![c] = "none"] /\ pc' = [pc EXCEPT ![c] = "ready"]
         /\ UNCHANGED <<kind, reused, seen, answer, idle, gitCalls, ran>>
    BY <1>2 DEF HelloDone, EndsAs, Goto
<1>4. PICK q : q = Opened(old)
    OBVIOUS
<1>5. /\ q \in Connections /\ Sound(q) /\ Quiet(q) /\ Alive(q) /\ q.link = "up"
    BY <1>4, OpenedFacts
<1>6. /\ k \in Conns /\ conn[k].link = "none"
      /\ \A d \in Calls : hand[d] # k
      /\ \A i \in 1..Len(idle) : idle[i] # k
    BY <1>1, <1>2 DEF Unopened, HandsInv
<1>7. idle' = SubSeq(idle, 1, Len(idle)) /\ Len(idle) \in 0..Len(idle)
    BY <1>1, <1>3, SubSeqFull, LenProperties DEF TypeOK
<1>8. PICK place \in {"ready", "keeping"} :
         /\ pc' = [pc EXCEPT ![c] = place] /\ pc'[c] = place
         /\ \A d \in Calls \ {c} : pc'[d] = pc[d]
    BY <1>1, <1>3 DEF TypeOK
<1>9. /\ result' \in [Calls -> Results] /\ result'[c] \in {"too_old", "none"}
      /\ \A d \in Calls \ {c} : result'[d] = result[d]
    BY <1>1, <1>3 DEF TypeOK, Results
<1>10. LimitsInv' /\ hellos' \in Nat /\ gitCalls' \in Nat
    BY <1>1, <1>3, <1>8, HellosMoved DEF TypeOK
<1> QED
    BY <1>1, <1>3, <1>4, <1>5, <1>6, <1>7, <1>8, <1>9, <1>10, TakenStep DEF TypeOK

-----------------------------------------------------------------------------
LEMMA InitInv == Init => IInv
<1> SUFFICES ASSUME Init
             PROVE  IInv
    OBVIOUS
<1>1. <<>> \in Seq(Frames) /\ <<>> \in Seq(Conns) /\ Len(<<>>) = 0
    BY EmptySeq
<1>2. NotOpened \in Connections /\ Sound(NotOpened)
    BY <1>1, FrameFacts DEF NotOpened, Connections, Sound, AnswerIsLast
<1>3. NotOpened.work = "none" /\ \A c \in Calls : ~Concerns(NotOpened, c)
    BY <1>1 DEF NotOpened, Concerns
<1>4. TypeOK
    BY <1>1, <1>2 DEF Init, TypeOK, Places, Results
<1>5. HandsInv
    BY <1>1 DEF Init, HandsInv, Holding
<1>6. StreamInv
    BY <1>2, <1>3 DEF Init, StreamInv
<1>7. PoolInv /\ CallInv
    BY <1>1 DEF Init, PoolInv, CallInv, WantsQuiet, WantsAlive, Exchanging
<1>8. AnswersAreOwn
    BY DEF Init, AnswersAreOwn
<1>9. RunsInv
  <2> SUFFICES ASSUME NEW c \in Calls
               PROVE  /\ IsFiniteSet(Asked(c))
                      /\ ran[c] + Cardinality(Asked(c)) <= Budget(c)
                      /\ ~reused[c] /\ result[c] = "none"
      BY DEF RunsInv
  <2>1. Asked(c) = {}
      BY <1>3 DEF Init, Asked
  <2> QED
      BY <2>1, FS_EmptySet DEF Init, Budget
<1>10. LimitsInv
  <2>1. Admitted = {} /\ Greeting = {}
      BY DEF Init, Admitted, Greeting
  <2> QED
      BY <2>1, FS_EmptySet DEF Init, LimitsInv
<1> QED
    BY <1>4, <1>5, <1>6, <1>7, <1>8, <1>9, <1>10 DEF IInv

LEMMA StepInv == IInv /\ [Next]_vars => IInv'
<1> SUFFICES ASSUME IInv, [Next]_vars
             PROVE  IInv'
    OBVIOUS
<1>1. ASSUME NEW c \in Calls, CallStep(c)
      PROVE  IInv'
  <2>1. CASE Admit(c) \/ AdmitStopped(c)
      BY <2>1, AdmitKeeps
  <2>2. CASE Take(c)
    <3>1. CASE idle = <<>>
        BY <2>2, <3>1, TakeNoneKeeps
    <3>2. CASE idle # <<>> /\ Unsolicited(idle[Len(idle)])
        BY <2>2, <3>2, TakeDropsKeeps
    <3>3. CASE idle # <<>> /\ ~Unsolicited(idle[Len(idle)])
        BY <2>2, <3>3, TakePooledKeeps
    <3> QED
        BY <3>1, <3>2, <3>3
  <2>3. CASE JoinGate(c)
      BY <2>3, JoinGateKeeps
  <2>4. CASE GateStopped(c) \/ HelloFails(c)
      BY <2>4, ConnectFailsKeeps
  <2>5. CASE HelloDone(c)
      BY <2>5, HelloDoneKeeps
  <2>6. CASE OutOfTime(c)
      BY <2>6, OutOfTimeKeeps
  <2>7. CASE BeginCall(c)
      BY <2>7, BeginCallKeeps
  <2>8. CASE Sent(c)
      BY <2>8, SentKeeps
  <2>9. CASE SendFails(c) \/ WaitStopped(c)
      BY <2>9, GivesUpKeeps
  <2>10. CASE SendStopped(c)
      BY <2>10, SendStoppedKeeps
  <2>11. CASE Receive(c)
      BY <2>11, ReceiveKeeps
  <2>12. CASE EndCall(c)
      BY <2>12, EndCallStays, ResendKeeps
  <2>13. CASE Keep(c)
      BY <2>13, KeepKeeps
  <2>14. CASE Return(c)
      BY <2>14, ReturnKeeps
  <2> QED
      BY <1>1, <2>1, <2>2, <2>3, <2>4, <2>5, <2>6, <2>7, <2>8, <2>9, <2>10, <2>11,
         <2>12, <2>13, <2>14 DEF CallStep
<1>2. ASSUME NEW k \in Conns, PumpStep(k)
      PROVE  IInv'
    BY <1>2, PumpReadsKeeps, PumpNextKeeps DEF PumpStep
<1>3. ASSUME NEW k \in Conns, WorkerStep(k)
      PROVE  IInv'
    BY <1>3, RunsKeeps, SaysKeeps, LinkDiesKeeps DEF WorkerStep
<1>4. CASE UNCHANGED vars
  <2>1. TypeOK' /\ HandsInv' /\ StreamInv' /\ PoolInv' /\ AnswersAreOwn'
      BY <1>4 DEF IInv, TypeOK, HandsInv, StreamInv, PoolInv, AnswersAreOwn, vars, calls,
                  limits
  <2>2. CallInv'
      BY <1>4 DEF IInv, CallInv, WantsQuiet, WantsAlive, Exchanging, Broken, vars, calls
  <2>3. RunsInv' /\ LimitsInv'
      BY <1>4 DEF IInv, RunsInv, LimitsInv, Asked, Budget, Writes, Admitted, Greeting,
                  RunsGit, vars, calls, limits
  <2> QED
      BY <2>1, <2>2, <2>3 DEF IInv
<1> QED
    BY <1>1, <1>2, <1>3, <1>4 DEF Next

THEOREM Invariance == Spec => []IInv
BY InitInv, StepInv, PTL DEF Spec

-----------------------------------------------------------------------------
(***************************************************************************)
(* The fields of call_with's frames, of the pool and of each connection    *)
(* stay what the code declares; in particular no counter goes below zero.  *)
(***************************************************************************)
THEOREM TypeCorrect == Spec => []TypeOK
<1>1. IInv => TypeOK
    BY DEF IInv
<1> QED
    BY <1>1, Invariance, PTL

(***************************************************************************)
(* A call is answered with the answer to its own request, whatever its     *)
(* connection had carried before (call_with, keep, take_connection).       *)
(***************************************************************************)
THEOREM AnswersOwn == Spec => []AnswersAreOwn
<1>1. IInv => AnswersAreOwn
    BY DEF IInv
<1> QED
    BY <1>1, Invariance, PTL

(***************************************************************************)
(* A worker runs a write at most once and a read at most twice, and a call *)
(* that reports an answer had its request run (should_resend).             *)
(***************************************************************************)
THEOREM WritesOnce == Spec => []WritesRunOnce
<1>1. ASSUME IInv
      PROVE  WritesRunOnce
  <2> SUFFICES ASSUME NEW c \in Calls
               PROVE  ran[c] <= (IF Writes(c) THEN 1 ELSE 2)
      BY <1>1 DEF IInv, RunsInv, WritesRunOnce
  <2>1. ran[c] \in Nat /\ Cardinality(Asked(c)) \in Nat
      BY <1>1, FS_CardinalityType DEF IInv, TypeOK, RunsInv
  <2>2. Budget(c) <= (IF Writes(c) THEN 1 ELSE 2) /\ Budget(c) \in Nat
      BY DEF Budget
  <2> QED
      BY <1>1, <2>1, <2>2 DEF IInv, RunsInv
<1> QED
    BY <1>1, Invariance, PTL

(***************************************************************************)
(* An idle connection whose link nobody cut can be used: nothing unasked   *)
(* is counted on it and its pump still reads (pump_frames, keep).          *)
(***************************************************************************)
THEOREM PoolUsable == Spec => []PoolIsUsable
<1>1. ASSUME IInv
      PROVE  PoolIsUsable
  <2> SUFFICES ASSUME NEW i \in 1..Len(idle), conn[idle[i]].link = "up"
               PROVE  /\ conn[idle[i]].retained = 0
                      /\ conn[idle[i]].pump # "ended"
                      /\ conn[idle[i]].pump = "sent" => ~PumpEnds(idle[i])
      BY DEF PoolIsUsable
  <2>1. idle[i] \in Conns
      BY <1>1, ElementOfSeq DEF IInv, TypeOK
  <2>2. PICK r \in Connections : r = conn[idle[i]]
      BY <1>1, <2>1 DEF IInv, TypeOK
  <2>3. Sound(r) /\ Quiet(r) /\ Alive(r) /\ r.link = "up"
      BY <1>1, <2>1, <2>2 DEF IInv, StreamInv, PoolInv
  <2>4. r.retained = 0
    <3>1. Len(r.queue) \in Nat
        BY LenProperties DEF Connections
    <3>2. Len(r.queue) > 0 => r.queue[1] = Eof /\ IsFrame(r.queue[1])
        BY <2>3, <3>1 DEF Sound, Quiet
    <3> QED
        BY <2>3, <3>1, <3>2 DEF Sound, IsFrame, Eof
  <2> QED
      BY <2>2, <2>3, <2>4 DEF Alive, PumpEnds
<1> QED
    BY <1>1, Invariance, PTL

(***************************************************************************)
(* The counter of Git calls is the number of calls between admission and   *)
(* return, that of handshakes the number of calls at one, and neither      *)
(* passes its limit (GitLimiter, HandshakeGate).                           *)
(***************************************************************************)
THEOREM LimitsHold == Spec => []LimitsInv
<1>1. IInv => LimitsInv
    BY DEF IInv
<1> QED
    BY <1>1, Invariance, PTL

\* Two calls never hold one connection; a pooled one is there once, and in no hand.
OneOwner ==
    /\ \A c, d \in Calls : hand[c] \in Conns /\ hand[c] = hand[d] => c = d
    /\ \A c \in Calls : \A i \in 1..Len(idle) : hand[c] # idle[i]
    /\ \A i, j \in 1..Len(idle) : idle[i] = idle[j] => i = j

(***************************************************************************)
(* A connection has one owner: a call, the pool, or nobody any more        *)
(* (take_connection, keep).                                                *)
(***************************************************************************)
THEOREM OwnedOnce == Spec => []OneOwner
<1>1. IInv => OneOwner
    BY DEF IInv, HandsInv, OneOwner
<1> QED
    BY <1>1, Invariance, PTL

\* What is being said about c's request is said on the connection c holds.
NothingLeftBehind ==
    \A k \in Conns : \A c \in Calls : Concerns(conn[k], c) => hand[c] = k

(***************************************************************************)
(* Nothing about an earlier call's request is left on a connection that    *)
(* another call holds or may take: keep drops every connection whose call  *)
(* was broken off.                                                         *)
(***************************************************************************)
THEOREM NothingBehind == Spec => []NothingLeftBehind
<1>1. IInv => NothingLeftBehind
    BY DEF IInv, StreamInv, NothingLeftBehind
<1> QED
    BY <1>1, Invariance, PTL
=============================================================================
