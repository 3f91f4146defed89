--------------------------- MODULE DeliveryProofs ---------------------------
(***************************************************************************)
(* The safety of the delivery of messages for every number of events, runs *)
(* and attempts, and for every window of quiet hours.                      *)
(***************************************************************************)
EXTENDS Delivery, TLAPS

Statuses == {"none", "queued", "sent", "skipped", "failed"}
Rows == [status : Statuses, attempt : Int, wait : Int]
Loads == UNION {[C -> Rows] : C \in SUBSET Contents}
Hours == 0..(Day - 1)

\* What is put off is put off until the window ends, not longer and not shorter.
Timely(k, t) == k.wait >= 0 /\ (k.wait > 0 => InQuiet(t) /\ k.wait = UntilEnd(t))

QueueOK ==
  /\ hour \in Hours
  /\ job \in [Contents -> Rows]
  /\ \A c \in Contents : Timely(job[c], hour)

\* The job of an event is there.
Known(e) == ContentOf[e] \notin Silent => job[ContentOf[e]].status # "none"

OutboxOK ==
  /\ outbox \in [Events -> {"none", "waiting", "published"}]
  /\ \A e \in Events : outbox[e] = "published" => Known(e)

DrainRuns == [todo : SUBSET Events, marked : SUBSET Events]
DrainsOK ==
  /\ drain \in [Drains -> DrainRuns]
  /\ \A d \in Drains : \A e \in drain[d].marked : Known(e)

\* A run has loaded rows that were queued and due, and has decided on some.
SendRuns == [loaded : Loads, decided : Loads]
Sound(k, jobs, t) ==
  /\ DOMAIN k.decided \subseteq DOMAIN k.loaded
  /\ \A c \in DOMAIN k.loaded :
       k.loaded[c].status = "queued" /\ k.loaded[c].wait = 0 /\ jobs[c].status # "none"
  /\ \A c \in DOMAIN k.decided : k.decided[c].status # "none" /\ Timely(k.decided[c], t)
SendsOK ==
  /\ send \in [Senders -> SendRuns]
  /\ \A s \in Senders : Sound(send[s], job, hour)

DeliveryInv == QueueOK /\ OutboxOK /\ DrainsOK /\ SendsOK

\* No job is forgotten.
JobsStay == \A c \in Contents : job[c].status # "none" => job'[c].status # "none"

-----------------------------------------------------------------------------
(* Data *)

LEMMA LoadsAre ==
  ASSUME NEW f \in Loads
  PROVE  DOMAIN f \subseteq Contents /\ f \in [DOMAIN f -> Rows]
BY DEF Loads

LEMMA LoadsBuilt ==
  ASSUME NEW C \in SUBSET Contents, NEW f \in [C -> Rows]
  PROVE  f \in Loads
BY DEF Loads

LEMMA NothingLoaded == NoJob \in Rows /\ Nothing \in Loads /\ DOMAIN Nothing = {}
<1>1. NoJob \in Rows
  BY DEF NoJob, Rows, Statuses
<1>2. Nothing \in [{} -> Rows]
  BY DEF Nothing
<1>3. QED
  BY <1>1, <1>2, LoadsBuilt DEF Nothing

\* By night the end of the window is ahead, and an hour later either it has come
\* or it is an hour nearer.
LEMMA Dawn ==
  ASSUME hour \in Hours, InQuiet(hour), NEW next \in Int, next = (hour + 1) % Day
  PROVE  /\ UntilEnd(hour) \in Nat \ {0}
         /\ UntilEnd(hour) = 1 \/ (InQuiet(next) /\ UntilEnd(next) = UntilEnd(hour) - 1)
<1>1. Day \in Nat \ {0} /\ QuietFrom \in Hours /\ QuietTo \in Hours /\ hour \in Hours
  BY DeliveryAssumption DEF Hours
<1>2. next = IF hour + 1 = Day THEN 0 ELSE hour + 1
  BY <1>1 DEF Hours
<1>3. QuietFrom # QuietTo
  BY <1>1 DEF InQuiet, Hours
<1>4. CASE QuietFrom < QuietTo
  BY <1>1, <1>2, <1>4 DEF InQuiet, UntilEnd, Hours
<1>5. CASE QuietFrom > QuietTo
  BY <1>1, <1>2, <1>5 DEF InQuiet, UntilEnd, Hours
<1>6. QED
  BY <1>1, <1>3, <1>4, <1>5 DEF Hours

LEMMA TriedOnce ==
  ASSUME NEW k \in Rows
  PROVE  OneMore(k) \in Rows /\ OneMore(k).status # "none" /\ OneMore(k).wait = k.wait
<1>1. k.attempt + 1 \in Int /\ k.wait \in Int /\ k.attempt \in Int
  BY DEF Rows
<1>2. PICK st \in {"failed", "queued"} : OneMore(k) = [k EXCEPT !.attempt = @ + 1, !.status = st]
  BY DEF OneMore
<1>3. [k EXCEPT !.attempt = @ + 1] \in Rows /\ [k EXCEPT !.attempt = @ + 1].wait = k.wait
  BY <1>1 DEF Rows
<1>4. QED
  BY <1>2, <1>3 DEF Rows, Statuses

LEMMA KnownStays ==
  ASSUME JobsStay, NEW e \in Events, Known(e)
  PROVE  Known(e)'
BY DeliveryAssumption DEF JobsStay, Known

-----------------------------------------------------------------------------
(* What a step has to show of the part it changes *)

LEMMA OutboxKept ==
  ASSUME OutboxOK, JobsStay, UNCHANGED outbox
  PROVE  OutboxOK'
BY KnownStays DEF OutboxOK

LEMMA DrainsKept ==
  ASSUME DrainsOK, JobsStay, UNCHANGED drain
  PROVE  DrainsOK'
BY KnownStays DEF DrainsOK, DrainRuns

LEMMA OneDrain ==
  ASSUME DrainsOK, JobsStay, NEW d \in Drains, NEW k \in DrainRuns,
         \A e \in k.marked : Known(e)', drain' = [drain EXCEPT ![d] = k]
  PROVE  DrainsOK'
BY KnownStays DEF DrainsOK, DrainRuns

LEMMA SoundStays ==
  ASSUME NEW k \in SendRuns, Sound(k, job, hour), JobsStay, UNCHANGED hour
  PROVE  Sound(k, job', hour')
BY LoadsAre DEF Sound, JobsStay, SendRuns, Timely, InQuiet, UntilEnd

LEMMA SendsKept ==
  ASSUME SendsOK, JobsStay, UNCHANGED <<send, hour>>
  PROVE  SendsOK'
BY SoundStays DEF SendsOK

LEMMA OneSend ==
  ASSUME SendsOK, JobsStay, UNCHANGED hour, NEW s \in Senders, NEW k \in SendRuns,
         Sound(k, job', hour'), send' = [send EXCEPT ![s] = k]
  PROVE  SendsOK'
<1>1. send' \in [Senders -> SendRuns]
  BY DEF SendsOK
<1>2. ASSUME NEW t \in Senders PROVE Sound(send'[t], job', hour')
  <2>1. CASE t = s
    BY <2>1 DEF SendsOK
  <2>2. CASE t # s
    <3>1. send'[t] = send[t] /\ send[t] \in SendRuns /\ Sound(send[t], job, hour)
      BY <2>2 DEF SendsOK
    <3>2. QED
      BY <3>1, SoundStays
  <2>3. QED
    BY <2>1, <2>2
<1>3. QED
  BY <1>1, <1>2 DEF SendsOK

LEMMA QueueKept ==
  ASSUME QueueOK, UNCHANGED <<job, hour>>
  PROVE  QueueOK' /\ JobsStay
BY DEF QueueOK, JobsStay, Timely, InQuiet, UntilEnd

-----------------------------------------------------------------------------
(* The steps *)

\* Steps of the outbox that touch no job, other than Dispatch.
LEMMA DrainSteps ==
  ASSUME DeliveryInv,
         \/ \E e \in Events : Emit(e)
         \/ \E d \in Drains : StartDrain(d) \/ CommitDrain(d) \/ AbortDrain(d)
         \/ \E d \in Drains, e \in Events : DispatchFails(d, e)
  PROVE  DeliveryInv'
<1>1. UNCHANGED <<job, send, hour>>
  BY DEF Emit, StartDrain, CommitDrain, AbortDrain, DispatchFails
<1>2. QueueOK' /\ JobsStay /\ SendsOK'
  BY <1>1, QueueKept, SendsKept DEF DeliveryInv
<1>3. \A e \in Events : Known(e)' <=> Known(e)
  BY <1>1 DEF Known
<1>4. NoDrain \in DrainRuns /\ NoDrain.marked = {}
  BY DEF NoDrain, DrainRuns
<1>5. ASSUME NEW e \in Events, Emit(e) PROVE OutboxOK' /\ DrainsOK'
  BY <1>2, <1>3, <1>5, DrainsKept DEF Emit, DeliveryInv, OutboxOK
<1>6. ASSUME NEW d \in Drains, StartDrain(d) PROVE OutboxOK' /\ DrainsOK'
  <2>1. drain' = [drain EXCEPT ![d] = [NoDrain EXCEPT !.todo = Selected]]
    BY <1>6 DEF StartDrain
  <2>2. [NoDrain EXCEPT !.todo = Selected] \in DrainRuns
    BY DEF NoDrain, DrainRuns, Selected
  <2>3. [NoDrain EXCEPT !.todo = Selected].marked = {}
    BY DEF NoDrain
  <2>4. DrainsOK'
    BY <1>2, <2>1, <2>2, <2>3, OneDrain DEF DeliveryInv
  <2>5. QED
    BY <1>2, <1>6, <2>4, OutboxKept DEF StartDrain, DeliveryInv
<1>7. ASSUME NEW d \in Drains, CommitDrain(d) PROVE OutboxOK' /\ DrainsOK'
  <2>1. DrainsOK'
    BY <1>2, <1>4, <1>7, OneDrain DEF CommitDrain, DeliveryInv
  <2>2. \A e \in drain[d].marked : Known(e)
    BY DEF DeliveryInv, DrainsOK
  <2>3. OutboxOK'
    BY <1>3, <1>7, <2>2 DEF CommitDrain, DeliveryInv, OutboxOK
  <2>4. QED
    BY <2>1, <2>3
<1>8. ASSUME NEW d \in Drains, AbortDrain(d) PROVE OutboxOK' /\ DrainsOK'
  BY <1>2, <1>4, <1>8, OneDrain, OutboxKept DEF AbortDrain, DeliveryInv
<1>9. ASSUME NEW d \in Drains, NEW e \in Events, DispatchFails(d, e)
      PROVE  OutboxOK' /\ DrainsOK'
  <2>1. /\ Taken(d, e) \in DrainRuns
        /\ \A f \in Taken(d, e).marked : Known(f)
    BY DEF Taken, DeliveryInv, DrainsOK, DrainRuns
  <2>2. /\ drain' = [drain EXCEPT ![d] = Taken(d, e)]
        /\ UNCHANGED outbox
    BY <1>9 DEF DispatchFails, Skipped
  <2>3. \A f \in Taken(d, e).marked : Known(f)'
    BY <1>3, <2>1 DEF DrainRuns
  <2>4. DrainsOK'
    BY <1>2, <2>1, <2>2, <2>3, OneDrain DEF DeliveryInv
  <2>5. QED
    BY <1>2, <2>2, <2>4, OutboxKept DEF DeliveryInv
<1>10. QED
  BY <1>2, <1>5, <1>6, <1>7, <1>8, <1>9 DEF DeliveryInv

\* The job is committed before the event is marked.
LEMMA DispatchStep ==
  ASSUME DeliveryInv, NEW d \in Drains, NEW e \in Events, Dispatch(d, e)
  PROVE  DeliveryInv'
<1> DEFINE c == ContentOf[e]
<1>1. c \in Contents /\ job[c] \in Rows /\ Timely(job[c], hour)
  BY DeliveryAssumption DEF DeliveryInv, QueueOK
<1>2. /\ Enqueued(c) \in Rows /\ Timely(Enqueued(c), hour)
      /\ Enqueued(c).status # "none"
      /\ job[c].status # "none" => Enqueued(c) = job[c]
  BY <1>1 DEF Enqueued, NoJob, Rows, Statuses, Timely
<1>3. job' = job \/ job' = [job EXCEPT ![c] = Enqueued(c)]
  BY DEF Dispatch
<1>4. UNCHANGED <<outbox, send, hour>>
  BY DEF Dispatch
<1>5. JobsStay
  BY <1>2, <1>3 DEF JobsStay, DeliveryInv, QueueOK
<1>6. QueueOK'
  <2>1. job' \in [Contents -> Rows] /\ \A k \in Contents : Timely(job'[k], hour)
    BY <1>2, <1>3 DEF DeliveryInv, QueueOK
  <2>2. QED
    BY <1>4, <2>1 DEF QueueOK, DeliveryInv, Timely, InQuiet, UntilEnd
<1>7. Known(e)'
  BY <1>1, <1>2 DEF Dispatch, Known, DeliveryInv, QueueOK
<1>8. DrainsOK'
  <2> DEFINE k == [Taken(d, e) EXCEPT !.marked = @ \cup {e}]
  <2>1. k \in DrainRuns /\ drain' = [drain EXCEPT ![d] = k]
    BY DEF Dispatch, Taken, DeliveryInv, DrainsOK, DrainRuns
  <2>2. k.marked = drain[d].marked \cup {e} /\ drain[d].marked \subseteq Events
    BY DEF Taken, DeliveryInv, DrainsOK, DrainRuns
  <2>3. \A f \in k.marked : Known(f)'
    BY <1>5, <1>7, <2>2, KnownStays DEF DeliveryInv, DrainsOK
  <2>4. QED
    BY <1>5, <2>1, <2>3, OneDrain DEF DeliveryInv
<1>9. QED
  BY <1>4, <1>5, <1>6, <1>8, OutboxKept, SendsKept DEF DeliveryInv

\* What a run decides on a row that it has loaded.
LEMMA DecideStep ==
  ASSUME DeliveryInv, NEW s \in Senders, NEW c \in Contents, NEW new \in Rows,
         Decide(s, c, new), new.status # "none", Timely(new, hour),
         UNCHANGED <<outbox, drain, job, hour>>
  PROVE  DeliveryInv'
<1> DEFINE old == send[s].decided
           all == [k \in DOMAIN old \cup {c} |-> IF k = c THEN new ELSE old[k]]
           run == [send[s] EXCEPT !.decided = all]
<1>1. QueueOK' /\ JobsStay
  BY QueueKept DEF DeliveryInv
<1>2. /\ send[s] \in SendRuns /\ Sound(send[s], job, hour)
      /\ old \in Loads /\ c \in DOMAIN send[s].loaded
  BY DEF DeliveryInv, SendsOK, SendRuns, Decide, Left
<1>3. DOMAIN old \subseteq Contents /\ old \in [DOMAIN old -> Rows]
  BY <1>2, LoadsAre
<1>4. all \in Loads
  <2>1. all \in [DOMAIN old \cup {c} -> Rows] /\ DOMAIN old \cup {c} \subseteq Contents
    BY <1>3
  <2>2. QED
    BY <2>1, LoadsBuilt
<1>5. run \in SendRuns /\ run.loaded = send[s].loaded /\ run.decided = all
  BY <1>2, <1>4 DEF SendRuns
<1>6. send' = [send EXCEPT ![s] = run]
  BY DEF Decide
<1>7. Sound(run, job, hour)
  BY <1>2, <1>5 DEF Sound
<1>8. Sound(run, job', hour')
  BY <1>5, <1>7 DEF Sound, Timely, InQuiet, UntilEnd
<1>9. SendsOK'
  <2> HIDE DEF run
  <2> QED
    BY <1>1, <1>5, <1>6, <1>8, OneSend DEF DeliveryInv
<1>10. QED
  BY <1>1, <1>9, OutboxKept, DrainsKept DEF DeliveryInv

LEMMA DecisionSteps ==
  ASSUME DeliveryInv, NEW s \in Senders, NEW c \in Contents, Decision(s, c)
  PROVE  DeliveryInv'
<1> DEFINE was == send[s].loaded[c]
<1>1. /\ was \in Rows /\ was.status = "queued" /\ was.wait = 0
  <2>1. c \in DOMAIN send[s].loaded
    BY DEF Decision, Deliver, SendFails, Skip, Defer, Decide, Left
  <2>2. send[s].loaded \in Loads /\ Sound(send[s], job, hour)
    BY DEF DeliveryInv, SendsOK, SendRuns
  <2>3. QED
    BY <2>1, <2>2, LoadsAre DEF Sound
<1>2. UNCHANGED <<outbox, drain, job, hour>>
  BY DEF Decision, Deliver, SendFails, Skip, Defer
<1>3. PICK new : /\ Decide(s, c, new)
                 /\ new \in Rows /\ new.status # "none" /\ Timely(new, hour)
  <2>1. CASE Deliver(s, c)
    <3> DEFINE k == [was EXCEPT !.status = "sent"]
    <3>1. k \in Rows /\ k.status = "sent" /\ k.wait = 0
      BY <1>1 DEF Rows, Statuses
    <3>2. Decide(s, c, k)
      BY <2>1 DEF Deliver
    <3>3. QED
      <4> HIDE DEF k
      <4> QED
        BY <3>1, <3>2 DEF Timely
  <2>2. CASE SendFails(s, c)
    <3>1. /\ OneMore(was) \in Rows /\ OneMore(was).status # "none"
          /\ OneMore(was).wait = 0
      BY <1>1, TriedOnce
    <3>2. Decide(s, c, OneMore(was))
      BY <2>2 DEF SendFails
    <3>3. QED
      BY <3>1, <3>2 DEF Timely
  <2>3. CASE Skip(s, c)
    BY <1>1, <2>3 DEF Skip, Rows, Statuses, Timely
  <2>4. CASE Defer(s, c)
    <3>1. UntilEnd(hour) \in Nat /\ InQuiet(hour)
      BY <2>4, DeliveryAssumption DEF Defer, UntilEnd, DeliveryInv, QueueOK, Hours
    <3>2. QED
      BY <1>1, <2>4, <3>1 DEF Defer, Rows, Statuses, Timely
  <2>5. QED
    BY <2>1, <2>2, <2>3, <2>4 DEF Decision
<1>4. QED
  BY <1>2, <1>3, DecideStep

\* A run starts, or is cut off.
LEMMA SendStarts ==
  ASSUME DeliveryInv, NEW s \in Senders, StartSend(s) \/ AbortSend(s)
  PROVE  DeliveryInv'
<1>1. QueueOK' /\ JobsStay /\ UNCHANGED <<outbox, drain, job, hour>>
  BY QueueKept DEF DeliveryInv, StartSend, AbortSend
<1>2. NoSend \in SendRuns /\ Sound(NoSend, job', hour')
  BY NothingLoaded DEF NoSend, SendRuns, Sound
<1>3. CASE AbortSend(s)
  BY <1>1, <1>2, <1>3, OneSend, OutboxKept, DrainsKept DEF AbortSend, DeliveryInv
<1>4. CASE StartSend(s)
  <2> DEFINE due == [c \in DueJobs |-> job[c]]
             run == [NoSend EXCEPT !.loaded = due]
  <2>1. due \in [DueJobs -> Rows] /\ DueJobs \subseteq Contents
    BY DEF DueJobs, DeliveryInv, QueueOK
  <2>2. run \in SendRuns /\ run.loaded = due /\ run.decided = Nothing
    BY <2>1, LoadsBuilt, NothingLoaded DEF NoSend, SendRuns
  <2>3. send' = [send EXCEPT ![s] = run]
    BY <1>4 DEF StartSend, DeliveryInv, SendsOK, SendRuns
  <2>4. Sound(run, job', hour')
    BY <1>1, <2>2, NothingLoaded DEF Sound, DueJobs
  <2>5. SendsOK'
    <3> HIDE DEF run
    <3> QED
      BY <1>1, <2>2, <2>3, <2>4, OneSend DEF DeliveryInv
  <2>6. QED
    BY <1>1, <2>5, OutboxKept, DrainsKept DEF DeliveryInv
<1>5. QED
  BY <1>3, <1>4

\* A run writes back what it has decided: a row that it loaded was queued and
\* due, so the rest of it is as the others have left it.
LEMMA CommitStep ==
  ASSUME DeliveryInv, NEW s \in Senders, CommitSend(s)
  PROVE  DeliveryInv'
<1>1. UNCHANGED <<outbox, drain, hour>>
  BY DEF CommitSend
<1>2. /\ send[s] \in SendRuns /\ Sound(send[s], job, hour)
  BY DEF DeliveryInv, SendsOK
<1>3. ASSUME NEW c \in Contents
      PROVE  /\ job'[c] \in Rows /\ Timely(job'[c], hour)
             /\ job[c].status # "none" => job'[c].status # "none"
  <2> DEFINE was == send[s].loaded[c]  new == send[s].decided[c]
  <2>1. job[c] \in Rows /\ Timely(job[c], hour)
    BY DEF DeliveryInv, QueueOK
  <2>2. CASE c \notin DOMAIN send[s].decided
    BY <2>1, <2>2 DEF CommitSend
  <2>3. CASE c \in DOMAIN send[s].decided
    <3>1. /\ was \in Rows /\ was.wait = 0
          /\ new \in Rows /\ new.status # "none" /\ Timely(new, hour)
      BY <1>2, <2>3, LoadsAre DEF Sound, SendRuns
    <3>2. job'[c] = Merged(job[c], was, new)
      BY <2>3 DEF CommitSend
    <3>3. /\ DOMAIN job'[c] = {"status", "attempt", "wait"}
          /\ job'[c] = [f \in {"status", "attempt", "wait"} |->
                          IF new[f] # was[f] THEN new[f] ELSE job[c][f]]
      BY <2>1, <3>2 DEF Merged, Rows
    <3>4. /\ job'[c].status = (IF new.status # was.status THEN new.status ELSE job[c].status)
          /\ job'[c].attempt = (IF new.attempt # was.attempt THEN new.attempt ELSE job[c].attempt)
          /\ job'[c].wait = (IF new.wait # was.wait THEN new.wait ELSE job[c].wait)
      BY <3>3
    <3>5. job'[c] \in Rows
      BY <2>1, <3>1, <3>3, <3>4 DEF Rows
    <3>6. QED
      BY <2>1, <3>1, <3>4, <3>5 DEF Timely, Rows
  <2>4. QED
    BY <2>2, <2>3
<1>4. QueueOK' /\ JobsStay
  <2>1. job' \in [Contents -> Rows]
    BY <1>3 DEF CommitSend
  <2>2. QED
    BY <1>1, <1>3, <2>1 DEF QueueOK, DeliveryInv, JobsStay
<1>5. SendsOK'
  <2>1. NoSend \in SendRuns /\ Sound(NoSend, job', hour')
    BY NothingLoaded DEF NoSend, SendRuns, Sound
  <2>2. QED
    BY <1>1, <1>4, <2>1, OneSend DEF DeliveryInv, CommitSend
<1>6. QED
  BY <1>1, <1>4, <1>5, OutboxKept, DrainsKept DEF DeliveryInv

\* An hour passes for what is committed and for what is only decided.
LEMMA TickStep ==
  ASSUME DeliveryInv, Tick
  PROVE  DeliveryInv'
<1>1. hour' \in Hours /\ hour' = (hour + 1) % Day /\ UNCHANGED <<outbox, drain>>
  BY DeliveryAssumption DEF Tick, DeliveryInv, QueueOK, Hours
<1>2. ASSUME NEW C \in SUBSET Contents, NEW f \in [C -> Rows], NEW c \in C
      PROVE  /\ Nearer(f)[c] \in Rows /\ Nearer(f)[c].status = f[c].status
             /\ Timely(f[c], hour) => Timely(Nearer(f)[c], hour')
  <2>1. /\ f[c] \in Rows
        /\ Nearer(f)[c] = [f[c] EXCEPT !.wait = IF @ > 0 THEN @ - 1 ELSE 0]
    BY DEF Nearer
  <2>2. /\ Nearer(f)[c] \in Rows /\ Nearer(f)[c].status = f[c].status
        /\ Nearer(f)[c].wait = IF f[c].wait > 0 THEN f[c].wait - 1 ELSE 0
    BY <2>1 DEF Rows
  <2>3. ASSUME Timely(f[c], hour), f[c].wait > 0
        PROVE  /\ f[c].wait - 1 >= 0
               /\ f[c].wait - 1 > 0 => InQuiet(hour') /\ f[c].wait - 1 = UntilEnd(hour')
    <3>1. hour \in Hours /\ InQuiet(hour) /\ f[c].wait = UntilEnd(hour)
      BY <2>3 DEF Timely, DeliveryInv, QueueOK
    <3>2. hour' \in Int
      BY <1>1 DEF Hours
    <3>3. QED
      BY <1>1, <3>1, <3>2, Dawn
  <2>4. f[c].wait \in Int
    BY <2>1 DEF Rows
  <2>5. QED
    BY <2>2, <2>3, <2>4 DEF Timely
<1>3. job' = Nearer(job) /\ job \in [Contents -> Rows]
  BY DEF Tick, DeliveryInv, QueueOK
<1>4. \A c \in Contents :
        /\ job'[c] \in Rows /\ job'[c].status = job[c].status
        /\ Timely(job'[c], hour')
  BY <1>2, <1>3 DEF DeliveryInv, QueueOK
<1>5. QueueOK' /\ JobsStay
  <2>1. job' \in [Contents -> Rows]
    BY <1>3, <1>4 DEF Nearer
  <2>2. QED
    BY <1>1, <1>4, <2>1 DEF QueueOK, JobsStay
<1>6. ASSUME NEW s \in Senders
      PROVE  send'[s] \in SendRuns /\ Sound(send'[s], job', hour')
  <2> DEFINE k == send[s]
  <2>1. k \in SendRuns /\ Sound(k, job, hour)
    BY DEF DeliveryInv, SendsOK
  <2>2. send'[s] = [k EXCEPT !.decided = Nearer(@)]
    BY DEF Tick
  <2>3. send'[s].loaded = k.loaded /\ send'[s].decided = Nearer(k.decided)
    BY <2>1, <2>2 DEF SendRuns
  <2>4. DOMAIN k.decided \subseteq Contents /\ k.decided \in [DOMAIN k.decided -> Rows]
    BY <2>1, LoadsAre DEF SendRuns
  <2>5. /\ DOMAIN Nearer(k.decided) = DOMAIN k.decided
        /\ Nearer(k.decided) \in [DOMAIN k.decided -> Rows]
    BY <1>2, <2>4 DEF Nearer
  <2>6. Nearer(k.decided) \in Loads
    BY <2>4, <2>5, LoadsBuilt
  <2>7. send'[s] \in SendRuns
    BY <2>1, <2>2, <2>6 DEF SendRuns
  <2>8. \A c \in DOMAIN k.decided :
          /\ Nearer(k.decided)[c].status # "none"
          /\ Timely(Nearer(k.decided)[c], hour')
    BY <1>2, <2>1, <2>4 DEF Sound
  <2>9. \A c \in DOMAIN k.loaded : job'[c].status # "none"
    BY <1>4, <2>1, LoadsAre DEF Sound, SendRuns
  <2>10. QED
    BY <2>1, <2>3, <2>5, <2>7, <2>8, <2>9 DEF Sound
<1>7. SendsOK'
  BY <1>6 DEF SendsOK, Tick
<1>8. QED
  BY <1>1, <1>5, <1>7, OutboxKept, DrainsKept DEF DeliveryInv

\* Calm and stuttering.
LEMMA StillStep ==
  ASSUME DeliveryInv, Calm \/ UNCHANGED vars
  PROVE  DeliveryInv'
<1>1. UNCHANGED <<outbox, drain, job, send, hour>>
  BY DEF Calm, vars
<1>2. QED
  BY <1>1, QueueKept, OutboxKept, DrainsKept, SendsKept DEF DeliveryInv

-----------------------------------------------------------------------------
(* Theorems *)

\* The invariant holds in every reachable state, for any number of events and
\* runs and any window.
THEOREM DeliveryInvariant == Spec => []DeliveryInv
<1>1. Init => DeliveryInv
  <2> SUFFICES ASSUME Init PROVE DeliveryInv
    OBVIOUS
  <2>1. QueueOK
    BY NothingLoaded, DeliveryAssumption DEF Init, QueueOK, Hours, NoJob, Timely
  <2>2. OutboxOK
    BY DEF Init, OutboxOK
  <2>3. DrainsOK
    BY DEF Init, DrainsOK, DrainRuns, NoDrain
  <2>4. SendsOK
    BY NothingLoaded DEF Init, SendsOK, SendRuns, NoSend, Sound
  <2>5. QED
    BY <2>1, <2>2, <2>3, <2>4 DEF DeliveryInv
<1>2. DeliveryInv /\ [Next]_vars => DeliveryInv'
  <2> SUFFICES ASSUME DeliveryInv, [Next]_vars PROVE DeliveryInv'
    OBVIOUS
  <2>1. CASE Next
    BY <2>1, DrainSteps, DispatchStep, SendStarts, DecisionSteps, CommitStep, TickStep, StillStep
    DEF Next, Abort
  <2>2. CASE UNCHANGED vars
    BY <2>2, StillStep
  <2>3. QED
    BY <2>1, <2>2
<1>3. QED
  BY <1>1, <1>2, PTL DEF Spec

\* Every event that drain_outbox has marked, and that has something to say, has
\* its job, whatever run was cut off or overtaken between the two commits.
THEOREM MarkedIsQueued == Spec => []EventHasJob
<1>1. DeliveryInv => EventHasJob
  BY DEF DeliveryInv, OutboxOK, Known, EventHasJob
<1>2. QED
  BY <1>1, DeliveryInvariant, PTL

\* By day no message waits, for every window of quiet hours.
THEOREM NobodyOversleeps == Spec => []WakesInTime
<1>1. DeliveryInv => WakesInTime
  BY DEF DeliveryInv, QueueOK, Timely, WakesInTime
<1>2. QED
  BY <1>1, DeliveryInvariant, PTL

\* No run of send_due puts a job back that another has settled.
THEOREM SettledForGood == Spec => SettledStaysSettled
<1> DEFINE Settled(s) == s \notin {"none", "queued"}
           Stays == \A c \in Contents : Settled(job[c].status) => Settled(job'[c].status)
<1>1. DeliveryInv /\ [Next]_vars => [Stays]_vars
  <2> SUFFICES ASSUME DeliveryInv, Next PROVE Stays
    OBVIOUS
  <2>1. CASE UNCHANGED job
    BY <2>1
  <2>2. ASSUME NEW d \in Drains, NEW e \in Events, Dispatch(d, e) PROVE Stays
    BY <2>2, DeliveryAssumption DEF Dispatch, Enqueued, DeliveryInv, QueueOK
  <2>3. ASSUME NEW s \in Senders, CommitSend(s) PROVE Stays
    <3> SUFFICES ASSUME NEW c \in Contents, Settled(job[c].status)
                 PROVE  Settled(job'[c].status)
      OBVIOUS
    <3>1. CASE c \notin DOMAIN send[s].decided
      BY <2>3, <3>1 DEF CommitSend
    <3>2. CASE c \in DOMAIN send[s].decided
      <4> DEFINE was == send[s].loaded[c]  new == send[s].decided[c]
      <4>1. was.status = "queued" /\ new.status # "none"
        BY <3>2 DEF DeliveryInv, SendsOK, Sound
      <4>2. job'[c] = Merged(job[c], was, new) /\ job[c] \in Rows
        BY <2>3, <3>2 DEF CommitSend, DeliveryInv, QueueOK
      <4>3. job'[c].status = IF new.status # was.status THEN new.status ELSE job[c].status
        BY <4>2 DEF Merged, Rows
      <4>4. QED
        BY <4>1, <4>3
    <3>3. QED
      BY <3>1, <3>2
  <2>4. CASE Tick
    BY <2>4 DEF Tick, Nearer, DeliveryInv, QueueOK, Rows
  <2>5. QED
    BY <2>1, <2>2, <2>3, <2>4
    DEF Next, Emit, StartDrain, CommitDrain, DispatchFails, StartSend, Decision, Deliver,
        SendFails, Skip, Defer, Abort, AbortDrain, AbortSend, Calm
<1>2. QED
  BY <1>1, DeliveryInvariant, PTL DEF Spec, SettledStaysSettled
=============================================================================
